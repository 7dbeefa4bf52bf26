---------------------------- MODULE SessionProofs ----------------------------
(***************************************************************************)
(* Proofs about the session store, for any number of turns, saves, faults, *)
(* deaths and damages: what a load returns is the generation that was      *)
(* committed, with the turn that was under way, and a cleared history is   *)
(* gone from the logs.                                                     *)
(***************************************************************************)
EXTENDS SessionStore, SequenceTheorems, WellFoundedInduction, TLAPS

SessionSpec == SessionInit /\ [][SessionNext]_sessionStoreVars

-----------------------------------------------------------------------------
(* The records of a generation among the lines of a log, by induction over   *)
(* the number of lines looked at.                                            *)
Among(f, g, s, n) ==
    f = [i \in 0..n |-> IF i = 0 THEN <<>>
                        ELSE IF s[i].gen = g THEN Append(f[i - 1], s[i])
                        ELSE f[i - 1]]

LEMMA LeastNumber ==
  ASSUME NEW T \in SUBSET Nat, T # {}
  PROVE  \E n \in T : \A m \in T : n <= m
<1>1. IsWellFoundedOn(OpToRel(<, Nat), Nat) BY NatLessThanWellFounded
<1>2. PICK n \in T : \A m \in T : <<m, n>> \notin OpToRel(<, Nat)
  BY <1>1, WFMin
<1>3. ASSUME NEW m \in T, m < n
      PROVE  FALSE
  <2>1. <<m, n>> \in Nat \X Nat OBVIOUS
  <2>2. <<m, n>>[1] < <<m, n>>[2] BY <1>3
  <2> QED BY <1>2, <2>1, <2>2 DEF OpToRel
<1>4. \A m \in T : n <= m BY <1>3
<1> QED BY <1>4

LEMMA AmongAt ==
  ASSUME NEW f, NEW g, NEW s, NEW n \in Nat, Among(f, g, s, n)
  PROVE  /\ f[0] = <<>>
         /\ \A i \in 1..n : f[i] = IF s[i].gen = g THEN Append(f[i - 1], s[i]) ELSE f[i - 1]
<1>1. \A i \in 0..n : f[i] = IF i = 0 THEN <<>>
                             ELSE IF s[i].gen = g THEN Append(f[i - 1], s[i]) ELSE f[i - 1]
  BY DEF Among
<1> QED BY <1>1

LEMMA AmongExists ==
  ASSUME NEW g, NEW s, NEW n \in Nat
  PROVE  \E f : Among(f, g, s, n)
<1> DEFINE T == {m \in Nat : ~\E f : Among(f, g, s, m)}
<1> SUFFICES ASSUME T # {} PROVE FALSE
  OBVIOUS
<1>1. PICK m \in T : \A k \in T : m <= k
  <2>1. T \in SUBSET Nat OBVIOUS
  <2> HIDE DEF T
  <2> QED BY <2>1, LeastNumber
<1>2. CASE m = 0
  <2> DEFINE f == [i \in 0..0 |-> <<>>]
  <2>1. Among(f, g, s, 0) BY DEF Among
  <2> QED BY <1>1, <1>2, <2>1
<1>3. CASE m # 0
  <2>1. m - 1 \in Nat /\ m - 1 \notin T BY <1>1, <1>3
  <2>2. PICK e : Among(e, g, s, m - 1) BY <2>1
  <2> DEFINE f == [i \in 0..m |-> IF i # m THEN e[i]
                                  ELSE IF s[m].gen = g THEN Append(e[m - 1], s[m]) ELSE e[m - 1]]
  <2>3. m \in Nat /\ m # 0 BY <1>3
  <2>4. e[0] = <<>> /\ \A i \in 1..(m - 1) : e[i] = IF s[i].gen = g THEN Append(e[i - 1], s[i]) ELSE e[i - 1]
    BY <2>1, <2>2, AmongAt
  <2>5. ASSUME NEW i \in 0..m
        PROVE  f[i] = IF i = 0 THEN <<>>
                      ELSE IF s[i].gen = g THEN Append(f[i - 1], s[i]) ELSE f[i - 1]
    <3>1. CASE i = 0 BY <2>3, <2>4, <3>1
    <3>2. CASE i # 0 /\ i # m
      <4>1. i \in 1..(m - 1) /\ i - 1 \in 0..m /\ i - 1 # m BY <2>3, <3>2
      <4> QED BY <2>4, <3>2, <4>1
    <3>3. CASE i = m
      <4>1. i - 1 \in 0..m /\ i - 1 # m BY <2>3, <3>3
      <4> QED BY <2>3, <3>3, <4>1
    <3> QED BY <3>1, <3>2, <3>3
  <2>6. Among(f, g, s, m)
    <3> HIDE DEF f
    <3>1. f = [i \in 0..m |-> f[i]] BY DEF f
    <3> QED BY <2>5, <3>1 DEF Among
  <2> QED BY <2>6
<1> QED BY <1>2, <1>3

(* Generation, of the lines alone.                                           *)
Select(g, s) == (CHOOSE f : Among(f, g, s, Len(s)))[Len(s)]

LEMMA GenerationIs ==
  ASSUME NEW g, NEW log
  PROVE  Generation(g, log) = Select(g, log.lines)
BY DEF Generation, Select, Among

LEMMA SelectIs ==
  ASSUME NEW g, NEW s, Len(s) \in Nat
  PROVE  \E f : Among(f, g, s, Len(s)) /\ Select(g, s) = f[Len(s)]
BY AmongExists DEF Select

LEMMA AmongAgree ==
  ASSUME NEW g, NEW s, NEW t, NEW n \in Nat, NEW m, m = n + 1,
         \A i \in 1..n : s[i] = t[i],
         NEW f, Among(f, g, s, n), NEW k, Among(k, g, t, m)
  PROVE  f[n] = k[n]
<1> DEFINE T == {i \in 0..n : f[i] # k[i]}
<1> SUFFICES ASSUME T # {} PROVE FALSE
  OBVIOUS
<1> m \in Nat /\ n <= m OBVIOUS
<1>1. PICK i \in T : \A j \in T : i <= j
  <2>1. T \in SUBSET Nat OBVIOUS
  <2> HIDE DEF T
  <2> QED BY <2>1, LeastNumber
<1>2. f[0] = <<>> /\ k[0] = <<>> BY AmongAt
<1>3. i \in 1..n /\ i \in 1..m BY <1>2
<1>4. i - 1 \in 0..n /\ i - 1 < i BY <1>3
<1>5. f[i - 1] = k[i - 1] BY <1>1, <1>4
<1>6. f[i] = IF s[i].gen = g THEN Append(f[i - 1], s[i]) ELSE f[i - 1] BY <1>3, AmongAt
<1>7. k[i] = IF t[i].gen = g THEN Append(k[i - 1], t[i]) ELSE k[i - 1] BY <1>3, AmongAt
<1> QED BY <1>3, <1>5, <1>6, <1>7

(* The records selected are lines of the generation, there is one as soon as *)
(* a line is of it, and all are when every line is.                          *)
Selected(r, g, S, s, i) ==
    /\ r \in Seq(S)
    /\ \A j \in 1..Len(r) : r[j].gen = g /\ \E k \in 1..i : r[j] = s[k]
    /\ (\E k \in 1..i : s[k].gen = g) => r # <<>>
    /\ (\A k \in 1..i : s[k].gen = g) => Len(r) = i /\ \A k \in 1..i : r[k] = s[k]

LEMMA AmongLines ==
  ASSUME NEW g, NEW S, NEW s \in Seq(S), NEW f, Among(f, g, s, Len(s))
  PROVE  \A i \in 0..Len(s) : Selected(f[i], g, S, s, i)
<1> DEFINE P(q) == Selected(f[q], g, S, s, q)
           T == {q \in 0..Len(s) : ~P(q)}
<1> SUFFICES ASSUME T # {} PROVE FALSE
  OBVIOUS
<1>1. PICK q \in T : \A j \in T : q <= j
  <2>1. T \in SUBSET Nat OBVIOUS
  <2> HIDE DEF T
  <2> QED BY <2>1, LeastNumber
<1>2. P(0)
  <2>1. f[0] = <<>> BY AmongAt
  <2> QED BY <2>1 DEF Selected
<1>3. q \in 1..Len(s) /\ q - 1 \in 0..Len(s) /\ q - 1 < q
  <2>1. q # 0 BY <1>2
  <2> QED BY <2>1
<1>4. P(q - 1) BY <1>1, <1>3
<1> USE DEF Selected
<1>5. f[q] = IF s[q].gen = g THEN Append(f[q - 1], s[q]) ELSE f[q - 1] BY <1>3, AmongAt
<1>6. s[q] \in S BY <1>3
<1>7. 1..q = 1..(q - 1) \cup {q} BY <1>3
<1>8. CASE s[q].gen # g
  <2>1. f[q] = f[q - 1] BY <1>5, <1>8
  <2>2. f[q] \in Seq(S) BY <1>4, <2>1
  <2>3. \A j \in 1..Len(f[q]) : f[q][j].gen = g /\ \E k \in 1..q : f[q][j] = s[k]
    BY <1>4, <1>7, <2>1
  <2>4. (\E k \in 1..q : s[k].gen = g) => f[q] # <<>>
    BY <1>4, <1>7, <1>8, <2>1
  <2>5. ~\A k \in 1..q : s[k].gen = g BY <1>7, <1>8
  <2> QED BY <2>2, <2>3, <2>4, <2>5
<1>9. CASE s[q].gen = g
  <2> DEFINE e == f[q - 1]
  <2>0. e \in Seq(S) /\ f[q] = Append(e, s[q]) BY <1>4, <1>5, <1>9
  <2>1. /\ f[q] \in Seq(S) /\ Len(f[q]) = Len(e) + 1 /\ f[q][Len(e) + 1] = s[q]
        /\ \A j \in 1..Len(e) : f[q][j] = e[j]
    <3> HIDE DEF e
    <3> QED BY <1>6, <2>0
  <2>2. \A j \in 1..Len(e) : e[j].gen = g /\ \E k \in 1..(q - 1) : e[j] = s[k] BY <1>4
  <2>3. Len(e) \in Nat BY <2>0
  <2>4. ASSUME NEW j \in 1..Len(f[q])
        PROVE  f[q][j].gen = g /\ \E k \in 1..q : f[q][j] = s[k]
    <3>1. j \in 1..Len(e) \/ j = Len(e) + 1 BY <2>1, <2>3
    <3> QED BY <1>7, <1>9, <2>1, <2>2, <3>1
  <2>5. f[q] # <<>> BY <2>1, <2>3
  <2>6. ASSUME \A k \in 1..q : s[k].gen = g
        PROVE  Len(f[q]) = q /\ \A k \in 1..q : f[q][k] = s[k]
    <3>1. Len(e) = q - 1 /\ \A k \in 1..(q - 1) : e[k] = s[k] BY <1>4, <1>7, <2>6
    <3> HIDE DEF e
    <3> QED BY <1>3, <1>7, <2>1, <3>1
  <2> QED BY <2>1, <2>4, <2>5, <2>6
<1> QED BY <1>8, <1>9

LEMMA SelectLines ==
  ASSUME NEW g, NEW S, NEW s \in Seq(S)
  PROVE  /\ Select(g, s) \in Seq(S)
         /\ \A j \in 1..Len(Select(g, s)) :
                /\ Select(g, s)[j].gen = g
                /\ \E k \in 1..Len(s) : Select(g, s)[j] = s[k]
         /\ (\E k \in 1..Len(s) : s[k].gen = g) <=> Select(g, s) # <<>>
         /\ (\A k \in 1..Len(s) : s[k].gen = g) => Select(g, s) = s
<1>1. Len(s) \in Nat /\ Len(s) \in 0..Len(s) OBVIOUS
<1>2. PICK f : Among(f, g, s, Len(s)) /\ Select(g, s) = f[Len(s)] BY <1>1, SelectIs
<1>3. PICK r : r = f[Len(s)] OBVIOUS
<1>4. /\ r \in Seq(S)
      /\ \A j \in 1..Len(r) : r[j].gen = g /\ \E k \in 1..Len(s) : r[j] = s[k]
      /\ (\E k \in 1..Len(s) : s[k].gen = g) => r # <<>>
      /\ (\A k \in 1..Len(s) : s[k].gen = g) =>
             Len(r) = Len(s) /\ \A k \in 1..Len(s) : r[k] = s[k]
  <2>1. Selected(f[Len(s)], g, S, s, Len(s)) BY <1>1, <1>2, AmongLines, Zenon
  <2> QED BY <1>3, <2>1 DEF Selected
<1>5. r # <<>> => \E k \in 1..Len(s) : s[k].gen = g
  <2> SUFFICES ASSUME r # <<>> PROVE \E k \in 1..Len(s) : s[k].gen = g
    OBVIOUS
  <2>1. 1 \in 1..Len(r) BY <1>4
  <2> QED BY <1>4, <2>1
<1>6. (\A k \in 1..Len(s) : s[k].gen = g) => r = s
  BY <1>4
<1> QED BY <1>2, <1>3, <1>4, <1>5, <1>6

(* A line more is a record more of its own generation.                       *)
LEMMA SelectAppend ==
  ASSUME NEW g, NEW S, NEW s \in Seq(S), NEW x \in S
  PROVE  Select(g, Append(s, x)) = IF x.gen = g THEN Append(Select(g, s), x) ELSE Select(g, s)
<1>1. PICK t : t = Append(s, x) OBVIOUS
<1>2. PICK n : n = Len(s) OBVIOUS
<1>3. /\ n \in Nat /\ Len(t) = n + 1 /\ t[n + 1] = x
      /\ \A i \in 1..n : s[i] = t[i]
  BY <1>1, <1>2
<1>4. PICK f : Among(f, g, s, n) /\ Select(g, s) = f[n] BY <1>2, <1>3, SelectIs
<1>5. PICK k : Among(k, g, t, n + 1) /\ Select(g, t) = k[n + 1]
  <2>1. Len(t) \in Nat BY <1>3
  <2>2. \E k : Among(k, g, t, Len(t)) /\ Select(g, t) = k[Len(t)] BY <2>1, SelectIs
  <2> QED BY <1>3, <2>2
<1>6. f[n] = k[n]
  <2>1. n \in Nat /\ \A i \in 1..n : s[i] = t[i] BY <1>3
  <2>2. PICK m : m = n + 1 OBVIOUS
  <2>3. Among(f, g, s, n) /\ Among(k, g, t, m) BY <1>4, <1>5, <2>2
  <2> QED BY <2>1, <2>2, <2>3, AmongAgree
<1>7. k[n + 1] = IF t[n + 1].gen = g THEN Append(k[n], t[n + 1]) ELSE k[n]
  <2>1. n + 1 \in Nat /\ n + 1 \in 1..(n + 1) /\ (n + 1) - 1 = n BY <1>3
  <2> QED BY <1>5, <2>1, AmongAt
<1> QED BY <1>1, <1>3, <1>4, <1>5, <1>6, <1>7

LEMMA GenerationLines ==
  ASSUME NEW g, NEW S, NEW log, log.lines \in Seq(S)
  PROVE  /\ Generation(g, log) \in Seq(S)
         /\ \A j \in 1..Len(Generation(g, log)) :
                /\ Generation(g, log)[j].gen = g
                /\ \E k \in DOMAIN log.lines : Generation(g, log)[j] = log.lines[k]
         /\ (\E k \in DOMAIN log.lines : log.lines[k].gen = g) <=> Generation(g, log) # <<>>
         /\ (\A k \in DOMAIN log.lines : log.lines[k].gen = g) => Generation(g, log) = log.lines
<1>1. PICK s : s = log.lines OBVIOUS
<1>2. s \in Seq(S) /\ DOMAIN s = 1..Len(s) BY <1>1
<1>3. PICK r : r = Select(g, s) OBVIOUS
<1>4. /\ r \in Seq(S)
      /\ \A j \in 1..Len(r) : r[j].gen = g /\ \E k \in 1..Len(s) : r[j] = s[k]
      /\ (\E k \in 1..Len(s) : s[k].gen = g) <=> r # <<>>
      /\ (\A k \in 1..Len(s) : s[k].gen = g) => r = s
  BY <1>2, <1>3, SelectLines
<1>5. Generation(g, log) = r BY <1>1, <1>3, GenerationIs
<1> QED BY <1>1, <1>2, <1>4, <1>5

OneMore(g, log, x, more) ==
    Generation(g, more) = IF x.gen = g THEN Append(Generation(g, log), x) ELSE Generation(g, log)

LEMMA GenerationAppend ==
  ASSUME NEW g, NEW S, NEW log, log.lines \in Seq(S), NEW x \in S,
         NEW more, more.lines = Append(log.lines, x)
  PROVE  OneMore(g, log, x, more)
<1>1. PICK s \in Seq(S) : s = log.lines OBVIOUS
<1>2. Select(g, Append(s, x)) = IF x.gen = g THEN Append(Select(g, s), x) ELSE Select(g, s)
  BY SelectAppend
<1>3. Generation(g, more) = Select(g, Append(s, x)) /\ Generation(g, log) = Select(g, s)
  BY <1>1, GenerationIs
<1> QED BY <1>2, <1>3 DEF OneMore

LEMMA GenerationSame ==
  ASSUME NEW g, NEW log, NEW other, log.lines = other.lines
  PROVE  Generation(g, log) = Generation(g, other)
BY GenerationIs

-----------------------------------------------------------------------------
(* What is known of the memory and the files.                                *)
Turn       == [id : Nat, done : BOOLEAN]
Snapshot   == [turns : Seq(Turn), mode : Mode, next : Nat \ {0}]
UpdateLine == [gen : Nat \ {0}, turn : Turn]
ChatLine   == [gen : Nat \ {0}, count : Nat, mode : Mode, next : Nat \ {0}]
Log(Line)  == [lines : Seq(Line \cup {Garbled}), tail : {"none", "bare", "fragment", "swallowed"}]
Places     == {"none", "read", "turns", "chat", "settings", "summary", "shrink updates",
               "shrink chat"}

(* What save writes of each generation.                                      *)
TurnCount(h)   == Len(snapshots[h].turns)
UpdateOf(h, i) == [gen |-> h, turn |-> snapshots[h].turns[i]]
ChatOf(h)      == [gen |-> h, count |-> TurnCount(h), mode |-> snapshots[h].mode,
                   next |-> snapshots[h].next]
SettingsOf(h)  == [gen |-> h, mode |-> snapshots[h].mode, next |-> snapshots[h].next]
Shrunk         == [lines |-> [i \in DOMAIN Saved.turns |-> UpdateRecord(i)], tail |-> "none"]

Stored(h) == Generation(h, updates)
InChat(h) == \E i \in DOMAIN chat.lines : chat.lines[i].gen = h

MemoryOK ==
    /\ snapshots \in Seq(Snapshot)
    /\ turns \in Seq(Turn) /\ mode \in Mode /\ nextTurn \in Nat \ {0}
    /\ phase \in {"idle", "begun", "starting", "running", "down"}
    /\ step \in Places /\ written \in Nat
    /\ committed \in Nat /\ emptied \in Nat /\ announced \in Nat
    /\ limits \in [faults : Nat, crashes : Nat, damages : Nat]

(* An unterminated last line is a whole one.                                 *)
BareIsLine(log) == log.tail = "bare" => log.lines # <<>> /\ log.lines[Len(log.lines)] # Garbled

(* While it can be read, a log has of each generation the first so many      *)
(* turns, in their order.                                                    *)
UpdatesOK ==
    /\ updates \in Log(UpdateLine) /\ BareIsLine(updates)
    /\ \A i \in DOMAIN updates.lines : updates.lines[i].gen <= gen
    /\ Readable(updates) => \A h \in 1..gen :
           /\ Len(Stored(h)) <= TurnCount(h)
           /\ \A i \in 1..Len(Stored(h)) : Stored(h)[i] = UpdateOf(h, i)

ChatOK ==
    /\ chat \in Log(ChatLine) /\ BareIsLine(chat)
    /\ \A i \in DOMAIN chat.lines : chat.lines[i] # Garbled =>
           chat.lines[i].gen \in 1..gen /\ chat.lines[i] = ChatOf(chat.lines[i].gen)

-----------------------------------------------------------------------------
(* What an append does to a log, whole, in part or not at all: nothing, a    *)
(* line more, a line less that is marked as swallowed, or a garbled line.    *)
Grows(log, line, more) ==
    \/ more.lines = log.lines /\ (more.tail # "swallowed" => log.tail # "swallowed")
    \/ /\ log.tail = "none" /\ more.tail # "swallowed"
       /\ more.lines = Append(log.lines, line)
    \/ /\ log.tail = "bare" /\ more.tail = "swallowed"
       /\ log.lines = Append(more.lines, log.lines[Len(log.lines)])
    \/ ~Readable(more)

OnlyMore(log, line, more) ==
    \A i \in DOMAIN more.lines :
        \/ more.lines[i] \in {line, Garbled}
        \/ \E k \in DOMAIN log.lines : more.lines[i] = log.lines[k]

LEMMA TerminatedIs ==
  ASSUME NEW Line, NEW log \in Log(Line), BareIsLine(log)
  PROVE  /\ Terminated(log) \in Seq(Line \cup {Garbled})
         /\ log.tail # "bare" => Terminated(log) = log.lines
         /\ log.tail = "bare" => log.lines = Append(Terminated(log), log.lines[Len(log.lines)])
         /\ \A i \in DOMAIN Terminated(log) :
                i \in DOMAIN log.lines /\ Terminated(log)[i] = log.lines[i]
<1>1. PICK s \in Seq(Line \cup {Garbled}) : s = log.lines BY DEF Log
<1>2. CASE log.tail # "bare"
  BY <1>1, <1>2 DEF Terminated
<1>3. CASE log.tail = "bare"
  <2>1. Len(s) \in Nat \ {0} BY <1>1, <1>3 DEF BareIsLine
  <2>2. PICK t : t = SubSeq(s, 1, Len(s) - 1) OBVIOUS
  <2>3. t \in Seq(Line \cup {Garbled}) /\ Len(t) = Len(s) - 1
        /\ \A i \in 1..Len(t) : t[i] = s[i]
    <3>1. \A i \in 1..(Len(s) - 1) : s[i] \in Line \cup {Garbled} BY <2>1
    <3>2. 1 \in Int /\ Len(s) - 1 \in Int BY <2>1
    <3>3. /\ t \in Seq(Line \cup {Garbled})
          /\ Len(t) = IF 1 <= Len(s) - 1 THEN (Len(s) - 1) - 1 + 1 ELSE 0
          /\ \A i \in 1..((Len(s) - 1) - 1 + 1) : t[i] = s[1 + i - 1]
      BY <2>2, <3>1, <3>2, SubSeqProperties
    <3>4. Len(t) = Len(s) - 1
      <4>1. PICK n \in Nat \ {0} : n = Len(s) BY <2>1
      <4>2. Len(t) = IF 1 <= n - 1 THEN n - 1 ELSE 0 BY <3>3, <4>1
      <4>3. CASE 1 <= n - 1 BY <4>1, <4>2, <4>3
      <4>4. CASE ~(1 <= n - 1) BY <4>1, <4>2, <4>4
      <4> QED BY <4>3, <4>4
    <3> QED BY <2>1, <3>3, <3>4
  <2>4. s = Append(t, s[Len(s)]) BY <2>1, <2>3
  <2>5. Terminated(log) = t BY <1>1, <1>3, <2>2 DEF Terminated
  <2> QED BY <1>1, <1>3, <2>1, <2>3, <2>4, <2>5
<1> QED BY <1>2, <1>3

LEMMA ReadableAppend ==
  ASSUME NEW S, NEW log, log.lines \in Seq(S), NEW x \in S,
         NEW more, more.lines = Append(log.lines, x)
  PROVE  Readable(more) <=> Readable(log) /\ x # Garbled
<1>1. PICK s \in Seq(S) : s = log.lines OBVIOUS
<1>2. PICK t : t = Append(s, x) OBVIOUS
<1>3. /\ DOMAIN t = 1..(Len(s) + 1) /\ DOMAIN s = 1..Len(s) /\ Len(s) \in Nat
      /\ t[Len(s) + 1] = x /\ \A i \in 1..Len(s) : t[i] = s[i]
  BY <1>2
<1>4. 1..(Len(s) + 1) = 1..Len(s) \cup {Len(s) + 1} BY <1>3
<1> QED BY <1>1, <1>2, <1>3, <1>4 DEF Readable

LEMMA AppendedGrows ==
  ASSUME NEW Line, NEW log \in Log(Line), BareIsLine(log), NEW line \in Line,
         NEW more, more = Appended(log, line)
  PROVE  /\ more \in Log(Line) /\ BareIsLine(more)
         /\ Grows(log, line, more) /\ OnlyMore(log, line, more)
         /\ more.tail = "none"
         /\ Readable(more) => log.tail = "none" /\ more.lines = Append(log.lines, line)
<1>1. PICK t \in Seq(Line \cup {Garbled}) : t = Terminated(log)
  BY TerminatedIs
<1>2. PICK x \in Line \cup {Garbled} : x = IF log.tail = "none" THEN line ELSE Garbled
  OBVIOUS
<1>3. more = [lines |-> Append(t, x), tail |-> "none"] BY <1>1, <1>2 DEF Appended
<1>4. more \in Log(Line) /\ BareIsLine(more) BY <1>3 DEF Log, BareIsLine
<1>5. /\ Append(t, x) \in Seq(Line \cup {Garbled}) /\ Len(Append(t, x)) = Len(t) + 1
      /\ Append(t, x)[Len(t) + 1] = x
      /\ \A i \in 1..Len(t) : Append(t, x)[i] = t[i]
      /\ DOMAIN Append(t, x) = 1..(Len(t) + 1) /\ Len(t) \in Nat /\ DOMAIN t = 1..Len(t)
  OBVIOUS
<1>6. CASE log.tail = "none"
  <2>1. t = log.lines /\ x = line BY <1>1, <1>2, <1>6, TerminatedIs
  <2>2. OnlyMore(log, line, more) BY <1>3, <1>5, <2>1 DEF OnlyMore
  <2> QED BY <1>3, <1>4, <1>6, <2>1, <2>2 DEF Grows
<1>7. CASE log.tail # "none"
  <2>1. x = Garbled BY <1>2, <1>7
  <2>2. ~Readable(more) BY <1>3, <1>5, <2>1 DEF Readable
  <2>3. \A i \in 1..Len(t) : i \in DOMAIN log.lines /\ t[i] = log.lines[i]
    BY <1>1, <1>5, TerminatedIs
  <2>4. OnlyMore(log, line, more) BY <1>3, <1>5, <2>1, <2>3 DEF OnlyMore
  <2> QED BY <1>3, <1>4, <2>2, <2>4 DEF Grows
<1> QED BY <1>6, <1>7

LEMMA PartlyAppendedGrows ==
  ASSUME NEW Line, NEW log \in Log(Line), BareIsLine(log), NEW line \in Line, line # Garbled,
         NEW more \in PartlyAppended(log, line)
  PROVE  /\ more \in Log(Line) /\ BareIsLine(more)
         /\ Grows(log, line, more) /\ OnlyMore(log, line, more)
<1>1. CASE more = log
  BY <1>1 DEF Grows, OnlyMore
<1>2. CASE log.tail = "none" /\ more = [lines |-> Append(log.lines, line), tail |-> "bare"]
  <2>1. PICK s \in Seq(Line \cup {Garbled}) : s = log.lines BY DEF Log
  <2>2. /\ Append(s, line) \in Seq(Line \cup {Garbled}) /\ Len(Append(s, line)) = Len(s) + 1
        /\ Append(s, line)[Len(s) + 1] = line /\ Append(s, line) # <<>>
        /\ \A i \in 1..Len(s) : Append(s, line)[i] = s[i]
        /\ DOMAIN Append(s, line) = 1..(Len(s) + 1) /\ Len(s) \in Nat /\ DOMAIN s = 1..Len(s)
    OBVIOUS
  <2>3. more \in Log(Line) /\ BareIsLine(more) BY <1>2, <2>1, <2>2 DEF Log, BareIsLine
  <2>4. OnlyMore(log, line, more) BY <1>2, <2>1, <2>2 DEF OnlyMore
  <2> QED BY <1>2, <2>3, <2>4 DEF Grows
<1>3. CASE more = [lines |-> Terminated(log),
                   tail  |-> IF log.tail \in {"none", "fragment"} THEN "fragment" ELSE "swallowed"]
  <2>1. PICK t \in Seq(Line \cup {Garbled}) : t = Terminated(log) BY TerminatedIs
  <2>2. more \in Log(Line) /\ BareIsLine(more) BY <1>3, <2>1 DEF Log, BareIsLine
  <2>3. OnlyMore(log, line, more) BY <1>3, TerminatedIs DEF OnlyMore
  <2>4. CASE log.tail = "bare"
    BY <1>3, <2>2, <2>3, <2>4, TerminatedIs DEF Grows
  <2>5. CASE log.tail # "bare"
    <3>1. more.lines = log.lines BY <1>3, <2>5, TerminatedIs
    <3>2. log.tail = "swallowed" => more.tail = "swallowed" BY <1>3
    <3> QED BY <2>2, <2>3, <3>1, <3>2 DEF Grows
  <2> QED BY <2>4, <2>5
<1> QED BY <1>1, <1>2, <1>3 DEF PartlyAppended

-----------------------------------------------------------------------------
(* The logs under each kind of step.                                         *)
LEMMA GenIsNat == MemoryOK => gen \in Nat /\ DOMAIN snapshots = 1..gen
BY DEF MemoryOK, gen

LEMMA SavedOK ==
  ASSUME MemoryOK, gen # 0
  PROVE  /\ gen \in 1..gen /\ Saved \in Snapshot /\ Saved = snapshots[gen]
         /\ DOMAIN Saved.turns = 1..TurnCount(gen) /\ TurnCount(gen) \in Nat
         /\ \A i \in 1..TurnCount(gen) : UpdateRecord(i) = UpdateOf(gen, i)
                                         /\ UpdateOf(gen, i) \in UpdateLine
         /\ ChatRecord = ChatOf(gen) /\ ChatOf(gen) \in ChatLine
<1>1. gen \in 1..gen /\ Saved \in Snapshot /\ Saved = snapshots[gen]
  BY GenIsNat DEF MemoryOK, Saved
<1>2. Saved.turns \in Seq(Turn) /\ Saved.mode \in Mode /\ Saved.next \in Nat \ {0}
  BY <1>1 DEF Snapshot
<1>3. DOMAIN Saved.turns = 1..TurnCount(gen) /\ TurnCount(gen) \in Nat
      /\ \A i \in 1..TurnCount(gen) : Saved.turns[i] \in Turn
  BY <1>1, <1>2 DEF TurnCount
<1>4. gen \in Nat \ {0} BY <1>1
<1> QED BY <1>1, <1>2, <1>3, <1>4 DEF UpdateRecord, UpdateOf, UpdateLine, ChatRecord, ChatOf,
        ChatLine, TurnCount

LEMMA CountsOK ==
  ASSUME MemoryOK, NEW h \in 1..gen
  PROVE  /\ TurnCount(h) \in Nat /\ snapshots[h] \in Snapshot
         /\ DOMAIN snapshots[h].turns = 1..TurnCount(h)
         /\ \A i \in 1..TurnCount(h) : snapshots[h].turns[i] \in Turn
<1>1. snapshots[h] \in Snapshot BY GenIsNat DEF MemoryOK
<1>2. snapshots[h].turns \in Seq(Turn) BY <1>1 DEF Snapshot
<1> QED BY <1>1, <1>2 DEF TurnCount

(* Records of another log with the same lines.                               *)
LEMMA SnapshotAdded ==
  ASSUME MemoryOK, NEW s \in Snapshot, snapshots' = Append(snapshots, s)
  PROVE  /\ gen' = gen + 1 /\ snapshots' \in Seq(Snapshot)
         /\ \A h \in 1..gen : snapshots'[h] = snapshots[h]
         /\ snapshots'[gen + 1] = s
BY DEF MemoryOK, gen

LEMMA UpdatesSaved ==
  ASSUME MemoryOK, UpdatesOK, NEW s \in Snapshot, snapshots' = Append(snapshots, s),
         UNCHANGED updates
  PROVE  UpdatesOK' /\ \A i \in DOMAIN updates.lines : updates.lines[i].gen # gen'
<1>1. gen \in Nat /\ gen' = gen + 1 /\ \A h \in 1..gen : snapshots'[h] = snapshots[h]
  BY GenIsNat, SnapshotAdded
<1>2. updates.lines \in Seq(UpdateLine \cup {Garbled}) BY DEF UpdatesOK, Log
<1>3. \A i \in DOMAIN updates.lines : updates.lines[i].gen \in Nat
  <2> SUFFICES ASSUME NEW i \in DOMAIN updates.lines PROVE updates.lines[i].gen \in Nat
    OBVIOUS
  <2>1. updates.lines[i] \in UpdateLine \cup {Garbled} BY <1>2
  <2> QED BY <2>1 DEF UpdateLine, Garbled
<1>4. \A i \in DOMAIN updates.lines : updates.lines[i].gen <= gen BY DEF UpdatesOK
<1>5. \A i \in DOMAIN updates.lines : updates.lines[i].gen # gen + 1 /\ updates.lines[i].gen <= gen + 1
  BY <1>1, <1>3, <1>4
<1>6. Stored(gen + 1) = <<>>
  BY <1>2, <1>5, GenerationLines DEF Stored
<1>7. ASSUME Readable(updates), NEW h \in 1..(gen + 1)
      PROVE  Len(Stored(h)) <= Len(snapshots'[h].turns)
             /\ \A i \in 1..Len(Stored(h)) : Stored(h)[i] = [gen |-> h, turn |-> snapshots'[h].turns[i]]
  <2>1. CASE h \in 1..gen
    BY <1>1, <1>7, <2>1 DEF UpdatesOK, TurnCount, UpdateOf
  <2>2. CASE h = gen + 1
    <3>1. snapshots'[h] = s /\ s.turns \in Seq(Turn) BY <2>2, SnapshotAdded DEF Snapshot
    <3> QED BY <1>6, <2>2, <3>1
  <2>3. h \in 1..gen \/ h = gen + 1 BY <1>1
  <2> QED BY <2>1, <2>2, <2>3
<1> QED BY <1>1, <1>5, <1>7 DEF UpdatesOK, TurnCount, UpdateOf, Stored

LEMMA ChatSaved ==
  ASSUME MemoryOK, ChatOK, NEW s \in Snapshot, snapshots' = Append(snapshots, s),
         UNCHANGED chat
  PROVE  ChatOK' /\ ~InChat(gen')
<1>1. gen \in Nat /\ gen' = gen + 1 /\ \A h \in 1..gen : snapshots'[h] = snapshots[h]
  BY GenIsNat, SnapshotAdded
<1>2. \A i \in DOMAIN chat.lines : chat.lines[i] = Garbled \/ chat.lines[i].gen \in 1..gen
  BY DEF ChatOK
<1>3. \A i \in DOMAIN chat.lines : chat.lines[i].gen # gen + 1
  BY <1>1, <1>2 DEF Garbled
<1>4. ~InChat(gen') BY <1>1, <1>3 DEF InChat
<1>5. ASSUME NEW h \in 1..gen
      PROVE  ChatOf(h)' = ChatOf(h) /\ h \in 1..gen'
  <2>1. snapshots'[h] = snapshots[h] BY <1>1
  <2>2. ChatOf(h)' = ChatOf(h) BY <2>1 DEF ChatOf, TurnCount
  <2> QED BY <1>1, <2>2
<1>6. \A i \in DOMAIN chat.lines : chat.lines[i] # Garbled =>
          chat.lines[i].gen \in 1..gen' /\ chat.lines[i] = ChatOf(chat.lines[i].gen)'
  BY <1>5 DEF ChatOK
<1> QED BY <1>4, <1>6 DEF ChatOK

(* A turn more, or part of it, after the first n turns of the generation.    *)
LEMMA UpdatesGrow ==
  ASSUME MemoryOK, UpdatesOK, gen # 0, NEW n \in Nat, n < TurnCount(gen),
         Readable(updates) => Len(Stored(gen)) = n,
         updates' \in Log(UpdateLine), BareIsLine(updates'),
         Grows(updates, UpdateOf(gen, n + 1), updates'),
         OnlyMore(updates, UpdateOf(gen, n + 1), updates'),
         UNCHANGED snapshots
  PROVE  UpdatesOK'
<1>0. gen' = gen /\ gen \in Nat /\ gen \in 1..gen BY GenIsNat DEF gen
<1> DEFINE line == UpdateOf(gen, n + 1)
<1>1. line \in UpdateLine /\ line # Garbled /\ line.gen = gen
  <2>1. n + 1 \in 1..TurnCount(gen) BY SavedOK
  <2> QED BY <1>0, <2>1, SavedOK DEF UpdateLine, Garbled, UpdateOf
<1>2. \A i \in DOMAIN updates'.lines : updates'.lines[i].gen <= gen
  BY <1>0, <1>1 DEF OnlyMore, UpdatesOK, Garbled
<1>3. /\ updates.lines \in Seq(UpdateLine \cup {Garbled})
      /\ updates'.lines \in Seq(UpdateLine \cup {Garbled})
  BY DEF UpdatesOK, Log
<1> HIDE DEF line
<1>4. ASSUME Readable(updates'), NEW h \in 1..gen
      PROVE  /\ Len(Generation(h, updates')) <= TurnCount(h)
             /\ \A i \in 1..Len(Generation(h, updates')) :
                    Generation(h, updates')[i] = UpdateOf(h, i)
  <2>0. TurnCount(h) \in Nat /\ TurnCount(gen) \in Nat BY <1>0, CountsOK
  <2>1. CASE updates'.lines = updates.lines
    <3>1. Readable(updates) BY <1>4, <2>1 DEF Readable
    <3>2. Generation(h, updates') = Stored(h) BY <2>1, GenerationSame DEF Stored
    <3> QED BY <3>1, <3>2 DEF UpdatesOK
  <2>2. CASE updates'.lines = Append(updates.lines, line)
    <3>0. PICK S, old, more, x : /\ S = UpdateLine \cup {Garbled}
                                 /\ old = updates /\ more = updates' /\ x = line
      OBVIOUS
    <3>a. old.lines \in Seq(S) /\ x \in S /\ more.lines = Append(old.lines, x)
      BY <1>1, <1>3, <2>2, <3>0
    <3>1. Readable(updates)
      <4>1. Readable(more) <=> Readable(old) /\ x # Garbled BY <3>a, ReadableAppend
      <4> QED BY <1>4, <3>0, <4>1 DEF Readable
    <3>2. PICK r \in Seq(UpdateLine \cup {Garbled}) : r = Stored(h)
      BY <1>3, GenerationLines DEF Stored
    <3>3. Len(r) <= TurnCount(h) /\ \A i \in 1..Len(r) : r[i] = UpdateOf(h, i)
      BY <3>1, <3>2 DEF UpdatesOK
    <3>4. Generation(h, updates') = IF line.gen = h THEN Append(r, line) ELSE r
      <4>1. OneMore(h, old, x, more) BY <3>a, GenerationAppend
      <4> QED BY <3>0, <3>2, <4>1 DEF Stored, OneMore
    <3>5. CASE h = gen
      <4>1. Len(r) = n BY <3>1, <3>2, <3>5
      <4>2. PICK q : q = Append(r, line) OBVIOUS
      <4>3. /\ Len(q) = n + 1 /\ q[n + 1] = line /\ \A i \in 1..n : q[i] = r[i]
        BY <4>1, <4>2
      <4>4. Generation(h, updates') = q BY <1>1, <3>4, <3>5, <4>2
      <4>5. \A i \in 1..(n + 1) : q[i] = UpdateOf(h, i)
        BY <3>3, <3>5, <4>1, <4>3 DEF line
      <4> QED BY <2>0, <3>5, <4>3, <4>4, <4>5
    <3>6. CASE h # gen
      BY <1>1, <3>2, <3>3, <3>4, <3>6
    <3> QED BY <3>5, <3>6
  <2>3. CASE /\ updates.tail = "bare" /\ updates'.tail = "swallowed"
             /\ updates.lines = Append(updates'.lines, updates.lines[Len(updates.lines)])
    <3>1. PICK x : x = updates.lines[Len(updates.lines)] OBVIOUS
    <3>2. x \in UpdateLine \cup {Garbled} /\ x # Garbled
      BY <1>3, <2>3, <3>1 DEF UpdatesOK, BareIsLine
    <3>0. PICK S, old, more : /\ S = UpdateLine \cup {Garbled}
                              /\ old = updates' /\ more = updates
      OBVIOUS
    <3>a. old.lines \in Seq(S) /\ x \in S /\ more.lines = Append(old.lines, x)
      BY <1>3, <2>3, <3>0, <3>1, <3>2
    <3>3. Readable(updates)
      <4>1. Readable(more) <=> Readable(old) /\ x # Garbled BY <3>a, ReadableAppend
      <4> QED BY <1>4, <3>0, <3>2, <4>1 DEF Readable
    <3>4. PICK r \in Seq(UpdateLine \cup {Garbled}) : r = Generation(h, updates')
      BY <1>3, GenerationLines
    <3>5. PICK q : q = Stored(h) OBVIOUS
    <3>6. Len(q) <= TurnCount(h) /\ \A i \in 1..Len(q) : q[i] = UpdateOf(h, i)
      BY <3>3, <3>5 DEF UpdatesOK
    <3>7. q = IF x.gen = h THEN Append(r, x) ELSE r
      <4>1. OneMore(h, old, x, more) BY <3>a, GenerationAppend
      <4> QED BY <3>0, <3>4, <3>5, <4>1 DEF Stored, OneMore
    <3>8. Len(r) <= Len(q) /\ Len(r) \in Nat /\ Len(q) \in Nat /\ \A i \in 1..Len(r) : r[i] = q[i]
      BY <3>2, <3>4, <3>7
    <3>9. Len(r) <= TurnCount(h) BY <2>0, <3>6, <3>8
    <3>10. \A i \in 1..Len(r) : r[i] = UpdateOf(h, i) BY <3>6, <3>8
    <3> QED BY <3>4, <3>9, <3>10
  <2> QED BY <1>4, <2>1, <2>2, <2>3 DEF Grows, line
<1>5. \A h \in 1..gen : TurnCount(h)' = TurnCount(h) /\ \A i : UpdateOf(h, i)' = UpdateOf(h, i)
  BY DEF TurnCount, UpdateOf
<1>6. Readable(updates)' => \A h \in 1..gen :
           /\ Len(Stored(h)') <= TurnCount(h)'
           /\ \A i \in 1..Len(Stored(h)') : Stored(h)'[i] = UpdateOf(h, i)'
  BY <1>4, <1>5 DEF Stored
<1> QED BY <1>0, <1>2, <1>6 DEF UpdatesOK

LEMMA SnapshotsSame ==
  ASSUME UNCHANGED snapshots
  PROVE  /\ gen' = gen /\ Saved' = Saved
         /\ \A h : /\ TurnCount(h)' = TurnCount(h) /\ ChatOf(h)' = ChatOf(h)
                   /\ SettingsOf(h)' = SettingsOf(h)
                   /\ \A i : UpdateOf(h, i)' = UpdateOf(h, i)
BY DEF gen, Saved, TurnCount, ChatOf, SettingsOf, UpdateOf

LEMMA UpdatesSame ==
  ASSUME UpdatesOK, UNCHANGED <<updates, snapshots>>
  PROVE  UpdatesOK' /\ \A h : Stored(h)' = Stored(h)
BY SnapshotsSame DEF UpdatesOK, Stored

LEMMA ChatSame ==
  ASSUME ChatOK, UNCHANGED <<chat, snapshots>>
  PROVE  ChatOK' /\ \A h : InChat(h)' <=> InChat(h)
BY SnapshotsSame DEF ChatOK, InChat

LEMMA ChatGrows ==
  ASSUME MemoryOK, ChatOK, gen # 0, chat' \in Log(ChatLine), BareIsLine(chat'),
         OnlyMore(chat, ChatOf(gen), chat'), UNCHANGED snapshots
  PROVE  ChatOK' /\ \A h \in 1..gen : InChat(h)' => InChat(h) \/ h = gen
<1>1. gen' = gen /\ gen \in 1..gen /\ ChatOf(gen).gen = gen
  BY GenIsNat, SnapshotsSame DEF ChatOf
<1>2. ASSUME NEW i \in DOMAIN chat'.lines, chat'.lines[i] # Garbled
      PROVE  chat'.lines[i].gen \in 1..gen /\ chat'.lines[i] = ChatOf(chat'.lines[i].gen)
  BY <1>1, <1>2 DEF OnlyMore, ChatOK
<1>3. ChatOK' BY <1>1, <1>2, SnapshotsSame DEF ChatOK
<1>4. ASSUME NEW h \in 1..gen, InChat(h)'
      PROVE  InChat(h) \/ h = gen
  <2>1. PICK i \in DOMAIN chat'.lines : chat'.lines[i].gen = h BY <1>4 DEF InChat
  <2>2. chat'.lines[i] # Garbled BY <2>1 DEF Garbled
  <2> QED BY <1>1, <2>1, <2>2 DEF OnlyMore, InChat
<1> QED BY <1>3, <1>4

LEMMA UpdatesShrink ==
  ASSUME MemoryOK, gen # 0, updates' = Shrunk, UNCHANGED snapshots
  PROVE  /\ UpdatesOK' /\ Readable(updates') /\ updates'.tail = "none"
         /\ Len(Stored(gen)') = TurnCount(gen)
         /\ \A i \in DOMAIN updates'.lines : updates'.lines[i].gen = gen
<1>1. PICK n \in Nat : n = TurnCount(gen) BY SavedOK
<1>2. PICK s : s = Shrunk.lines OBVIOUS
<1>3. s = [i \in 1..n |-> UpdateOf(gen, i)] BY <1>1, <1>2, SavedOK DEF Shrunk
<1>4. \A i \in 1..n : UpdateOf(gen, i) \in UpdateLine /\ UpdateOf(gen, i).gen = gen
  BY <1>1, SavedOK DEF UpdateOf
<1>5. s \in Seq(UpdateLine) /\ Len(s) = n /\ DOMAIN s = 1..n BY <1>3, <1>4
<1>6. updates'.lines = s /\ updates' = [lines |-> s, tail |-> "none"] BY <1>2 DEF Shrunk
<1>7. s \in Seq(UpdateLine \cup {Garbled}) BY <1>5
<1>8. gen' = gen /\ gen \in 1..gen BY SnapshotsSame, SavedOK
<1>9. \A i \in DOMAIN s : s[i].gen = gen /\ s[i] # Garbled
  BY <1>3, <1>4, <1>8 DEF Garbled
<1>10. Stored(gen)' = s
  <2>1. PICK g, more : g = gen /\ more = updates' OBVIOUS
  <2>2. Generation(g, more) = more.lines
    BY <1>6, <1>7, <1>9, <2>1, GenerationLines
  <2> QED BY <1>6, <1>8, <2>1, <2>2 DEF Stored
<1>11. ASSUME NEW h \in 1..gen, h # gen
       PROVE  Stored(h)' = <<>>
  <2>1. PICK more : more = updates' OBVIOUS
  <2>2. Generation(h, more) = <<>>
    <3>1. ~\E k \in DOMAIN more.lines : more.lines[k].gen = h BY <1>6, <1>9, <1>11, <2>1
    <3>2. more.lines \in Seq(UpdateLine \cup {Garbled}) BY <1>6, <1>7, <2>1
    <3> QED BY <3>1, <3>2, GenerationLines
  <2> QED BY <2>1, <2>2 DEF Stored
<1>12. ASSUME NEW h \in 1..gen
       PROVE  Len(Stored(h)') <= TurnCount(h)
              /\ \A i \in 1..Len(Stored(h)') : Stored(h)'[i] = UpdateOf(h, i)
  <2>1. TurnCount(h) \in Nat BY CountsOK
  <2>2. CASE h = gen
    <3>1. PICK q : q = Stored(h)' OBVIOUS
    <3>2. q = s /\ h \in Nat BY <1>8, <1>10, <2>2, <3>1
    <3>3. Len(q) = n /\ \A i \in 1..n : q[i] = UpdateOf(h, i) BY <1>3, <1>5, <2>2, <3>2
    <3> QED BY <1>1, <2>2, <3>1, <3>3
  <2>3. CASE h # gen
    <3>1. PICK q : q = Stored(h)' OBVIOUS
    <3>2. q = <<>> BY <1>11, <2>3, <3>1
    <3> QED BY <2>1, <3>1, <3>2
  <2> QED BY <2>2, <2>3
<1>13. UpdatesOK'
  <2>1. updates' \in Log(UpdateLine) /\ BareIsLine(updates') BY <1>6, <1>7 DEF Log, BareIsLine
  <2>2. \A i \in DOMAIN updates'.lines : updates'.lines[i].gen <= gen BY <1>6, <1>8, <1>9
  <2> QED BY <1>8, <1>12, <2>1, <2>2, SnapshotsSame DEF UpdatesOK
<1> QED BY <1>1, <1>5, <1>6, <1>9, <1>10, <1>13 DEF Readable

LEMMA ChatShrink ==
  ASSUME MemoryOK, gen # 0, chat' = [lines |-> <<ChatRecord>>, tail |-> "none"],
         UNCHANGED snapshots
  PROVE  /\ ChatOK' /\ InChat(gen)' /\ \A h \in 1..gen : InChat(h)' => h = gen
         /\ \A i \in DOMAIN chat'.lines : chat'.lines[i].gen = gen
<1>1. gen' = gen /\ gen \in 1..gen /\ ChatRecord = ChatOf(gen) /\ ChatOf(gen) \in ChatLine
      /\ ChatOf(gen).gen = gen
  BY SavedOK, SnapshotsSame DEF ChatOf
<1>2. PICK x \in ChatLine : x = ChatOf(gen) BY <1>1
<1>3. chat' = [lines |-> <<x>>, tail |-> "none"] /\ <<x>> \in Seq(ChatLine \cup {Garbled})
      /\ DOMAIN <<x>> = {1} /\ <<x>>[1] = x
  BY <1>1, <1>2
<1>4. chat' \in Log(ChatLine) /\ BareIsLine(chat') BY <1>3 DEF Log, BareIsLine
<1>5. ChatOK' BY <1>1, <1>2, <1>3, <1>4, SnapshotsSame DEF ChatOK
<1> QED BY <1>1, <1>2, <1>3, <1>5 DEF InChat

-----------------------------------------------------------------------------
(* Where a save is, and what the files must have then.  The generation being *)
(* saved is in no log when the save begins and in the updates, whole, before *)
(* the chat names it; that is what makes a recovered generation complete.    *)
StepOK ==
    /\ phase = "down" => step = "none"
    /\ step # "none" => gen # 0
    /\ step = "read" => \A i \in DOMAIN updates.lines : updates.lines[i].gen # gen
    /\ step \in {"read", "turns", "chat"} => ~InChat(gen)
    /\ step = "turns" => /\ written <= TurnCount(gen)
                         /\ Readable(updates) => Len(Stored(gen)) = written
    /\ step \in {"chat", "settings", "summary", "shrink updates"} /\ Readable(updates) =>
           Len(Stored(gen)) = TurnCount(gen)
    /\ step \in {"settings", "summary", "shrink updates"} /\ Readable(chat) => InChat(gen)
    /\ step = "shrink chat" => updates = Shrunk
    /\ Compacting => committed = gen /\ HasSummary
    /\ phase = "starting" => HasSummary

SummaryOK ==
    /\ committed <= gen
    /\ HasSummary => /\ committed # 0 /\ summary.pending \in Nat
                     /\ summary = [gen |-> committed, count |-> TurnCount(committed),
                                   pending |-> summary.pending]
    /\ committed # 0 => summary # NoFile
    /\ settings = NoFile \/ (settings.gen \in 1..gen /\ settings = SettingsOf(settings.gen))

(* No older generation can be taken for the committed one, and those after   *)
(* it that could be are whole.                                               *)
CommitOK ==
    Intact =>
        /\ committed # 0 => InChat(committed)
        /\ \A h \in 1..gen : h >= committed /\ InChat(h) => Len(Stored(h)) = TurnCount(h)

FilesInv == UpdatesOK /\ ChatOK /\ StepOK /\ SummaryOK /\ CommitOK

IntactIs == Readable(updates) /\ updates.tail # "swallowed" /\ Readable(chat) /\ chat.tail # "swallowed"

LEMMA IntactMeans == Intact <=> IntactIs
BY DEF Intact, IntactIs

(* What could be read after an append could be read before it.               *)
LEMMA GrowsIntact ==
  ASSUME NEW S, NEW log, log.lines \in Seq(S), NEW line \in S, NEW more,
         Grows(log, line, more), Readable(more), more.tail # "swallowed"
  PROVE  /\ Readable(log) /\ log.tail # "swallowed"
         /\ more.lines = log.lines \/ more.lines = Append(log.lines, line)
<1>1. CASE more.lines = log.lines /\ log.tail # "swallowed"
  BY <1>1 DEF Readable
<1>2. CASE log.tail = "none" /\ more.lines = Append(log.lines, line)
  BY <1>2, ReadableAppend
<1> QED BY <1>1, <1>2 DEF Grows

LEMMA UpdatesGrown ==
  ASSUME MemoryOK, UpdatesOK, gen # 0, NEW n \in Nat, n < TurnCount(gen),
         Grows(updates, UpdateOf(gen, n + 1), updates'),
         Readable(updates'), updates'.tail # "swallowed"
  PROVE  /\ Readable(updates) /\ updates.tail # "swallowed"
         /\ \A h \in 1..gen : h # gen => Generation(h, updates') = Stored(h)
<1>1. UpdateOf(gen, n + 1) \in UpdateLine /\ UpdateOf(gen, n + 1).gen = gen
  <2>1. n + 1 \in 1..TurnCount(gen) BY SavedOK
  <2> QED BY <2>1, SavedOK DEF UpdateOf
<1>2. PICK S, old, more, x : /\ S = UpdateLine \cup {Garbled}
                             /\ old = updates /\ more = updates' /\ x = UpdateOf(gen, n + 1)
  OBVIOUS
<1>3. old.lines \in Seq(S) /\ x \in S /\ x.gen = gen BY <1>1, <1>2 DEF UpdatesOK, Log
<1>4. /\ Readable(old) /\ old.tail # "swallowed"
      /\ more.lines = old.lines \/ more.lines = Append(old.lines, x)
  <2>1. Grows(old, x, more) /\ Readable(more) /\ more.tail # "swallowed" BY <1>2
  <2> QED BY <1>3, <2>1, GrowsIntact
<1>5. ASSUME NEW h \in 1..gen, h # gen
      PROVE  Generation(h, more) = Generation(h, old)
  <2>1. CASE more.lines = old.lines BY <2>1, GenerationSame
  <2>2. CASE more.lines = Append(old.lines, x)
    <3>1. OneMore(h, old, x, more) BY <1>3, <2>2, GenerationAppend
    <3> QED BY <1>3, <1>5, <3>1 DEF OneMore
  <2> QED BY <1>4, <2>1, <2>2
<1> QED BY <1>2, <1>4, <1>5 DEF Stored

LEMMA PersistFiles ==
  ASSUME MemoryOK, FilesInv, Persist,
         turns' \in Seq(Turn), mode' \in Mode, nextTurn' \in Nat \ {0},
         phase' # "down", phase' = "starting" => phase = "starting", UNCHANGED committed
  PROVE  FilesInv' /\ gen' = gen + 1 /\ gen \in Nat /\ Saved'.turns = turns'
         /\ \A h \in 1..gen : snapshots'[h] = snapshots[h]
<1> USE DEF FilesInv
<1>1. PICK s \in Snapshot : /\ s = [turns |-> turns', mode |-> mode', next |-> nextTurn']
                            /\ snapshots' = Append(snapshots, s)
  BY DEF Persist, Snapshot
<1>2. /\ gen \in Nat /\ gen' = gen + 1 /\ \A h \in 1..gen : snapshots'[h] = snapshots[h]
      /\ Saved' = s
  BY <1>1, GenIsNat, SnapshotAdded DEF Saved
<1>3. UNCHANGED files /\ step' = "read" BY DEF Persist
<1>4. UpdatesOK' /\ \A i \in DOMAIN updates'.lines : updates'.lines[i].gen # gen'
  BY <1>1, <1>3, UpdatesSaved DEF files
<1>5. ChatOK' /\ ~InChat(gen')
  BY <1>1, <1>3, ChatSaved DEF files
<1>6. HasSummary' <=> HasSummary BY <1>3 DEF HasSummary, files
<1>7. StepOK'
  <2>1. ~InChat(gen)' BY <1>3, <1>5 DEF InChat, files
  <2>2. gen' # 0 BY <1>2
  <2>3. phase' = "starting" => HasSummary' BY <1>6 DEF StepOK
  <2> QED BY <1>3, <1>4, <2>1, <2>2, <2>3 DEF StepOK, Compacting
<1>8. ASSUME NEW h \in 1..gen
      PROVE  h \in 1..gen' /\ TurnCount(h)' = TurnCount(h) /\ SettingsOf(h)' = SettingsOf(h)
             /\ Stored(h)' = Stored(h) /\ (InChat(h)' <=> InChat(h))
  <2>1. snapshots'[h] = snapshots[h] BY <1>2
  <2> QED BY <1>2, <1>3, <2>1 DEF TurnCount, SettingsOf, Stored, InChat, files
<1>9. committed \in Nat /\ committed' = committed /\ (committed # 0 => committed \in 1..gen)
  BY <1>2 DEF MemoryOK, SummaryOK
<1>10. SummaryOK'
  <2>1. committed' <= gen' BY <1>2, <1>9 DEF SummaryOK
  <2>2. UNCHANGED <<settings, summary>> BY <1>3 DEF files
  <2>3. HasSummary' => /\ committed' # 0 /\ summary'.pending \in Nat
                       /\ summary' = [gen |-> committed', count |-> TurnCount(committed)',
                                      pending |-> summary'.pending]
    BY <1>6, <1>8, <1>9, <2>2 DEF SummaryOK
  <2>4. settings' = NoFile \/ (settings'.gen \in 1..gen' /\ settings' = SettingsOf(settings.gen)')
    BY <1>8, <2>2 DEF SummaryOK
  <2> QED BY <1>9, <2>1, <2>2, <2>3, <2>4 DEF SummaryOK
<1>11. CommitOK'
  <2> SUFFICES ASSUME Intact' PROVE (committed # 0 => InChat(committed))'
                 /\ (\A h \in 1..gen : h >= committed /\ InChat(h) => Len(Stored(h)) = TurnCount(h))'
    BY DEF CommitOK
  <2>1. Intact BY <1>3 DEF Intact, Readable, files
  <2>2. (committed # 0 => InChat(committed))' BY <1>8, <1>9, <2>1 DEF CommitOK
  <2>3. ASSUME NEW h \in 1..gen', h >= committed', InChat(h)'
        PROVE  Len(Stored(h)') = TurnCount(h)'
    <3>1. h \in 1..gen \/ h = gen' BY <1>2
    <3>2. h # gen' BY <1>3, <1>5, <2>3 DEF InChat, files
    <3>3. h \in 1..gen BY <3>1, <3>2
    <3> QED BY <1>8, <1>9, <2>1, <2>3, <3>3 DEF CommitOK
  <2> QED BY <2>2, <2>3
<1> QED BY <1>1, <1>2, <1>4, <1>5, <1>7, <1>10, <1>11

(* Nothing on the disk changes.                                              *)
LEMMA QuietFiles ==
  ASSUME MemoryOK, FilesInv, UNCHANGED <<files, snapshots, committed>>,
         step' = "none" \/ UNCHANGED <<step, written>>,
         phase' = "down" => step' = "none", phase' = "starting" => HasSummary
  PROVE  FilesInv'
<1> USE DEF FilesInv
<1>1. UpdatesOK' /\ ChatOK' /\ (\A h : Stored(h)' = Stored(h)) /\ \A h : InChat(h)' <=> InChat(h)
  BY UpdatesSame, ChatSame DEF files
<1>2. /\ UNCHANGED <<updates, chat, settings, summary, committed>>
      /\ HasSummary' <=> HasSummary
      /\ Intact' <=> Intact
  BY DEF files, HasSummary, Intact, Readable
<1>3. StepOK'
  <2>1. CASE step' = "none" BY <1>2, <2>1 DEF StepOK, Compacting
  <2>2. CASE UNCHANGED <<step, written>>
    BY <1>1, <1>2, <2>2, SnapshotsSame DEF StepOK, Compacting, Readable, Shrunk, UpdateRecord
  <2> QED BY <2>1, <2>2
<1>4. SummaryOK' BY <1>2, SnapshotsSame DEF SummaryOK
<1>5. CommitOK' BY <1>1, <1>2, SnapshotsSame DEF CommitOK
<1> QED BY <1>1, <1>3, <1>4, <1>5

LEMMA StartTurnFiles ==
  ASSUME MemoryOK, FilesInv, StartTurn
  PROVE  FilesInv'
<1> USE DEF FilesInv
<1>1. UNCHANGED <<updates, chat, settings, snapshots, committed, step, written>>
      /\ phase' = "running" /\ step = "none"
  BY DEF StartTurn
<1>2. HasSummary /\ summary' = [summary EXCEPT !.pending = nextTurn - 1]
  BY DEF StartTurn, StepOK
<1>3. PICK c, n, p : /\ summary = [gen |-> c, count |-> n, pending |-> p]
                     /\ c = committed /\ n = TurnCount(committed) /\ committed # 0
  BY <1>2 DEF SummaryOK
<1>4. nextTurn - 1 \in Nat BY DEF MemoryOK
<1>5. summary' = [gen |-> c, count |-> n, pending |-> nextTurn - 1] BY <1>2, <1>3
<1>6. HasSummary'
  <2>1. summary' # NoFile
    <3>1. "count" \in DOMAIN summary' /\ "count" \notin DOMAIN NoFile BY <1>5 DEF NoFile
    <3> QED BY <3>1
  <2>2. summary' # Unreadable
    <3>1. "count" \in DOMAIN summary' /\ "count" \notin DOMAIN Unreadable BY <1>5 DEF Unreadable
    <3> QED BY <3>1
  <2> QED BY <2>1, <2>2 DEF HasSummary
<1>7. UpdatesOK' /\ ChatOK' /\ (\A h : Stored(h)' = Stored(h)) /\ \A h : InChat(h)' <=> InChat(h)
  BY <1>1, UpdatesSame, ChatSame
<1>8. StepOK' BY <1>1, <1>6 DEF StepOK, Compacting
<1>9. SummaryOK' BY <1>1, <1>3, <1>4, <1>5, <1>6, SnapshotsSame DEF SummaryOK, HasSummary
<1>10. Intact' <=> Intact BY <1>1 DEF Intact, Readable
<1>11. CommitOK' BY <1>1, <1>7, <1>10, SnapshotsSame DEF CommitOK
<1> QED BY <1>7, <1>8, <1>9, <1>11

LEMMA ReadLogsFiles ==
  ASSUME MemoryOK, FilesInv, ReadLogs
  PROVE  FilesInv'
<1> USE DEF FilesInv
<1>1. step = "read" /\ UNCHANGED <<files, snapshots, committed>> /\ gen # 0 /\ phase # "down"
  BY DEF ReadLogs, StepOK
<1>2. CASE SaveEnds(FALSE)
  <2>1. phase' = "starting" => HasSummary BY <1>2 DEF SaveEnds, StepOK
  <2>2. step' = "none" BY <1>2 DEF SaveEnds
  <2> QED BY <1>1, <2>1, <2>2, QuietFiles
<1>3. CASE step' = "turns" /\ UNCHANGED phase /\ written' = 0
  <2>1. UpdatesOK' /\ ChatOK' /\ (\A h : Stored(h)' = Stored(h)) /\ \A h : InChat(h)' <=> InChat(h)
    BY <1>1, UpdatesSame, ChatSame DEF files
  <2>2. /\ UNCHANGED <<updates, chat, settings, summary, committed>>
        /\ HasSummary' <=> HasSummary
        /\ Intact' <=> Intact
    BY <1>1 DEF files, HasSummary, Intact, Readable
  <2>3. Stored(gen) = <<>>
    <3>1. \A i \in DOMAIN updates.lines : updates.lines[i].gen # gen BY <1>1 DEF StepOK
    <3>2. updates.lines \in Seq(UpdateLine \cup {Garbled}) BY DEF UpdatesOK, Log
    <3> QED BY <3>1, <3>2, GenerationLines DEF Stored
  <2>4. Stored(gen)' = <<>> /\ TurnCount(gen)' \in Nat /\ gen' # 0 /\ ~InChat(gen)'
    <3>1. gen' = gen BY <1>1, SnapshotsSame
    <3>2. TurnCount(gen)' = TurnCount(gen) BY <1>1 DEF TurnCount, gen
    <3>3. Stored(gen)' = Stored(gen) BY <1>1 DEF Stored, files, gen
    <3>4. InChat(gen)' <=> InChat(gen) BY <1>1 DEF InChat, files, gen
    <3>5. ~InChat(gen) BY <1>1 DEF StepOK
    <3> QED BY <1>1, <2>3, <3>1, <3>2, <3>3, <3>4, <3>5, SavedOK
  <2>5. StepOK'
    <3>1. Len(Stored(gen)') = 0 /\ 0 <= TurnCount(gen)' BY <2>4
    <3>2. phase' = "starting" => HasSummary' BY <1>3, <2>2 DEF StepOK
    <3> QED BY <1>1, <1>3, <2>4, <3>1, <3>2 DEF StepOK, Compacting
  <2>6. SummaryOK' BY <1>1, <2>2, SnapshotsSame DEF SummaryOK
  <2>7. CommitOK' BY <1>1, <2>1, <2>2, SnapshotsSame DEF CommitOK
  <2> QED BY <2>1, <2>5, <2>6, <2>7
<1> QED BY <1>2, <1>3 DEF ReadLogs

LEMMA TurnsAppendedFiles ==
  ASSUME MemoryOK, FilesInv, TurnsAppended
  PROVE  FilesInv'
<1> USE DEF FilesInv
<1>1. /\ step = "turns" /\ step' = "chat" /\ written = Len(Saved.turns)
      /\ UNCHANGED <<files, snapshots, committed, phase, written>>
  BY DEF TurnsAppended, history
<1>2. gen # 0 /\ phase # "down" /\ ~InChat(gen) BY <1>1 DEF StepOK
<1>3. UpdatesOK' /\ ChatOK' /\ (\A h : Stored(h)' = Stored(h)) /\ \A h : InChat(h)' <=> InChat(h)
  BY <1>1, UpdatesSame, ChatSame DEF files
<1>4. /\ UNCHANGED <<updates, chat, settings, summary, committed>>
      /\ HasSummary' <=> HasSummary
      /\ Intact' <=> Intact
  BY <1>1 DEF files, HasSummary, Intact, Readable
<1>5. gen' = gen /\ TurnCount(gen)' = TurnCount(gen) /\ Stored(gen)' = Stored(gen)
      /\ (InChat(gen)' <=> InChat(gen))
  BY <1>1, <1>4 DEF TurnCount, gen, Stored, InChat
<1>6. Readable(updates) => Len(Stored(gen)) = TurnCount(gen)
  BY <1>1 DEF StepOK, TurnCount, Saved
<1>7. StepOK'
  <2>1. phase' = "starting" => HasSummary' BY <1>1, <1>4 DEF StepOK
  <2> QED BY <1>1, <1>2, <1>4, <1>5, <1>6, <2>1 DEF StepOK, Compacting, Readable
<1>8. SummaryOK' BY <1>1, <1>4, SnapshotsSame DEF SummaryOK
<1>9. CommitOK' BY <1>1, <1>3, <1>4, SnapshotsSame DEF CommitOK
<1> QED BY <1>3, <1>7, <1>8, <1>9

LEMMA WriteSettingsFiles ==
  ASSUME MemoryOK, FilesInv, WriteSettings
  PROVE  FilesInv'
<1> USE DEF FilesInv
<1>1. /\ step = "settings" /\ step' = "summary"
      /\ settings' = [gen |-> gen, mode |-> Saved.mode, next |-> Saved.next]
      /\ UNCHANGED <<updates, chat, summary, snapshots, committed, phase, written>>
  BY DEF WriteSettings, history
<1>2. gen # 0 /\ phase # "down" BY <1>1 DEF StepOK
<1>3. UpdatesOK' /\ ChatOK' /\ (\A h : Stored(h)' = Stored(h)) /\ \A h : InChat(h)' <=> InChat(h)
  BY <1>1, UpdatesSame, ChatSame
<1>4. (HasSummary' <=> HasSummary) /\ (Intact' <=> Intact)
  BY <1>1 DEF HasSummary, Intact, Readable
<1>5. gen' = gen /\ TurnCount(gen)' = TurnCount(gen) /\ Stored(gen)' = Stored(gen)
      /\ (InChat(gen)' <=> InChat(gen))
  BY <1>1 DEF TurnCount, gen, Stored, InChat
<1>6. StepOK'
  <2>1. phase' = "starting" => HasSummary' BY <1>1, <1>4 DEF StepOK
  <2> QED BY <1>1, <1>2, <1>5, <2>1 DEF StepOK, Compacting, Readable
<1>7. SummaryOK'
  <2>1. settings'.gen \in 1..gen' /\ settings' = SettingsOf(gen) /\ settings'.gen = gen
    BY <1>1, <1>2, <1>5, SavedOK DEF SettingsOf
  <2> QED BY <1>1, <1>4, <2>1, SnapshotsSame DEF SummaryOK
<1>8. CommitOK' BY <1>1, <1>3, <1>4, SnapshotsSame DEF CommitOK
<1> QED BY <1>3, <1>6, <1>7, <1>8

LEMMA WriteSummaryFiles ==
  ASSUME MemoryOK, FilesInv, WriteSummary
  PROVE  FilesInv' /\ HasSummary'
<1> USE DEF FilesInv
<1>1. /\ step = "summary" /\ step' = "shrink updates" /\ committed' = gen
      /\ summary' = [gen |-> gen, count |-> Len(Saved.turns), pending |-> 0]
      /\ UNCHANGED <<updates, chat, settings, snapshots, phase, written>>
  BY DEF WriteSummary
<1>2. gen # 0 /\ phase # "down" BY <1>1 DEF StepOK
<1>3. UpdatesOK' /\ ChatOK' /\ (\A h : Stored(h)' = Stored(h)) /\ \A h : InChat(h)' <=> InChat(h)
  BY <1>1, UpdatesSame, ChatSame
<1>4. HasSummary'
  <2>1. "count" \in DOMAIN summary' BY <1>1
  <2>2. "count" \notin DOMAIN NoFile /\ "count" \notin DOMAIN Unreadable
    BY DEF NoFile, Unreadable
  <2> QED BY <2>1, <2>2 DEF HasSummary
<1>5. gen' = gen /\ TurnCount(gen)' = TurnCount(gen) /\ Stored(gen)' = Stored(gen)
      /\ (InChat(gen)' <=> InChat(gen)) /\ Len(Saved.turns) = TurnCount(gen)
  BY <1>1 DEF TurnCount, gen, Stored, InChat, Saved
<1>6. StepOK' BY <1>1, <1>2, <1>4, <1>5 DEF StepOK, Compacting, Readable
<1>7. SummaryOK'
  <2>1. gen \in Nat /\ TurnCount(committed)' = TurnCount(gen)
    BY <1>1, GenIsNat DEF TurnCount
  <2>2. summary'.pending = 0 /\ 0 \in Nat BY <1>1
  <2>3. summary' = [gen |-> committed', count |-> TurnCount(committed)', pending |-> summary'.pending]
    BY <1>1, <1>5, <2>1, <2>2
  <2>4. settings' = NoFile \/ (settings'.gen \in 1..gen' /\ settings' = SettingsOf(settings.gen)')
    BY <1>1, <1>5, SnapshotsSame DEF SummaryOK
  <2>5. committed' <= gen' /\ committed' # 0
    <3>1. PICK g \in Nat : g = gen BY <2>1
    <3>2. g <= g BY <3>1
    <3>3. committed' = g /\ gen' = g /\ g # 0 BY <1>1, <1>2, <1>5, <3>1
    <3> QED BY <3>2, <3>3
  <2>6. summary' # NoFile BY <1>4 DEF HasSummary
  <2> QED BY <2>2, <2>3, <2>4, <2>5, <2>6 DEF SummaryOK
<1>8. CommitOK'
  <2> SUFFICES ASSUME Intact' PROVE /\ InChat(gen)
                                    /\ \A h \in 1..gen : h >= gen => Len(Stored(h)) = TurnCount(h)
    BY <1>1, <1>3, <1>5, SnapshotsSame DEF CommitOK, InChat
  <2>1. Readable(updates) /\ Readable(chat) BY <1>1 DEF Intact, Readable
  <2>2. InChat(gen) /\ Len(Stored(gen)) = TurnCount(gen) BY <1>1, <2>1 DEF StepOK
  <2>3. \A h \in 1..gen : h >= gen => h = gen BY GenIsNat
  <2> QED BY <2>2, <2>3
<1> QED BY <1>3, <1>4, <1>6, <1>7, <1>8

LEMMA ShrinkUpdatesFiles ==
  ASSUME MemoryOK, FilesInv, ShrinkUpdates
  PROVE  FilesInv'
<1> USE DEF FilesInv
<1>1. /\ step = "shrink updates" /\ step' = "shrink chat" /\ updates' = Shrunk
      /\ UNCHANGED <<chat, settings, summary, snapshots, phase, written, committed>>
  BY DEF ShrinkUpdates, Shrunk, history
<1>2. gen # 0 /\ phase # "down" /\ committed = gen /\ HasSummary
  BY <1>1 DEF StepOK, Compacting
<1>3. UpdatesOK' /\ Len(Stored(gen)') = TurnCount(gen) BY <1>1, <1>2, UpdatesShrink
<1>4. ChatOK' /\ \A h : InChat(h)' <=> InChat(h) BY <1>1, ChatSame
<1>5. gen' = gen /\ Shrunk' = Shrunk /\ (HasSummary' <=> HasSummary)
  BY <1>1 DEF gen, Shrunk, UpdateRecord, Saved, HasSummary
<1>6. StepOK' BY <1>1, <1>2, <1>5 DEF StepOK, Compacting
<1>7. SummaryOK' BY <1>1, <1>5, SnapshotsSame DEF SummaryOK
<1>8. CommitOK'
  <2> SUFFICES ASSUME Intact' PROVE /\ InChat(gen)
                                    /\ \A h \in 1..gen : h >= gen => Len(Stored(h)') = TurnCount(h)
    BY <1>1, <1>2, <1>4, <1>5, SnapshotsSame DEF CommitOK, InChat
  <2>1. Readable(chat) BY <1>1 DEF Intact, Readable
  <2>2. InChat(gen) BY <1>1, <2>1 DEF StepOK
  <2>3. Len(Generation(gen, updates')) = TurnCount(gen) BY <1>3, <1>5 DEF Stored
  <2>4. ASSUME NEW h \in 1..gen, h >= gen
        PROVE  Len(Generation(h, updates')) = TurnCount(h)
    <3>1. h = gen BY <2>4, GenIsNat
    <3> QED BY <2>3, <3>1
  <2> QED BY <2>2, <2>4 DEF Stored
<1> QED BY <1>3, <1>4, <1>6, <1>7, <1>8

LEMMA ShrinkChatFiles ==
  ASSUME MemoryOK, FilesInv, ShrinkChat
  PROVE  FilesInv'
<1> USE DEF FilesInv
<1>1. /\ step = "shrink chat" /\ step' = "none"
      /\ chat' = [lines |-> <<ChatRecord>>, tail |-> "none"]
      /\ UNCHANGED <<updates, settings, summary, snapshots, committed>>
      /\ phase' = "down" => phase = "down"
  BY DEF ShrinkChat, SaveEnds
<1>2. gen # 0 /\ committed = gen /\ HasSummary /\ updates = Shrunk
  BY <1>1 DEF StepOK, Compacting
<1>3. UpdatesOK' /\ \A h : Stored(h)' = Stored(h) BY <1>1, UpdatesSame
<1>4. ChatOK' /\ InChat(gen)' /\ \A h \in 1..gen : InChat(h)' => h = gen
  BY <1>1, <1>2, ChatShrink
<1>5. gen' = gen /\ (HasSummary' <=> HasSummary) BY <1>1 DEF gen, HasSummary
<1>6. StepOK' BY <1>1, <1>2, <1>5 DEF StepOK, Compacting
<1>7. SummaryOK' BY <1>1, <1>5, SnapshotsSame DEF SummaryOK
<1>8. Len(Stored(gen)) = TurnCount(gen)
  <2>1. Readable(updates) /\ Len(Stored(gen)) = TurnCount(gen)
    <3>1. updates' = Shrunk BY <1>1, <1>2
    <3>2. Len(Stored(gen)') = TurnCount(gen) BY <1>1, <1>2, <3>1, UpdatesShrink
    <3>3. Readable(updates') BY <1>1, <1>2, <3>1, UpdatesShrink
    <3> QED BY <1>1, <1>3, <1>5, <3>2, <3>3 DEF Stored, Readable
  <2> QED BY <2>1
<1>9. CommitOK'
  <2>1. InChat(committed)' BY <1>1, <1>2, <1>4 DEF InChat, gen
  <2>2. ASSUME NEW h \in 1..gen', InChat(h)'
        PROVE  Len(Stored(h)') = TurnCount(h)'
    <3>1. h = gen BY <1>4, <1>5, <2>2
    <3> QED BY <1>3, <1>8, <3>1, <1>1, SnapshotsSame
  <2> QED BY <2>1, <2>2 DEF CommitOK
<1> QED BY <1>3, <1>4, <1>6, <1>7, <1>9

LEMMA AppendTurnFiles ==
  ASSUME MemoryOK, FilesInv, AppendTurn
  PROVE  FilesInv'
<1> USE DEF FilesInv
<1>1. /\ step = "turns" /\ step' = "turns" /\ written < TurnCount(gen) /\ written' = written + 1
      /\ UNCHANGED <<chat, settings, summary, snapshots, phase, committed>>
  BY DEF AppendTurn, history, TurnCount, Saved
<1>2. gen # 0 /\ phase # "down" /\ ~InChat(gen) /\ (Readable(updates) => Len(Stored(gen)) = written)
  BY <1>1 DEF StepOK
<1>3. written \in Nat /\ written + 1 \in 1..TurnCount(gen) /\ TurnCount(gen) \in Nat
  BY <1>1, <1>2, SavedOK DEF MemoryOK
<1> DEFINE line == UpdateOf(gen, written + 1)
<1>4. line \in UpdateLine /\ line.gen = gen /\ updates' = Appended(updates, line)
  <2>1. line \in UpdateLine /\ UpdateRecord(written + 1) = line BY <1>2, <1>3, SavedOK
  <2> QED BY <2>1 DEF AppendTurn, UpdateOf
<1> HIDE DEF line
<1>5. /\ updates' \in Log(UpdateLine) /\ BareIsLine(updates')
      /\ Grows(updates, line, updates') /\ OnlyMore(updates, line, updates')
      /\ updates'.tail = "none"
      /\ Readable(updates') => updates.tail = "none" /\ updates'.lines = Append(updates.lines, line)
  BY <1>4, AppendedGrows DEF UpdatesOK
<1>6. UpdatesOK' BY <1>1, <1>2, <1>3, <1>5, UpdatesGrow DEF line
<1>7. ASSUME Readable(updates')
      PROVE  /\ Readable(updates) /\ updates.tail # "swallowed"
             /\ \A h \in 1..gen : h # gen => Generation(h, updates') = Stored(h)
             /\ Len(Generation(gen, updates')) = written + 1
  <2>1. updates'.tail # "swallowed" BY <1>5
  <2>2. /\ Readable(updates) /\ updates.tail # "swallowed"
        /\ \A h \in 1..gen : h # gen => Generation(h, updates') = Stored(h)
    BY <1>2, <1>1, <1>3, <1>5, <1>7, <2>1, UpdatesGrown DEF line
  <2>3. PICK S, old, more, x, g : /\ S = UpdateLine \cup {Garbled} /\ g = gen
                                  /\ old = updates /\ more = updates' /\ x = line
    OBVIOUS
  <2>4. old.lines \in Seq(S) /\ x \in S /\ more.lines = Append(old.lines, x) /\ x.gen = g
    BY <1>4, <1>5, <1>7, <2>3 DEF UpdatesOK, Log
  <2>5. OneMore(g, old, x, more) BY <2>4, GenerationAppend
  <2>6. PICK r \in Seq(S) : r = Generation(g, old) BY <2>4, GenerationLines
  <2>7. Generation(g, more) = Append(r, x) BY <2>4, <2>5, <2>6 DEF OneMore
  <2>8. Len(Generation(g, more)) = Len(r) + 1 BY <2>4, <2>6, <2>7
  <2>9. Len(r) = written BY <1>2, <2>2, <2>3, <2>6 DEF Stored
  <2> QED BY <2>2, <2>3, <2>8, <2>9
<1>8. ChatOK' /\ \A h : InChat(h)' <=> InChat(h) BY <1>1, ChatSame
<1>9. gen' = gen /\ TurnCount(gen)' = TurnCount(gen) /\ (HasSummary' <=> HasSummary)
      /\ Stored(gen)' = Generation(gen, updates') /\ (InChat(gen)' <=> InChat(gen))
  BY <1>1 DEF TurnCount, gen, Stored, InChat, HasSummary
<1>10. StepOK'
  <2>1. written' <= TurnCount(gen)' /\ (Readable(updates') => Len(Stored(gen)') = written')
    BY <1>1, <1>3, <1>7, <1>9
  <2>2. phase' = "starting" => HasSummary' BY <1>1, <1>9 DEF StepOK
  <2> QED BY <1>1, <1>2, <1>9, <2>1, <2>2 DEF StepOK, Compacting
<1>11. SummaryOK' BY <1>1, <1>9, SnapshotsSame DEF SummaryOK
<1>12. CommitOK'
  <2> SUFFICES ASSUME Intact' PROVE /\ committed # 0 => InChat(committed)
                                    /\ \A h \in 1..gen : h >= committed /\ InChat(h) =>
                                           Len(Generation(h, updates')) = TurnCount(h)
    BY <1>1, <1>8, <1>9, SnapshotsSame DEF CommitOK, InChat, Stored
  <2>1. Readable(updates') /\ Readable(chat) /\ chat.tail # "swallowed"
    BY <1>1 DEF Intact, Readable
  <2>2. Intact BY <1>7, <2>1 DEF Intact
  <2>3. \A h \in 1..gen : InChat(h) => h # gen BY <1>2
  <2> QED BY <1>7, <2>1, <2>2, <2>3 DEF CommitOK
<1> QED BY <1>6, <1>8, <1>10, <1>11, <1>12

LEMMA AppendChatFiles ==
  ASSUME MemoryOK, FilesInv, AppendChat
  PROVE  FilesInv'
<1> USE DEF FilesInv
<1>1. /\ step = "chat" /\ step' = "settings" /\ chat' = Appended(chat, ChatRecord)
      /\ UNCHANGED <<updates, settings, summary, snapshots, phase, committed>>
  BY DEF AppendChat, history
<1>2. gen # 0 /\ phase # "down" /\ (Readable(updates) => Len(Stored(gen)) = TurnCount(gen))
  BY <1>1 DEF StepOK
<1>3. ChatRecord = ChatOf(gen) /\ ChatOf(gen) \in ChatLine /\ ChatOf(gen).gen = gen
  BY <1>2, SavedOK DEF ChatOf
<1>4. /\ chat' \in Log(ChatLine) /\ BareIsLine(chat')
      /\ Grows(chat, ChatOf(gen), chat') /\ OnlyMore(chat, ChatOf(gen), chat')
      /\ Readable(chat') => chat.tail = "none" /\ chat'.lines = Append(chat.lines, ChatOf(gen))
  BY <1>1, <1>3, AppendedGrows DEF ChatOK
<1>5. ChatOK' /\ \A h \in 1..gen : InChat(h)' => InChat(h) \/ h = gen
  BY <1>1, <1>2, <1>4, ChatGrows
<1>6. UpdatesOK' /\ \A h : Stored(h)' = Stored(h) BY <1>1, UpdatesSame
<1>7. ASSUME Readable(chat')
      PROVE  /\ Readable(chat) /\ chat.tail # "swallowed" /\ InChat(gen)'
             /\ \A h : InChat(h) => InChat(h)'
  <2>1. PICK S, old, more, x, g : /\ S = ChatLine \cup {Garbled} /\ g = gen
                                  /\ old = chat /\ more = chat' /\ x = ChatOf(gen)
    OBVIOUS
  <2>2. /\ old.lines \in Seq(S) /\ x \in S /\ more.lines = Append(old.lines, x) /\ x.gen = g
        /\ old.tail = "none"
    BY <1>3, <1>4, <1>7, <2>1 DEF ChatOK, Log
  <2>3. Readable(old) BY <1>7, <2>1, <2>2, ReadableAppend DEF Readable
  <2>4. PICK s \in Seq(S) : s = old.lines BY <2>2
  <2>5. /\ DOMAIN Append(s, x) = 1..(Len(s) + 1) /\ Append(s, x)[Len(s) + 1] = x
        /\ DOMAIN s = 1..Len(s) /\ Len(s) \in Nat
        /\ \A i \in 1..Len(s) : i \in 1..(Len(s) + 1) /\ Append(s, x)[i] = s[i]
    BY <2>2
  <2>6. more.lines = Append(s, x) BY <2>2, <2>4
  <2>7. \E i \in DOMAIN more.lines : more.lines[i].gen = g BY <2>2, <2>5, <2>6
  <2>8. \A i \in DOMAIN old.lines : i \in DOMAIN more.lines /\ more.lines[i] = old.lines[i]
    BY <2>4, <2>5, <2>6
  <2>9. gen' = gen BY <1>1, SnapshotsSame
  <2> QED BY <2>1, <2>2, <2>3, <2>7, <2>8, <2>9 DEF InChat
<1>8. gen' = gen /\ TurnCount(gen)' = TurnCount(gen) /\ (HasSummary' <=> HasSummary)
      /\ Stored(gen)' = Stored(gen)
  BY <1>1 DEF TurnCount, gen, Stored, HasSummary
<1>9. StepOK'
  <2>1. phase' = "starting" => HasSummary' BY <1>1, <1>8 DEF StepOK
  <2>2. Readable(updates') => Len(Stored(gen)') = TurnCount(gen)' BY <1>1, <1>2, <1>8
  <2> QED BY <1>1, <1>2, <1>7, <1>8, <2>1, <2>2 DEF StepOK, Compacting
<1>10. SummaryOK' BY <1>1, <1>8, SnapshotsSame DEF SummaryOK
<1>11. CommitOK'
  <2> SUFFICES ASSUME Intact' PROVE /\ committed # 0 => InChat(committed)'
                                    /\ \A h \in 1..gen : h >= committed /\ InChat(h)' =>
                                           Len(Stored(h)) = TurnCount(h)
    BY <1>1, <1>6, <1>8, SnapshotsSame DEF CommitOK
  <2>1. Readable(updates) /\ updates.tail # "swallowed" /\ Readable(chat')
    BY <1>1 DEF Intact, Readable
  <2>2. Intact BY <1>7, <2>1 DEF Intact
  <2>3. committed # 0 => InChat(committed)' BY <1>1, <1>7, <2>1, <2>2 DEF CommitOK, InChat
  <2> QED BY <1>2, <1>5, <2>1, <2>2, <2>3 DEF CommitOK
<1> QED BY <1>5, <1>6, <1>9, <1>10, <1>11

(* Cut off or failing, an operation does no worse than part of its append.   *)
LEMMA CutOffFiles ==
  ASSUME MemoryOK, FilesInv, CutOff, UNCHANGED <<snapshots, committed>>,
         step' = "none", phase' = "starting" => HasSummary
  PROVE  FilesInv'
<1> USE DEF FilesInv
<1>1. CASE step = "turns" /\ written < Len(Saved.turns)
           /\ updates' \in PartlyAppended(updates, UpdateRecord(written + 1))
           /\ UNCHANGED <<chat, settings, summary>>
  <2>1. gen # 0 /\ ~InChat(gen) /\ (Readable(updates) => Len(Stored(gen)) = written)
    BY <1>1 DEF StepOK
  <2>2. written \in Nat /\ written < TurnCount(gen) /\ written + 1 \in 1..TurnCount(gen)
    BY <1>1, <2>1, SavedOK DEF MemoryOK, TurnCount, Saved
  <2> DEFINE line == UpdateOf(gen, written + 1)
  <2>3. line \in UpdateLine /\ line.gen = gen /\ line # Garbled
        /\ updates' \in PartlyAppended(updates, line)
    <3>1. line \in UpdateLine /\ UpdateRecord(written + 1) = line BY <2>1, <2>2, SavedOK
    <3>2. line.gen = gen BY DEF UpdateOf
    <3>3. line # Garbled BY <2>1, <3>2 DEF Garbled
    <3> QED BY <1>1, <3>1, <3>2, <3>3
  <2> HIDE DEF line
  <2>4. /\ updates' \in Log(UpdateLine) /\ BareIsLine(updates')
        /\ Grows(updates, line, updates') /\ OnlyMore(updates, line, updates')
    BY <2>3, PartlyAppendedGrows DEF UpdatesOK
  <2>5. UpdatesOK' BY <2>1, <2>2, <2>4, UpdatesGrow DEF line
  <2>6. ChatOK' /\ \A h : InChat(h)' <=> InChat(h) BY <1>1, ChatSame
  <2>7. gen' = gen /\ (HasSummary' <=> HasSummary) BY <1>1 DEF gen, HasSummary
  <2>8. StepOK' BY <2>7 DEF StepOK, Compacting
  <2>9. SummaryOK' BY <1>1, <2>7, SnapshotsSame DEF SummaryOK
  <2>10. CommitOK'
    <3> SUFFICES ASSUME Intact' PROVE /\ committed # 0 => InChat(committed)
                                      /\ \A h \in 1..gen : h >= committed /\ InChat(h) =>
                                             Len(Generation(h, updates')) = TurnCount(h)
      BY <1>1, <2>6, <2>7, SnapshotsSame DEF CommitOK, InChat, Stored
    <3>1. /\ Readable(updates') /\ updates'.tail # "swallowed"
          /\ Readable(chat) /\ chat.tail # "swallowed"
      BY <1>1 DEF Intact, Readable
    <3>2. /\ Readable(updates) /\ updates.tail # "swallowed"
          /\ \A h \in 1..gen : h # gen => Generation(h, updates') = Stored(h)
      BY <2>1, <2>2, <2>4, <3>1, UpdatesGrown DEF line
    <3>3. Intact BY <3>1, <3>2 DEF Intact
    <3>4. \A h \in 1..gen : InChat(h) => h # gen BY <2>1
    <3> QED BY <3>2, <3>3, <3>4 DEF CommitOK
  <2> QED BY <2>5, <2>6, <2>8, <2>9, <2>10
<1>2. CASE step = "chat" /\ chat' \in PartlyAppended(chat, ChatRecord)
           /\ UNCHANGED <<updates, settings, summary>>
  <2>1. gen # 0 /\ (Readable(updates) => Len(Stored(gen)) = TurnCount(gen))
    BY <1>2 DEF StepOK
  <2>2. ChatRecord = ChatOf(gen) /\ ChatOf(gen) \in ChatLine /\ ChatOf(gen).gen = gen
        /\ ChatOf(gen) # Garbled
    BY <2>1, SavedOK DEF ChatOf, Garbled
  <2>3. /\ chat' \in Log(ChatLine) /\ BareIsLine(chat')
        /\ Grows(chat, ChatOf(gen), chat') /\ OnlyMore(chat, ChatOf(gen), chat')
    BY <1>2, <2>2, PartlyAppendedGrows DEF ChatOK
  <2>4. ChatOK' /\ \A h \in 1..gen : InChat(h)' => InChat(h) \/ h = gen
    BY <2>1, <2>3, ChatGrows
  <2>5. UpdatesOK' /\ \A h : Stored(h)' = Stored(h) BY <1>2, UpdatesSame
  <2>6. ASSUME Readable(chat'), chat'.tail # "swallowed"
        PROVE  /\ Readable(chat) /\ chat.tail # "swallowed"
               /\ \A h : InChat(h) => \E i \in DOMAIN chat'.lines : chat'.lines[i].gen = h
    <3>1. PICK S, old, more, x : /\ S = ChatLine \cup {Garbled} /\ x = ChatOf(gen)
                                 /\ old = chat /\ more = chat'
      OBVIOUS
    <3>2. PICK s \in Seq(S) : s = old.lines BY <3>1 DEF ChatOK, Log
    <3>3. /\ Readable(old) /\ old.tail # "swallowed"
          /\ more.lines = s \/ more.lines = Append(s, x)
      <4>1. x \in S /\ old.lines \in Seq(S) BY <2>2, <3>1, <3>2
      <4>2. Grows(old, x, more) /\ Readable(more) /\ more.tail # "swallowed" BY <2>3, <2>6, <3>1
      <4> QED BY <3>2, <4>1, <4>2, GrowsIntact
    <3>4. /\ DOMAIN Append(s, x) = 1..(Len(s) + 1) /\ DOMAIN s = 1..Len(s) /\ Len(s) \in Nat
          /\ \A i \in 1..Len(s) : i \in 1..(Len(s) + 1) /\ Append(s, x)[i] = s[i]
      BY <2>2, <3>1
    <3>5. \A i \in DOMAIN old.lines : i \in DOMAIN more.lines /\ more.lines[i] = old.lines[i]
      BY <3>2, <3>3, <3>4
    <3> QED BY <3>1, <3>3, <3>5 DEF InChat
  <2>7. gen' = gen /\ (HasSummary' <=> HasSummary) BY <1>2 DEF gen, HasSummary
  <2>8. StepOK' BY <2>7 DEF StepOK, Compacting
  <2>9. SummaryOK' BY <1>2, <2>7, SnapshotsSame DEF SummaryOK
  <2>10. CommitOK'
    <3> SUFFICES ASSUME Intact' PROVE /\ committed # 0 => InChat(committed)'
                                      /\ \A h \in 1..gen : h >= committed /\ InChat(h)' =>
                                             Len(Stored(h)) = TurnCount(h)
      BY <2>5, <2>7, SnapshotsSame DEF CommitOK
    <3>1. /\ Readable(updates) /\ updates.tail # "swallowed"
          /\ Readable(chat') /\ chat'.tail # "swallowed"
      BY <1>2 DEF Intact, Readable
    <3>2. Intact BY <2>6, <3>1 DEF Intact
    <3>3. committed # 0 => InChat(committed)' BY <2>6, <3>1, <3>2 DEF CommitOK, InChat
    <3> QED BY <2>1, <2>4, <3>1, <3>2, <3>3 DEF CommitOK
  <2> QED BY <2>4, <2>5, <2>8, <2>9, <2>10
<1>3. CASE UNCHANGED files
  BY <1>3, QuietFiles
<1> QED BY <1>1, <1>2, <1>3 DEF CutOff

LEMMA DamageFiles ==
  ASSUME MemoryOK, FilesInv, Damage
  PROVE  FilesInv'
<1> USE DEF FilesInv
<1>1. /\ phase = "down" /\ summary # NoFile /\ summary' = Unreadable
      /\ UNCHANGED <<updates, chat, settings, snapshots, phase, step, committed>>
  BY DEF Damage, history
<1>2. UpdatesOK' /\ ChatOK' /\ (\A h : Stored(h)' = Stored(h)) /\ \A h : InChat(h)' <=> InChat(h)
  BY <1>1, UpdatesSame, ChatSame
<1>3. ~HasSummary' /\ summary' # NoFile
  <2>1. "damaged" \in DOMAIN Unreadable /\ "damaged" \notin DOMAIN NoFile BY DEF NoFile, Unreadable
  <2> QED BY <1>1, <2>1 DEF HasSummary
<1>4. StepOK' BY <1>1 DEF StepOK, Compacting
<1>5. SummaryOK' BY <1>1, <1>3, SnapshotsSame DEF SummaryOK
<1>6. Intact' <=> Intact BY <1>1 DEF Intact, Readable
<1>7. CommitOK' BY <1>1, <1>2, <1>6, SnapshotsSame DEF CommitOK
<1> QED BY <1>2, <1>4, <1>5, <1>7

-----------------------------------------------------------------------------
(* What load finds.                                                          *)

(* The newest complete generation is well defined.                           *)
LEMMA NewestComplete ==
  ASSUME MemoryOK, ~HasSummary, Complete # {}
  PROVE  /\ Recovered = [gen |-> Recovered.gen, count |-> Len(Stored(Recovered.gen)), pending |-> 0]
         /\ Recovered.gen \in Complete /\ \A h \in Complete : h <= Recovered.gen
<1>1. gen \in Nat /\ Complete \subseteq 1..gen BY GenIsNat DEF Complete
<1>2. PICK C, m : C = Complete /\ m = gen /\ m \in Nat /\ C \subseteq 1..m /\ C # {} BY <1>1
<1>3. PICK n \in {m - h : h \in C} : \A k \in {m - h : h \in C} : n <= k
  <2>0. \A h \in C : m - h \in Nat BY <1>2
  <2>1. {m - h : h \in C} \in SUBSET Nat /\ {m - h : h \in C} # {} BY <1>2, <2>0
  <2> QED BY <2>1, LeastNumber
<1>4. PICK g \in C : n = m - g BY <1>3
<1>5. \A h \in C : h <= g
  <2> SUFFICES ASSUME NEW h \in C PROVE h <= g
    OBVIOUS
  <2>1. n <= m - h BY <1>3
  <2>2. h \in Nat /\ g \in Nat BY <1>1, <1>2
  <2> QED BY <1>2, <1>4, <2>1, <2>2
<1>6. \E k \in Complete : \A h \in Complete : h <= k BY <1>2, <1>4, <1>5
<1>7. PICK k : k = CHOOSE c \in Complete : \A h \in Complete : h <= c OBVIOUS
<1>8. k \in Complete /\ \A h \in Complete : h <= k BY <1>6, <1>7
<1>9. Recovered = [gen |-> k, count |-> Len(Generation(k, updates)), pending |-> 0]
  BY <1>7 DEF Recovered
<1> QED BY <1>8, <1>9 DEF Stored

(* A generation the chat names is in the chat as save wrote it.              *)
LEMMA ChatNames ==
  ASSUME MemoryOK, ChatOK, NEW h \in 1..gen
  PROVE  /\ InChat(h) <=> Generation(h, chat) # <<>>
         /\ InChat(h) => Generation(h, chat)[1] = ChatOf(h)
<1>1. PICK r : r = Generation(h, chat) OBVIOUS
<1>2. /\ r \in Seq(ChatLine \cup {Garbled})
      /\ \A j \in 1..Len(r) : r[j].gen = h /\ \E k \in DOMAIN chat.lines : r[j] = chat.lines[k]
      /\ (\E k \in DOMAIN chat.lines : chat.lines[k].gen = h) <=> r # <<>>
  <2>1. PICK log : log = chat OBVIOUS
  <2>2. log.lines \in Seq(ChatLine \cup {Garbled}) BY <2>1 DEF ChatOK, Log
  <2>3. PICK q : q = Generation(h, log) OBVIOUS
  <2>4. /\ q \in Seq(ChatLine \cup {Garbled})
        /\ \A j \in 1..Len(q) : q[j].gen = h /\ \E k \in DOMAIN log.lines : q[j] = log.lines[k]
        /\ (\E k \in DOMAIN log.lines : log.lines[k].gen = h) <=> q # <<>>
    BY <2>2, <2>3, GenerationLines
  <2> QED BY <1>1, <2>1, <2>3, <2>4
<1>3. ASSUME r # <<>>
      PROVE  r[1] = ChatOf(h)
  <2>1. 1 \in 1..Len(r) BY <1>2, <1>3
  <2>2. PICK k \in DOMAIN chat.lines : r[1] = chat.lines[k] /\ r[1].gen = h BY <1>2, <2>1
  <2>3. chat.lines[k] # Garbled
    <3>1. h # 0 BY GenIsNat
    <3> QED BY <2>2, <3>1 DEF Garbled
  <2> QED BY <2>2, <2>3 DEF ChatOK
<1> QED BY <1>1, <1>2, <1>3 DEF InChat

LEMMA CompleteIs ==
  ASSUME MemoryOK, ChatOK, NEW h \in 1..gen
  PROVE  h \in Complete <=> InChat(h) /\ Len(Stored(h)) = TurnCount(h)
<1>1. ASSUME NEW i \in DOMAIN chat.lines, chat.lines[i].gen = h
      PROVE  chat.lines[i].count = TurnCount(h)
  <2>1. chat.lines[i] # Garbled
    <3>1. h # 0 BY GenIsNat
    <3> QED BY <1>1, <3>1 DEF Garbled
  <2>2. chat.lines[i] = ChatOf(h) BY <1>1, <2>1 DEF ChatOK
  <2>3. ChatOf(h).count = TurnCount(h) BY DEF ChatOf
  <2> QED BY <2>2, <2>3
<1> QED BY <1>1 DEF Complete, InChat, Stored

(* A generation whose turns are all stored is loaded with all of them.       *)
Turns(ts, pending) == ts \o (IF pending = 0 THEN <<>> ELSE <<[id |-> pending, done |-> FALSE]>>)

LEMMA WholeTurns ==
  ASSUME MemoryOK, UpdatesOK, Readable(updates), NEW h \in 1..gen,
         Len(Stored(h)) = TurnCount(h), Recovered.gen = h
  PROVE  LoadedTurns = Turns(snapshots[h].turns, Recovered.pending)
<1>1. PICK r : r = Stored(h) OBVIOUS
<1>2. PICK ts \in Seq(Turn) : ts = snapshots[h].turns BY CountsOK DEF Snapshot
<1>3. Len(r) = Len(ts) /\ r \in Seq(UpdateLine \cup {Garbled}) /\ \A i \in 1..Len(r) : r[i].turn = ts[i]
  <2>1. \A i \in 1..Len(r) : r[i] = UpdateOf(h, i) BY <1>1 DEF UpdatesOK
  <2>2. PICK log : log = updates OBVIOUS
  <2>3. log.lines \in Seq(UpdateLine \cup {Garbled}) BY <2>2 DEF UpdatesOK, Log
  <2>4. Generation(h, log) \in Seq(UpdateLine \cup {Garbled}) BY <2>3, GenerationLines
  <2>5. Len(r) = Len(ts) /\ r \in Seq(UpdateLine \cup {Garbled})
    BY <1>1, <1>2, <2>2, <2>4 DEF TurnCount, Stored
  <2>6. \A i : UpdateOf(h, i).turn = ts[i] BY <1>2 DEF UpdateOf
  <2> QED BY <2>1, <2>5, <2>6
<1>4. [i \in DOMAIN r |-> r[i].turn] = ts
  <2>1. DOMAIN r = 1..Len(ts) /\ ts = [i \in 1..Len(ts) |-> ts[i]] BY <1>2, <1>3
  <2> QED BY <1>3, <2>1
<1> QED BY <1>1, <1>2, <1>4 DEF LoadedTurns, Turns, Stored

(* What a load that is not refused returns.                                  *)
LEMMA LoadOK ==
  ASSUME MemoryOK, FilesInv, Loadable
  PROVE  /\ Recovered.gen \in 1..gen /\ Recovered.pending \in Nat
         /\ Recovered = [gen |-> Recovered.gen, count |-> TurnCount(Recovered.gen),
                         pending |-> Recovered.pending]
         /\ HasSummary => Recovered = summary /\ Recovered.gen = committed
         /\ ~HasSummary => Recovered.pending = 0 /\ Recovered.gen \in Complete
                           /\ \A h \in Complete : h <= Recovered.gen
         /\ LoadedTurns = Turns(snapshots[Recovered.gen].turns, Recovered.pending)
         /\ LoadedSettings.next = snapshots[Recovered.gen].next
         /\ LoadedSettings.mode = IF settings = NoFile THEN "ask"
                                                      ELSE snapshots[Recovered.gen].mode
<1> USE DEF FilesInv
<1>1. Readable(updates) /\ Readable(chat) /\ Recovered.gen # 0
      /\ Generation(Recovered.gen, chat) # <<>> /\ Len(Stored(Recovered.gen)) = Recovered.count
  BY DEF Loadable, Stored
<1>2. /\ Recovered.gen \in 1..gen /\ Recovered.pending \in Nat
      /\ Recovered = [gen |-> Recovered.gen, count |-> TurnCount(Recovered.gen),
                      pending |-> Recovered.pending]
      /\ HasSummary => Recovered = summary /\ Recovered.gen = committed
      /\ ~HasSummary => Recovered.pending = 0 /\ Recovered.gen \in Complete
                        /\ \A h \in Complete : h <= Recovered.gen
  <2>1. CASE HasSummary
    <3>1. Recovered = summary BY <2>1 DEF Recovered
    <3>2. /\ summary = [gen |-> committed, count |-> TurnCount(committed), pending |-> summary.pending]
          /\ summary.pending \in Nat /\ committed <= gen
      BY <2>1 DEF SummaryOK
    <3>3. summary.gen = committed BY <3>2
    <3>4. committed \in 1..gen BY <1>1, <3>1, <3>2, <3>3, GenIsNat DEF MemoryOK
    <3> QED BY <2>1, <3>1, <3>2, <3>3, <3>4
  <2>2. CASE ~HasSummary
    <3>1. Complete # {} BY <1>1, <2>2 DEF Recovered, NoFile
    <3>2. PICK g : g = Recovered.gen OBVIOUS
    <3>3. /\ Recovered = [gen |-> g, count |-> Len(Stored(g)), pending |-> 0]
          /\ g \in Complete /\ \A h \in Complete : h <= g
      BY <2>2, <3>1, <3>2, NewestComplete
    <3>4. g \in 1..gen BY <3>3 DEF Complete
    <3>5. Len(Stored(g)) = TurnCount(g) BY <3>3, <3>4, CompleteIs
    <3> QED BY <2>2, <3>2, <3>3, <3>4, <3>5
  <2> QED BY <2>1, <2>2
<1>3. PICK g \in 1..gen : g = Recovered.gen BY <1>2
<1>4. Recovered.count = TurnCount(g) BY <1>2, <1>3
<1>5. LoadedTurns = Turns(snapshots[g].turns, Recovered.pending)
  <2>1. Len(Stored(g)) = TurnCount(g) BY <1>1, <1>3, <1>4
  <2> QED BY <1>1, <1>3, <2>1, WholeTurns
<1>6. Generation(g, chat)[1] = ChatOf(g) BY <1>1, <1>3, ChatNames
<1>7. ChatOf(g).next = snapshots[g].next /\ ChatOf(g).mode = snapshots[g].mode BY DEF ChatOf
<1>8. settings # NoFile /\ settings.gen = g =>
          settings.next = snapshots[g].next /\ settings.mode = snapshots[g].mode
  BY DEF SummaryOK, SettingsOf
<1>9. /\ LoadedSettings.next = snapshots[g].next
      /\ LoadedSettings.mode = IF settings = NoFile THEN "ask" ELSE snapshots[g].mode
  <2>1. CASE settings = NoFile BY <1>3, <1>6, <1>7, <2>1 DEF LoadedSettings
  <2>2. CASE settings # NoFile /\ settings.gen = g
    BY <1>3, <1>8, <2>2 DEF LoadedSettings
  <2>3. CASE settings # NoFile /\ settings.gen # g
    BY <1>3, <1>6, <1>7, <2>3 DEF LoadedSettings
  <2> QED BY <2>1, <2>2, <2>3
<1> QED BY <1>2, <1>3, <1>5, <1>9

LEMMA TurnsAre ==
  ASSUME NEW ts \in Seq(Turn), NEW p \in Nat
  PROVE  /\ Turns(ts, p) \in Seq(Turn)
         /\ SubSeq(Turns(ts, p), 1, Len(ts)) = ts
         /\ \A i \in DOMAIN ts : i \in DOMAIN Turns(ts, p) /\ Turns(ts, p)[i] = ts[i]
         /\ p # 0 => \E i \in DOMAIN Turns(ts, p) : Turns(ts, p)[i].id = p
<1>1. CASE p = 0
  <2>1. Turns(ts, p) = ts BY <1>1 DEF Turns
  <2>2. SubSeq(ts, 1, Len(ts)) = ts OBVIOUS
  <2> QED BY <1>1, <2>1, <2>2
<1>2. CASE p # 0
  <2>1. PICK x \in Turn : x = [id |-> p, done |-> FALSE] BY DEF Turn
  <2>2. PICK q : q = ts \o <<x>> OBVIOUS
  <2>3. Turns(ts, p) = q BY <1>2, <2>1, <2>2 DEF Turns
  <2>4. /\ q \in Seq(Turn) /\ Len(q) = Len(ts) + 1 /\ DOMAIN q = 1..(Len(ts) + 1)
        /\ q[Len(ts) + 1] = x /\ Len(ts) \in Nat /\ DOMAIN ts = 1..Len(ts)
        /\ \A i \in 1..Len(ts) : i \in 1..(Len(ts) + 1) /\ q[i] = ts[i]
    BY <2>2
  <2>5. SubSeq(q, 1, Len(ts)) = ts BY <2>2
  <2>6. \E i \in DOMAIN q : q[i].id = p BY <2>1, <2>4
  <2> QED BY <2>3, <2>4, <2>5, <2>6
<1> QED BY <1>1, <1>2

LEMMA LoadsCommittedHolds ==
  ASSUME MemoryOK, FilesInv
  PROVE  LoadsCommitted
<1> USE DEF FilesInv
<1> SUFFICES ASSUME committed # 0, Intact
             PROVE  /\ Loadable
                    /\ IF HasSummary THEN Recovered.gen = committed ELSE Recovered.gen >= committed
                    /\ SubSeq(LoadedTurns, 1, Len(snapshots[Recovered.gen].turns))
                           = snapshots[Recovered.gen].turns
                    /\ LoadedSettings.next = snapshots[Recovered.gen].next
                    /\ LoadedSettings.mode = IF settings = NoFile THEN "ask"
                                             ELSE snapshots[Recovered.gen].mode
  BY DEF LoadsCommitted
<1>1. Readable(updates) /\ Readable(chat) BY DEF Intact
<1>2. committed \in 1..gen BY GenIsNat DEF MemoryOK, SummaryOK
<1>3. InChat(committed) /\ Len(Stored(committed)) = TurnCount(committed)
  BY <1>2 DEF CommitOK
<1>4. committed \in Complete BY <1>2, <1>3, CompleteIs
<1>5. Loadable
  <2>1. CASE HasSummary
    <3>1. Recovered = summary /\ summary.gen = committed /\ summary.count = TurnCount(committed)
      BY <2>1 DEF Recovered, SummaryOK
    <3>2. Generation(committed, chat) # <<>> BY <1>2, <1>3, ChatNames
    <3> QED BY <1>1, <1>2, <1>3, <3>1, <3>2 DEF Loadable, Stored
  <2>2. CASE ~HasSummary
    <3>1. PICK g : g = Recovered.gen OBVIOUS
    <3>2. Recovered.count = Len(Stored(g)) /\ g \in Complete
      <4>1. Complete # {} BY <1>4
      <4>2. /\ Recovered = [gen |-> g, count |-> Len(Stored(g)), pending |-> 0] /\ g \in Complete
        BY <2>2, <3>1, <4>1, NewestComplete
      <4> QED BY <4>2
    <3>3. g \in 1..gen BY <3>2 DEF Complete
    <3>4. Generation(g, chat) # <<>> BY <3>2, <3>3, CompleteIs, ChatNames
    <3> QED BY <1>1, <3>1, <3>2, <3>3, <3>4 DEF Loadable, Stored
  <2> QED BY <2>1, <2>2
<1>6. PICK g \in 1..gen : g = Recovered.gen BY <1>5, LoadOK
<1>7. IF HasSummary THEN g = committed ELSE g >= committed
  <2>1. CASE HasSummary BY <1>5, <1>6, <2>1, LoadOK
  <2>2. CASE ~HasSummary
    <3>1. committed <= g BY <1>4, <1>5, <1>6, <2>2, LoadOK
    <3> QED BY <1>2, <1>6, <2>2, <3>1
  <2> QED BY <2>1, <2>2
<1>8. SubSeq(LoadedTurns, 1, Len(snapshots[g].turns)) = snapshots[g].turns
  <2>1. PICK ts, p : ts = snapshots[g].turns /\ p = Recovered.pending OBVIOUS
  <2>2. ts \in Seq(Turn) /\ p \in Nat BY <1>5, <2>1, CountsOK, LoadOK DEF Snapshot
  <2>3. LoadedTurns = Turns(ts, p) BY <1>5, <1>6, <2>1, LoadOK
  <2>4. SubSeq(Turns(ts, p), 1, Len(ts)) = ts BY <2>2, TurnsAre
  <2> QED BY <2>1, <2>3, <2>4
<1> QED BY <1>5, <1>6, <1>7, <1>8, LoadOK

LEMMA ResumeFiles ==
  ASSUME MemoryOK, FilesInv, Resume
  PROVE  /\ FilesInv' /\ HasSummary'
         /\ turns' \in Seq(Turn) /\ mode' \in Mode /\ nextTurn' \in Nat \ {0} /\ committed' \in Nat
<1> USE DEF FilesInv
<1>1. /\ phase = "down" /\ Loadable /\ turns' = LoadedTurns /\ phase' = "idle"
      /\ mode' = LoadedSettings.mode /\ nextTurn' = LoadedSettings.next
      /\ UNCHANGED <<updates, chat, settings, snapshots, step, written>>
  BY DEF Resume
<1>2. step = "none" BY <1>1 DEF StepOK
<1>3. PICK g \in 1..gen : g = Recovered.gen BY <1>1, LoadOK
<1>4. turns' \in Seq(Turn) /\ mode' \in Mode /\ nextTurn' \in Nat \ {0}
  <2>1. PICK ts, p : ts = snapshots[g].turns /\ p = Recovered.pending OBVIOUS
  <2>2. ts \in Seq(Turn) /\ p \in Nat /\ snapshots[g].mode \in Mode /\ snapshots[g].next \in Nat \ {0}
    BY <1>1, <2>1, CountsOK, LoadOK DEF Snapshot
  <2>3. LoadedTurns = Turns(ts, p) BY <1>1, <1>3, <2>1, LoadOK
  <2>4. Turns(ts, p) \in Seq(Turn) BY <2>2, TurnsAre
  <2>5. LoadedSettings.next = snapshots[g].next BY <1>1, <1>3, LoadOK
  <2>6. LoadedSettings.mode = IF settings = NoFile THEN "ask" ELSE snapshots[g].mode
    BY <1>1, <1>3, LoadOK
  <2> QED BY <1>1, <2>2, <2>3, <2>4, <2>5, <2>6 DEF Mode
<1>5. CASE HasSummary
  <2>1. UNCHANGED <<summary, committed>> BY <1>5 DEF Resume
  <2>2. HasSummary' /\ committed' \in Nat BY <1>5, <2>1 DEF HasSummary, MemoryOK
  <2>3. UNCHANGED <<files, snapshots, committed>> BY <1>1, <2>1 DEF files
  <2>4. FilesInv' BY <1>1, <1>2, <2>3, QuietFiles
  <2> QED BY <1>4, <2>2, <2>4
<1>6. CASE ~HasSummary
  <2>1. /\ summary' = [gen |-> g, count |-> TurnCount(g), pending |-> 0] /\ committed' = g
        /\ g \in Complete /\ g \in Nat \ {0}
    BY <1>1, <1>3, <1>6, GenIsNat, LoadOK DEF Resume
  <2>2. HasSummary'
    <3>1. "count" \in DOMAIN summary' BY <2>1
    <3>2. "count" \notin DOMAIN NoFile /\ "count" \notin DOMAIN Unreadable
      BY DEF NoFile, Unreadable
    <3> QED BY <3>1, <3>2 DEF HasSummary
  <2>3. UpdatesOK' /\ ChatOK' /\ (\A h : Stored(h)' = Stored(h)) /\ \A h : InChat(h)' <=> InChat(h)
    BY <1>1, UpdatesSame, ChatSame
  <2>4. StepOK' BY <1>1, <1>2 DEF StepOK, Compacting
  <2>5. SummaryOK'
    <3>1. TurnCount(committed)' = TurnCount(g) /\ gen' = gen BY <1>1, <2>1 DEF TurnCount, gen
    <3>2. summary'.pending = 0 /\ 0 \in Nat BY <2>1
    <3>3. summary' = [gen |-> committed', count |-> TurnCount(committed)', pending |-> summary'.pending]
      BY <2>1, <3>1, <3>2
    <3>4. settings' = NoFile \/ (settings'.gen \in 1..gen' /\ settings' = SettingsOf(settings.gen)')
      BY <1>1, <3>1, SnapshotsSame DEF SummaryOK
    <3>5. committed' <= gen' /\ committed' # 0 BY <1>3, <2>1, <3>1, GenIsNat
    <3>6. summary' # NoFile BY <2>2 DEF HasSummary
    <3> QED BY <3>2, <3>3, <3>4, <3>5, <3>6 DEF SummaryOK
  <2>6. CommitOK'
    <3> SUFFICES ASSUME Intact' PROVE /\ InChat(g)
                                      /\ \A h \in 1..gen : h >= g /\ InChat(h) =>
                                             Len(Stored(h)) = TurnCount(h)
      BY <1>1, <2>1, <2>3, SnapshotsSame DEF CommitOK
    <3>1. Intact BY <1>1 DEF Intact, Readable
    <3>2. InChat(g) BY <2>1, CompleteIs
    <3>3. g >= committed
      <4>1. committed \in Nat BY DEF MemoryOK
      <4>2. CASE committed = 0 BY <2>1, <4>2
      <4>3. CASE committed # 0
        BY <1>3, <1>6, <3>1, <4>3, LoadsCommittedHolds DEF LoadsCommitted
      <4> QED BY <4>2, <4>3
    <3>4. \A h \in 1..gen : h >= g => h >= committed
      <4> SUFFICES ASSUME NEW h \in 1..gen, h >= g PROVE h >= committed
        OBVIOUS
      <4>1. committed \in Nat /\ h \in Nat /\ g \in Nat BY GenIsNat DEF MemoryOK
      <4> QED BY <3>3, <4>1
    <3> QED BY <3>1, <3>2, <3>4 DEF CommitOK
  <2> QED BY <1>4, <2>1, <2>2, <2>3, <2>4, <2>5, <2>6
<1> QED BY <1>5, <1>6

-----------------------------------------------------------------------------
(* Every step keeps the memory well formed and the files as described.       *)
LEMMA PersistMemory ==
  ASSUME MemoryOK, Persist, turns' \in Seq(Turn), mode' \in Mode, nextTurn' \in Nat \ {0},
         phase' \in {"idle", "begun", "starting", "running", "down"},
         announced' \in Nat, UNCHANGED <<committed, emptied>>
  PROVE  MemoryOK'
<1>1. PICK s \in Snapshot : snapshots' = Append(snapshots, s)
  BY DEF Persist, Snapshot
<1>2. snapshots' \in Seq(Snapshot) BY <1>1, SnapshotAdded
<1>3. step' \in Places BY DEF Persist, Places
<1> QED BY <1>2, <1>3 DEF MemoryOK, Persist

LEMMA BeginTurnKeeps ==
  ASSUME MemoryOK, FilesInv, BeginTurn
  PROVE  MemoryOK' /\ FilesInv'
<1>1. Persist /\ turns' = turns /\ mode' = mode /\ nextTurn' = nextTurn + 1 /\ phase' = "begun"
      /\ announced' = 0 /\ UNCHANGED <<committed, emptied>>
  BY DEF BeginTurn
<1>2. turns' \in Seq(Turn) /\ mode' \in Mode /\ nextTurn' \in Nat \ {0} BY <1>1 DEF MemoryOK
<1>3. FilesInv' BY <1>1, <1>2, PersistFiles
<1>4. MemoryOK' BY <1>1, <1>2, PersistMemory
<1> QED BY <1>3, <1>4

LEMMA TurnEndsKeeps ==
  ASSUME MemoryOK, FilesInv, TurnEnds
  PROVE  MemoryOK' /\ FilesInv'
<1>1. /\ Persist /\ turns' = Append(turns, [id |-> nextTurn - 1, done |-> TRUE])
      /\ mode' = mode /\ nextTurn' = nextTurn /\ phase' = "idle"
      /\ UNCHANGED <<committed, emptied, announced>>
  BY DEF TurnEnds, history
<1>2. PICK x \in Turn : x = [id |-> nextTurn - 1, done |-> TRUE]
  <2>1. nextTurn - 1 \in Nat BY DEF MemoryOK
  <2> QED BY <2>1 DEF Turn
<1>3. turns' \in Seq(Turn) /\ mode' \in Mode /\ nextTurn' \in Nat \ {0} /\ announced' \in Nat
  BY <1>1, <1>2 DEF MemoryOK
<1>4. FilesInv' BY <1>1, <1>3, PersistFiles
<1>5. MemoryOK' BY <1>1, <1>3, PersistMemory
<1> QED BY <1>4, <1>5

LEMMA SetPermissionModeKeeps ==
  ASSUME MemoryOK, FilesInv, NEW m \in Mode, SetPermissionMode(m)
  PROVE  MemoryOK' /\ FilesInv'
<1>1. /\ Persist /\ turns' = turns /\ mode' = m /\ nextTurn' = nextTurn
      /\ phase' = phase /\ phase # "down" /\ phase \in {"idle", "begun", "starting", "running", "down"}
      /\ announced' \in Nat /\ UNCHANGED <<committed, emptied>>
  BY DEF SetPermissionMode, MemoryOK
<1>2. turns' \in Seq(Turn) /\ mode' \in Mode /\ nextTurn' \in Nat \ {0} BY <1>1 DEF MemoryOK
<1>3. FilesInv' BY <1>1, <1>2, PersistFiles
<1>4. MemoryOK' BY <1>1, <1>2, PersistMemory
<1> QED BY <1>3, <1>4

LEMMA ClearHistoryKeeps ==
  ASSUME MemoryOK, FilesInv, ClearHistory
  PROVE  MemoryOK' /\ FilesInv'
<1>1. /\ Persist /\ turns' = <<>> /\ mode' = mode /\ nextTurn' = nextTurn
      /\ phase' = phase /\ phase # "down" /\ phase \in {"idle", "begun", "starting", "running", "down"}
      /\ announced' = 0 /\ UNCHANGED <<committed, emptied>>
  BY DEF ClearHistory, MemoryOK
<1>2. turns' \in Seq(Turn) /\ mode' \in Mode /\ nextTurn' \in Nat \ {0} BY <1>1 DEF MemoryOK
<1>3. FilesInv' BY <1>1, <1>2, PersistFiles
<1>4. MemoryOK' BY <1>1, <1>2, PersistMemory
<1> QED BY <1>3, <1>4

LEMMA LimitsOK ==
  ASSUME NEW l \in [faults : Nat, crashes : Nat, damages : Nat]
  PROVE  /\ [l EXCEPT !.faults = @ + 1] \in [faults : Nat, crashes : Nat, damages : Nat]
         /\ [l EXCEPT !.crashes = @ + 1] \in [faults : Nat, crashes : Nat, damages : Nat]
         /\ [l EXCEPT !.damages = @ + 1] \in [faults : Nat, crashes : Nat, damages : Nat]
OBVIOUS

LEMMA SaveKeeps ==
  ASSUME MemoryOK, FilesInv, Save
  PROVE  MemoryOK' /\ FilesInv'
<1> USE DEF MemoryOK, Places
<1>1. CASE ReadLogs
  <2>1. gen \in Nat BY GenIsNat
  <2>2. MemoryOK' BY <1>1, <2>1 DEF ReadLogs, SaveEnds, memory
  <2> QED BY <1>1, <2>2, ReadLogsFiles
<1>2. CASE AppendTurn
  <2>1. MemoryOK' BY <1>2 DEF AppendTurn, memory, history
  <2> QED BY <1>2, <2>1, AppendTurnFiles
<1>3. CASE TurnsAppended
  <2>1. MemoryOK' BY <1>3 DEF TurnsAppended, memory, history
  <2> QED BY <1>3, <2>1, TurnsAppendedFiles
<1>4. CASE AppendChat
  <2>1. MemoryOK' BY <1>4 DEF AppendChat, memory, history
  <2> QED BY <1>4, <2>1, AppendChatFiles
<1>5. CASE WriteSettings
  <2>1. MemoryOK' BY <1>5 DEF WriteSettings, memory, history
  <2> QED BY <1>5, <2>1, WriteSettingsFiles
<1>6. CASE WriteSummary
  <2>1. gen \in Nat BY GenIsNat
  <2>2. MemoryOK' BY <1>6, <2>1 DEF WriteSummary, memory
  <2> QED BY <1>6, <2>2, WriteSummaryFiles
<1>7. CASE ShrinkUpdates
  <2>1. MemoryOK' BY <1>7 DEF ShrinkUpdates, memory, history
  <2> QED BY <1>7, <2>1, ShrinkUpdatesFiles
<1>8. CASE ShrinkChat
  <2>1. gen \in Nat BY GenIsNat
  <2>2. MemoryOK' BY <1>8, <2>1 DEF ShrinkChat, SaveEnds, memory
  <2> QED BY <1>8, <2>2, ShrinkChatFiles
<1>9. CASE SaveFails
  <2>1. /\ CutOff /\ step # "none" /\ SaveEnds(Compacting /\ Saved.turns # <<>>)
        /\ limits' = [limits EXCEPT !.faults = @ + 1]
        /\ UNCHANGED <<snapshots, turns, mode, nextTurn, written, committed, announced>>
    BY <1>9 DEF SaveFails, memory
  <2>2. gen \in Nat BY GenIsNat
  <2>a. limits' \in [faults : Nat, crashes : Nat, damages : Nat] BY <2>1, LimitsOK
  <2>b. /\ phase' \in {"idle", "begun", "starting", "running", "down"} /\ step' \in Places
        /\ emptied' \in Nat
    BY <2>1, <2>2 DEF SaveEnds
  <2>3. MemoryOK' BY <2>1, <2>a, <2>b
  <2>4. step' = "none" BY <2>1 DEF SaveEnds
  <2>5. phase' = "starting" => HasSummary BY <2>1 DEF SaveEnds, FilesInv, StepOK
  <2> QED BY <2>1, <2>3, <2>4, <2>5, CutOffFiles
<1> QED BY <1>1, <1>2, <1>3, <1>4, <1>5, <1>6, <1>7, <1>8, <1>9 DEF Save

LEMMA OthersKeep ==
  ASSUME MemoryOK, FilesInv,
         StartTurn \/ StartTurnFails \/ TurnThrows \/ Crash \/ Damage \/ StartAfresh \/ Resume
         \/ UNCHANGED sessionStoreVars
  PROVE  MemoryOK' /\ FilesInv'
<1>a. nextTurn - 1 \in Nat BY DEF MemoryOK
<1>b. <<>> \in Seq(Turn) /\ "ask" \in Mode /\ 1 \in Nat \ {0} BY DEF Mode
<1> USE DEF MemoryOK, Places
<1>1. CASE StartTurn
  <2>2. MemoryOK' BY <1>1, <1>a DEF StartTurn, memory
  <2> QED BY <1>1, <2>2, StartTurnFiles
<1>2. CASE StartTurnFails
  <2>1. MemoryOK' BY <1>2 DEF StartTurnFails, memory, history
  <2>2. phase' = "running" /\ UNCHANGED <<files, snapshots, committed>> /\ UNCHANGED <<step, written>>
    BY <1>2 DEF StartTurnFails, history
  <2> QED BY <2>1, <2>2, QuietFiles
<1>3. CASE TurnThrows
  <2>1. MemoryOK' BY <1>3 DEF TurnThrows, memory, history
  <2>2. phase' = "idle" /\ UNCHANGED <<files, snapshots, committed>> /\ UNCHANGED <<step, written>>
    BY <1>3 DEF TurnThrows
  <2> QED BY <2>1, <2>2, QuietFiles
<1>4. CASE Crash
  <2>1. /\ CutOff /\ phase' = "down" /\ step' = "none" /\ written' = 0
        /\ turns' = <<>> /\ mode' = "ask" /\ nextTurn' = 1
        /\ limits' = [limits EXCEPT !.crashes = @ + 1]
        /\ UNCHANGED <<snapshots, committed, emptied, announced>>
    BY <1>4 DEF Crash, history
  <2>a. limits' \in [faults : Nat, crashes : Nat, damages : Nat] BY <2>1, LimitsOK
  <2>b. turns' \in Seq(Turn) /\ mode' \in Mode /\ nextTurn' \in Nat \ {0} BY <1>b, <2>1
  <2>2. MemoryOK' BY <2>1, <2>a, <2>b
  <2> QED BY <2>1, <2>2, CutOffFiles
<1>5. CASE Damage
  <2>a. limits' \in [faults : Nat, crashes : Nat, damages : Nat] BY <1>5, LimitsOK DEF Damage
  <2>b. UNCHANGED <<snapshots, turns, mode, nextTurn, phase, step, written, committed, emptied,
                    announced>>
    BY <1>5 DEF Damage, memory, history
  <2>1. MemoryOK' BY <2>a, <2>b
  <2> QED BY <1>5, <2>1, DamageFiles
<1>6. CASE StartAfresh
  <2>1. MemoryOK' BY <1>6 DEF StartAfresh, memory, history
  <2>2. phase' = "idle" /\ UNCHANGED <<files, snapshots, committed>> /\ UNCHANGED <<step, written>>
    BY <1>6 DEF StartAfresh, history
  <2> QED BY <2>1, <2>2, QuietFiles
<1>7. CASE Resume
  <2>1. /\ FilesInv' /\ turns' \in Seq(Turn) /\ mode' \in Mode /\ nextTurn' \in Nat \ {0}
        /\ committed' \in Nat
    BY <1>7, ResumeFiles
  <2>2. phase' = "idle" /\ UNCHANGED <<snapshots, step, written, emptied, announced, limits>>
    BY <1>7 DEF Resume
  <2>3. MemoryOK' BY <2>1, <2>2
  <2> QED BY <2>1, <2>3
<1>8. CASE UNCHANGED sessionStoreVars
  <2>1. UNCHANGED <<files, snapshots, committed, step, written, phase, turns, mode, nextTurn,
                    emptied, announced, limits>>
    BY <1>8 DEF sessionStoreVars, memory, history
  <2>2. MemoryOK' BY <2>1
  <2>3. phase = "down" => step = "none" BY DEF FilesInv, StepOK
  <2>4. phase = "starting" => HasSummary BY DEF FilesInv, StepOK
  <2> QED BY <2>1, <2>2, <2>3, <2>4, QuietFiles
<1> QED BY <1>1, <1>2, <1>3, <1>4, <1>5, <1>6, <1>7, <1>8

LEMMA FilesKept ==
  ASSUME MemoryOK, FilesInv, [SessionNext]_sessionStoreVars
  PROVE  MemoryOK' /\ FilesInv'
BY BeginTurnKeeps, TurnEndsKeeps, SetPermissionModeKeeps, ClearHistoryKeeps, SaveKeeps, OthersKeep
   DEF SessionNext

LEMMA InitFiles == SessionInit => MemoryOK /\ FilesInv
<1> SUFFICES ASSUME SessionInit PROVE MemoryOK /\ FilesInv
  OBVIOUS
<1> USE DEF SessionInit
<1>1. MemoryOK BY DEF MemoryOK, Mode, Places
<1>2. gen = 0 /\ 1..gen = {} /\ updates.lines = <<>> /\ chat.lines = <<>>
      /\ updates.tail = "none" /\ chat.tail = "none"
  BY DEF gen, NoLog
<1>3. updates \in Log(UpdateLine) /\ chat \in Log(ChatLine) BY DEF Log, NoLog
<1>4. UpdatesOK BY <1>2, <1>3 DEF UpdatesOK, BareIsLine
<1>5. ChatOK BY <1>2, <1>3 DEF ChatOK, BareIsLine
<1>6. StepOK BY DEF StepOK, Compacting
<1>7. ~HasSummary BY DEF HasSummary
<1>8. SummaryOK BY <1>2, <1>7 DEF SummaryOK
<1>9. CommitOK BY <1>2 DEF CommitOK
<1> QED BY <1>1, <1>4, <1>5, <1>6, <1>8, <1>9 DEF FilesInv

(* A load returns the generation that was committed, whole, wherever a save  *)
(* failed or the process died (SessionStore.save, load and recoverSummary).  *)
THEOREM LoadsCommittedKept == SessionSpec => []LoadsCommitted
<1>1. SessionInit => MemoryOK /\ FilesInv BY InitFiles
<1>2. MemoryOK /\ FilesInv /\ [SessionNext]_sessionStoreVars => (MemoryOK /\ FilesInv)'
  BY FilesKept
<1>3. MemoryOK /\ FilesInv => LoadsCommitted BY LoadsCommittedHolds
<1> QED BY <1>1, <1>2, <1>3, PTL DEF SessionSpec

-----------------------------------------------------------------------------
(* A cleared history is gone.  No line is of a later generation than the     *)
(* last, and what a step adds is of the last.                                *)
ClearedOK == emptied <= gen /\ ClearedIsGone

LinesFrom(log, g) == \A i \in DOMAIN log.lines : log.lines[i] # Garbled => log.lines[i].gen >= g

LEMMA ClearedMeans == ClearedIsGone <=> LinesFrom(updates, emptied) /\ LinesFrom(chat, emptied)
BY DEF ClearedIsGone, LinesFrom

LEMMA OnlyMoreFrom ==
  ASSUME NEW log, NEW line, NEW more, NEW g, OnlyMore(log, line, more), LinesFrom(log, g),
         line.gen >= g
  PROVE  LinesFrom(more, g)
BY DEF OnlyMore, LinesFrom

LEMMA ClearedSame ==
  ASSUME ClearedOK, gen \in Nat, UNCHANGED <<updates, chat, emptied>>,
         gen' = gen \/ gen' = gen + 1, emptied \in Nat
  PROVE  ClearedOK'
<1>1. emptied' <= gen' BY DEF ClearedOK
<1>2. ClearedIsGone' BY DEF ClearedOK, ClearedIsGone
<1> QED BY <1>1, <1>2 DEF ClearedOK

(* A line of the generation being saved is added to one of the logs.         *)
LEMMA ClearedGrows ==
  ASSUME MemoryOK, ClearedOK, gen # 0, UNCHANGED <<snapshots, emptied>>,
         \/ UNCHANGED chat /\ \E line \in UpdateLine : line.gen = gen /\ OnlyMore(updates, line, updates')
         \/ UNCHANGED updates /\ OnlyMore(chat, ChatOf(gen), chat')
  PROVE  ClearedOK'
<1>1. gen' = gen /\ emptied <= gen /\ gen >= emptied
  <2>1. gen \in Nat /\ emptied \in Nat /\ emptied <= gen BY GenIsNat DEF MemoryOK, ClearedOK
  <2> QED BY <2>1, SnapshotsSame
<1>2. LinesFrom(updates, emptied) /\ LinesFrom(chat, emptied) BY ClearedMeans DEF ClearedOK
<1>3. CASE UNCHANGED chat /\ \E line \in UpdateLine : line.gen = gen /\ OnlyMore(updates, line, updates')
  <2>1. PICK line \in UpdateLine : line.gen = gen /\ OnlyMore(updates, line, updates') BY <1>3
  <2>2. LinesFrom(updates', emptied) BY <1>1, <1>2, <2>1, OnlyMoreFrom
  <2>3. LinesFrom(updates, emptied)' /\ LinesFrom(chat, emptied)' BY <1>2, <1>3, <2>2 DEF LinesFrom
  <2> QED BY <1>1, <2>3, ClearedMeans DEF ClearedOK, ClearedIsGone, LinesFrom
<1>4. CASE UNCHANGED updates /\ OnlyMore(chat, ChatOf(gen), chat')
  <2>1. ChatOf(gen).gen = gen BY DEF ChatOf
  <2>2. LinesFrom(chat', emptied) BY <1>1, <1>2, <1>4, <2>1, OnlyMoreFrom
  <2>3. LinesFrom(updates, emptied)' /\ LinesFrom(chat, emptied)' BY <1>2, <1>4, <2>2 DEF LinesFrom
  <2> QED BY <1>1, <2>3, ClearedMeans DEF ClearedOK, ClearedIsGone, LinesFrom
<1> QED BY <1>3, <1>4

LEMMA CutOffCleared ==
  ASSUME MemoryOK, FilesInv, ClearedOK, CutOff, UNCHANGED <<snapshots, emptied>>
  PROVE  ClearedOK'
<1> USE DEF FilesInv
<1>1. CASE step = "turns" /\ written < Len(Saved.turns)
           /\ updates' \in PartlyAppended(updates, UpdateRecord(written + 1))
           /\ UNCHANGED <<chat, settings, summary>>
  <2>1. gen # 0 BY <1>1 DEF StepOK
  <2>2. written + 1 \in 1..TurnCount(gen)
    BY <1>1, <2>1, SavedOK DEF MemoryOK, TurnCount, Saved
  <2>3. UpdateRecord(written + 1) \in UpdateLine /\ UpdateRecord(written + 1).gen = gen
    <3>1. UpdateRecord(written + 1) \in UpdateLine BY <2>1, <2>2, SavedOK
    <3> QED BY <3>1 DEF UpdateRecord
  <2>4. UpdateRecord(written + 1) # Garbled BY <2>1, <2>3 DEF Garbled
  <2>5. OnlyMore(updates, UpdateRecord(written + 1), updates')
    BY <1>1, <2>3, <2>4, PartlyAppendedGrows DEF UpdatesOK
  <2> QED BY <1>1, <2>1, <2>3, <2>5, ClearedGrows
<1>2. CASE step = "chat" /\ chat' \in PartlyAppended(chat, ChatRecord)
           /\ UNCHANGED <<updates, settings, summary>>
  <2>1. gen # 0 BY <1>2 DEF StepOK
  <2>2. ChatRecord = ChatOf(gen) /\ ChatOf(gen) \in ChatLine /\ ChatOf(gen) # Garbled
    BY <2>1, SavedOK DEF ChatOf, Garbled
  <2>3. OnlyMore(chat, ChatOf(gen), chat') BY <1>2, <2>2, PartlyAppendedGrows DEF ChatOK
  <2> QED BY <1>2, <2>1, <2>3, ClearedGrows
<1>3. CASE UNCHANGED files
  <2>1. gen \in Nat /\ gen' = gen /\ emptied \in Nat BY GenIsNat, SnapshotsSame DEF MemoryOK
  <2> QED BY <1>3, <2>1, ClearedSame DEF files
<1> QED BY <1>1, <1>2, <1>3 DEF CutOff

LEMMA ClearedKept ==
  ASSUME MemoryOK, FilesInv, ClearedOK, [SessionNext]_sessionStoreVars
  PROVE  ClearedOK'
<1> USE DEF FilesInv
<1>0. gen \in Nat /\ emptied \in Nat BY GenIsNat DEF MemoryOK
<1>1. ASSUME Persist, UNCHANGED emptied
      PROVE  ClearedOK'
  <2>1. gen' = gen + 1 BY <1>1, <1>0 DEF Persist, gen, MemoryOK
  <2> QED BY <1>0, <1>1, <2>1, ClearedSame DEF Persist, files
<1>2. CASE BeginTurn \/ TurnEnds \/ ClearHistory \/ \E m \in Mode : SetPermissionMode(m)
  BY <1>1, <1>2 DEF BeginTurn, TurnEnds, ClearHistory, SetPermissionMode, history
<1>3. ASSUME UNCHANGED <<updates, chat, snapshots, emptied>>
      PROVE  ClearedOK'
  BY <1>0, <1>3, ClearedSame, SnapshotsSame
<1>4. CASE StartTurn \/ StartTurnFails \/ TurnThrows \/ TurnsAppended \/ WriteSettings
           \/ WriteSummary \/ Damage \/ StartAfresh \/ Resume \/ UNCHANGED sessionStoreVars
  BY <1>3, <1>4 DEF StartTurn, StartTurnFails, TurnThrows, TurnsAppended, WriteSettings,
     WriteSummary, Damage, StartAfresh, Resume, sessionStoreVars, files, history
<1>5. CASE ReadLogs
  BY <1>3, <1>5 DEF ReadLogs, SaveEnds, files
<1>6. CASE AppendTurn
  <2>1. gen # 0 BY <1>6 DEF AppendTurn, StepOK
  <2>2. written + 1 \in 1..TurnCount(gen)
    BY <1>6, <2>1, SavedOK DEF MemoryOK, AppendTurn, TurnCount, Saved
  <2>3. UpdateRecord(written + 1) \in UpdateLine /\ UpdateRecord(written + 1).gen = gen
    <3>1. UpdateRecord(written + 1) \in UpdateLine BY <2>1, <2>2, SavedOK
    <3> QED BY <3>1 DEF UpdateRecord
  <2>4. OnlyMore(updates, UpdateRecord(written + 1), updates')
    BY <1>6, <2>3, AppendedGrows DEF AppendTurn, UpdatesOK
  <2> QED BY <1>6, <2>1, <2>3, <2>4, ClearedGrows DEF AppendTurn, history
<1>7. CASE AppendChat
  <2>1. gen # 0 BY <1>7 DEF AppendChat, StepOK
  <2>2. ChatRecord = ChatOf(gen) /\ ChatOf(gen) \in ChatLine BY <2>1, SavedOK
  <2>3. OnlyMore(chat, ChatOf(gen), chat') BY <1>7, <2>2, AppendedGrows DEF AppendChat, ChatOK
  <2> QED BY <1>7, <2>1, <2>3, ClearedGrows DEF AppendChat, history
<1>8. CASE ShrinkUpdates
  <2>1. gen # 0 /\ updates' = Shrunk /\ UNCHANGED <<chat, snapshots, emptied>>
    BY <1>8 DEF ShrinkUpdates, StepOK, Shrunk, history
  <2>2. \A i \in DOMAIN updates'.lines : updates'.lines[i].gen = gen BY <2>1, UpdatesShrink
  <2>3. emptied <= gen /\ gen >= emptied /\ gen' = gen BY <1>0, <2>1, SnapshotsSame DEF ClearedOK
  <2> QED BY <2>1, <2>2, <2>3 DEF ClearedOK, ClearedIsGone
<1>9. CASE ShrinkChat
  <2>1. gen # 0 /\ updates = Shrunk /\ UNCHANGED <<updates, snapshots>>
        /\ chat' = [lines |-> <<ChatRecord>>, tail |-> "none"]
        /\ emptied' \in {gen, emptied}
    BY <1>9 DEF ShrinkChat, SaveEnds, StepOK
  <2>2. \A i \in DOMAIN updates'.lines : updates'.lines[i].gen = gen BY <2>1, UpdatesShrink
  <2>3. \A i \in DOMAIN chat'.lines : chat'.lines[i].gen = gen BY <2>1, ChatShrink
  <2>4. emptied' <= gen /\ gen >= emptied' /\ gen' = gen BY <1>0, <2>1, SnapshotsSame DEF ClearedOK
  <2> QED BY <2>1, <2>2, <2>3, <2>4 DEF ClearedOK, ClearedIsGone
<1>10. CASE SaveFails
  BY <1>10, CutOffCleared DEF SaveFails, SaveEnds
<1>11. CASE Crash
  BY <1>11, CutOffCleared DEF Crash, history
<1> QED BY <1>2, <1>4, <1>5, <1>6, <1>7, <1>8, <1>9, <1>10, <1>11 DEF SessionNext, Save

(* After a save without turns, the logs hold nothing of what was stored      *)
(* before (AgentSession.clearHistory and the compaction of the logs).        *)
THEOREM ClearedGone == SessionSpec => []ClearedIsGone
<1>1. SessionInit => MemoryOK /\ FilesInv /\ ClearedOK
  <2>1. SessionInit => ClearedOK BY DEF SessionInit, ClearedOK, ClearedIsGone, gen, NoLog
  <2> QED BY <2>1, InitFiles
<1>2. MemoryOK /\ FilesInv /\ ClearedOK /\ [SessionNext]_sessionStoreVars
          => (MemoryOK /\ FilesInv /\ ClearedOK)'
  BY FilesKept, ClearedKept
<1>3. ClearedOK => ClearedIsGone BY DEF ClearedOK
<1> QED BY <1>1, <1>2, <1>3, PTL DEF SessionSpec

-----------------------------------------------------------------------------
(* The turn whose start was recorded: it is in the memory, in the snapshot   *)
(* being saved, and in the committed generation or the summary.              *)
Knows(ts, id) == \E i \in DOMAIN ts : ts[i].id = id

AnnouncedOK ==
    /\ phase \in {"begun", "starting"} => announced = 0
    /\ phase = "running" /\ announced # 0 => announced = nextTurn - 1
    /\ announced # 0 => committed # 0
    /\ limits.damages = 0 /\ committed # 0 => HasSummary
    /\ announced # 0 /\ limits.damages = 0 =>
           /\ phase = "idle" => Knows(turns, announced)
           /\ step # "none" => Knows(Saved.turns, announced)
           /\ summary.pending = announced \/ Knows(snapshots[committed].turns, announced)

LEMMA NothingAnnounced ==
  ASSUME AnnouncedOK, announced' = 0, UNCHANGED <<summary, committed, limits>>
  PROVE  AnnouncedOK'
BY DEF AnnouncedOK, HasSummary

LEMMA AnnouncedSame ==
  ASSUME AnnouncedOK, UNCHANGED <<summary, committed, announced, snapshots>>,
         limits'.damages = limits.damages,
         phase' \in {"begun", "starting"} => phase \in {"begun", "starting"},
         phase' = "running" => phase \in {"begun", "starting", "running"} /\ UNCHANGED nextTurn,
         phase' = "idle" => phase = "idle" /\ UNCHANGED turns,
         step' # "none" => step # "none"
  PROVE  AnnouncedOK'
<1>1. Saved' = Saved /\ (HasSummary' <=> HasSummary) BY SnapshotsSame DEF HasSummary
<1> QED BY <1>1 DEF AnnouncedOK, Knows

LEMMA DamagesSame ==
  ASSUME NEW l \in [faults : Nat, crashes : Nat, damages : Nat]
  PROVE  /\ [l EXCEPT !.faults = @ + 1].damages = l.damages
         /\ [l EXCEPT !.crashes = @ + 1].damages = l.damages
         /\ [l EXCEPT !.damages = @ + 1].damages = l.damages + 1 /\ l.damages + 1 # 0
OBVIOUS

(* A step that begins a save of a memory that knows the turn.                *)
LEMMA AnnouncedPersisted ==
  ASSUME MemoryOK, FilesInv, AnnouncedOK, Persist, UNCHANGED <<committed, announced>>,
         turns' \in Seq(Turn), mode' \in Mode, nextTurn' \in Nat \ {0}, phase' # "down",
         phase' = "starting" => phase = "starting",
         phase' \in {"begun", "starting"} => announced = 0,
         phase' = "running" => announced = 0,
         announced # 0 => Knows(turns', announced)
  PROVE  AnnouncedOK'
<1>1. UNCHANGED <<summary, limits>> BY DEF Persist, files
<1>2. CASE announced = 0 BY <1>1, <1>2, NothingAnnounced
<1>3. CASE announced # 0
  <2>1. /\ Saved'.turns = turns' /\ \A h \in 1..gen : snapshots'[h] = snapshots[h]
    BY PersistFiles
  <2>2. committed \in 1..gen
    <3>1. committed # 0 /\ committed \in Nat /\ committed <= gen /\ gen \in Nat
      BY <1>3, GenIsNat DEF AnnouncedOK, MemoryOK, FilesInv, SummaryOK
    <3> QED BY <3>1
  <2>3. snapshots'[committed'] = snapshots[committed] BY <2>1, <2>2
  <2> QED BY <1>1, <1>3, <2>1, <2>3 DEF AnnouncedOK, HasSummary
<1> QED BY <1>2, <1>3

LEMMA TurnEndsAnnounced ==
  ASSUME MemoryOK, FilesInv, AnnouncedOK, TurnEnds
  PROVE  AnnouncedOK'
<1>1. /\ Persist /\ turns' = Append(turns, [id |-> nextTurn - 1, done |-> TRUE])
      /\ mode' = mode /\ nextTurn' = nextTurn /\ phase = "running" /\ phase' = "idle"
      /\ UNCHANGED <<committed, emptied, announced>>
  BY DEF TurnEnds, history
<1>2. PICK x \in Turn : x = [id |-> nextTurn - 1, done |-> TRUE]
  <2>1. nextTurn - 1 \in Nat BY DEF MemoryOK
  <2> QED BY <2>1 DEF Turn
<1>3. turns' \in Seq(Turn) /\ mode' \in Mode /\ nextTurn' \in Nat \ {0}
  BY <1>1, <1>2 DEF MemoryOK
<1>4. announced # 0 => Knows(turns', announced)
  <2>1. PICK ts \in Seq(Turn) : ts = turns BY DEF MemoryOK
  <2>2. PICK q : q = Append(ts, x) OBVIOUS
  <2>3. Len(ts) + 1 \in DOMAIN q /\ q[Len(ts) + 1] = x BY <2>2
  <2>4. \E i \in DOMAIN q : q[i].id = nextTurn - 1 BY <1>2, <2>3
  <2>5. turns' = q BY <1>1, <1>2, <2>1, <2>2
  <2> QED BY <1>1, <2>4, <2>5 DEF AnnouncedOK, Knows
<1> QED BY <1>1, <1>3, <1>4, AnnouncedPersisted

LEMMA StartTurnAnnounced ==
  ASSUME MemoryOK, FilesInv, AnnouncedOK, StartTurn
  PROVE  AnnouncedOK'
<1>1. /\ step = "none" /\ phase = "starting" /\ phase' = "running" /\ announced' = nextTurn - 1
      /\ summary' = [summary EXCEPT !.pending = nextTurn - 1]
      /\ UNCHANGED <<committed, step, snapshots, nextTurn, limits>>
  BY DEF StartTurn, memory
<1>2. HasSummary /\ committed # 0 BY <1>1 DEF FilesInv, StepOK, SummaryOK
<1>3. summary' = [gen |-> committed, count |-> TurnCount(committed), pending |-> nextTurn - 1]
  BY <1>1, <1>2 DEF FilesInv, SummaryOK
<1>4. HasSummary'
  <2>1. "count" \in DOMAIN summary' BY <1>3
  <2>2. "count" \notin DOMAIN NoFile /\ "count" \notin DOMAIN Unreadable
    BY DEF NoFile, Unreadable
  <2> QED BY <2>1, <2>2 DEF HasSummary
<1>5. summary'.pending = announced' BY <1>1, <1>3
<1> QED BY <1>1, <1>2, <1>4, <1>5 DEF AnnouncedOK

LEMMA WriteSummaryAnnounced ==
  ASSUME MemoryOK, FilesInv, AnnouncedOK, WriteSummary
  PROVE  AnnouncedOK'
<1>1. /\ step = "summary" /\ step' = "shrink updates" /\ committed' = gen
      /\ UNCHANGED <<snapshots, turns, nextTurn, phase, announced, limits>>
  BY DEF WriteSummary, memory
<1>2. HasSummary' /\ gen # 0 BY <1>1, WriteSummaryFiles DEF FilesInv, StepOK
<1>3. Saved' = Saved /\ snapshots'[committed'] = Saved BY <1>1, SnapshotsSame DEF Saved
<1>4. announced # 0 /\ limits.damages = 0 => Knows(Saved.turns, announced)
  BY <1>1 DEF AnnouncedOK
<1> QED BY <1>1, <1>2, <1>3, <1>4 DEF AnnouncedOK

(* Resume takes the turn from the summary or from the committed generation.  *)
LEMMA ResumeAnnounced ==
  ASSUME MemoryOK, FilesInv, AnnouncedOK, Resume
  PROVE  AnnouncedOK'
<1>1. /\ phase = "down" /\ phase' = "idle" /\ Loadable /\ turns' = LoadedTurns
      /\ UNCHANGED <<snapshots, step, announced, limits>>
  BY DEF Resume
<1>2. step = "none" BY <1>1 DEF FilesInv, StepOK
<1>3. HasSummary' BY ResumeFiles
<1>4. HasSummary => UNCHANGED <<summary, committed>> BY DEF Resume
<1>5. committed' # 0
  <2>1. CASE HasSummary BY <1>4, <2>1 DEF FilesInv, SummaryOK
  <2>2. CASE ~HasSummary
    <3>1. committed' = Recovered.gen BY <2>2 DEF Resume
    <3> QED BY <1>1, <3>1 DEF Loadable
  <2> QED BY <2>1, <2>2
<1>6. ASSUME announced # 0, limits.damages = 0
      PROVE  /\ Knows(turns', announced)
             /\ summary'.pending = announced \/ Knows(snapshots'[committed'].turns, announced)
  <2>1. HasSummary /\ committed # 0 BY <1>6 DEF AnnouncedOK
  <2>2. summary.pending = announced \/ Knows(snapshots[committed].turns, announced)
    BY <1>6 DEF AnnouncedOK
  <2>3. Recovered = summary /\ Recovered.gen = committed /\ committed \in 1..gen
        /\ Recovered.pending \in Nat /\ LoadedTurns = Turns(snapshots[Recovered.gen].turns, Recovered.pending)
    BY <1>1, <2>1, LoadOK
  <2>4. PICK ts, p : ts = snapshots[committed].turns /\ p = summary.pending OBVIOUS
  <2>5. ts \in Seq(Turn) /\ p \in Nat /\ turns' = Turns(ts, p)
    BY <1>1, <2>3, <2>4, CountsOK DEF Snapshot
  <2>6. Knows(Turns(ts, p), announced)
    <3>1. CASE p = announced BY <1>6, <2>5, <3>1, TurnsAre DEF Knows
    <3>2. CASE Knows(ts, announced) BY <2>5, <3>2, TurnsAre DEF Knows
    <3> QED BY <2>2, <2>4, <3>1, <3>2
  <2> QED BY <1>1, <1>4, <2>1, <2>2, <2>5, <2>6
<1> QED BY <1>1, <1>2, <1>3, <1>5, <1>6 DEF AnnouncedOK

LEMMA AnnouncedKept ==
  ASSUME MemoryOK, FilesInv, AnnouncedOK, [SessionNext]_sessionStoreVars
  PROVE  AnnouncedOK'
<1>1. CASE BeginTurn \/ ClearHistory
  BY <1>1, NothingAnnounced DEF BeginTurn, ClearHistory, Persist, files
<1>2. CASE TurnThrows
  BY <1>2, NothingAnnounced DEF TurnThrows, files
<1>3. ASSUME NEW m \in Mode, SetPermissionMode(m)
      PROVE  AnnouncedOK'
  <2>1. /\ Persist /\ turns' = turns /\ mode' = m /\ nextTurn' = nextTurn /\ phase' = phase
        /\ phase \in {"idle", "starting", "running"} /\ UNCHANGED committed
        /\ announced' = IF phase = "running" THEN 0 ELSE announced
    BY <1>3 DEF SetPermissionMode
  <2>2. CASE announced' = 0 BY <2>1, <2>2, NothingAnnounced DEF Persist, files
  <2>3. CASE announced' # 0
    <3>1. announced' = announced /\ phase = "idle" BY <2>1, <2>3 DEF AnnouncedOK
    <3>2. turns' \in Seq(Turn) /\ mode' \in Mode /\ nextTurn' \in Nat \ {0} BY <2>1 DEF MemoryOK
    <3>3. CASE limits.damages = 0
      <4>1. Knows(turns', announced) BY <2>1, <2>3, <3>1, <3>3 DEF AnnouncedOK
      <4> QED BY <2>1, <3>1, <3>2, <4>1, AnnouncedPersisted
    <3>4. CASE limits.damages # 0
      <4>1. UNCHANGED <<limits, summary>> BY <2>1 DEF Persist, files
      <4> QED BY <2>1, <3>1, <3>4, <4>1 DEF AnnouncedOK
    <3> QED BY <3>3, <3>4
  <2> QED BY <2>2, <2>3
<1>4. CASE StartTurnFails \/ TurnsAppended \/ AppendTurn \/ AppendChat \/ WriteSettings
           \/ ShrinkUpdates \/ UNCHANGED sessionStoreVars
  <2>1. limits'.damages = limits.damages
    BY <1>4, DamagesSame DEF MemoryOK, StartTurnFails, TurnsAppended, AppendTurn, AppendChat,
       WriteSettings, ShrinkUpdates, sessionStoreVars
  <2>2. /\ UNCHANGED <<summary, committed, announced, snapshots, turns, nextTurn>>
        /\ phase' = phase \/ (phase = "starting" /\ phase' = "running")
        /\ step' # "none" => step # "none"
    BY <1>4 DEF StartTurnFails, TurnsAppended, AppendTurn, AppendChat,
       WriteSettings, ShrinkUpdates, sessionStoreVars, files, memory, history
  <2> QED BY <2>1, <2>2, AnnouncedSame
<1>5. CASE ReadLogs \/ ShrinkChat \/ SaveFails
  <2>1. limits'.damages = limits.damages
    BY <1>5, DamagesSame DEF MemoryOK, ReadLogs, ShrinkChat, SaveFails
  <2>2. /\ UNCHANGED <<committed, announced, snapshots, turns, nextTurn>>
        /\ phase' = phase \/ (phase = "begun" /\ phase' \in {"starting", "running"})
        /\ step # "none"
    BY <1>5 DEF ReadLogs, ShrinkChat, SaveFails, SaveEnds, memory
  <2>3. UNCHANGED summary
    BY <1>5 DEF ReadLogs, ShrinkChat, SaveFails, CutOff, files
  <2> QED BY <2>1, <2>2, <2>3, AnnouncedSame
<1>6. CASE Crash
  <2>1. limits'.damages = limits.damages BY <1>6, DamagesSame DEF MemoryOK, Crash
  <2>2. /\ UNCHANGED <<committed, announced, snapshots>> /\ phase' = "down" /\ step' = "none"
        /\ UNCHANGED summary
    BY <1>6 DEF Crash, CutOff, files, history
  <2> QED BY <2>1, <2>2, AnnouncedSame
<1>7. CASE Damage
  <2>1. limits'.damages # 0 BY <1>7, DamagesSame DEF MemoryOK, Damage
  <2>2. phase' = "down" /\ UNCHANGED <<committed, announced>> BY <1>7 DEF Damage, history
  <2> QED BY <2>1, <2>2 DEF AnnouncedOK
<1>8. CASE StartAfresh
  <2>1. /\ summary = NoFile /\ UNCHANGED <<summary, committed, announced, snapshots, step, limits>>
        /\ phase' = "idle"
    BY <1>8 DEF StartAfresh, Absent, files, history
  <2>2. ~HasSummary /\ ~HasSummary' BY <2>1 DEF HasSummary
  <2> QED BY <2>1, <2>2 DEF AnnouncedOK
<1> QED BY <1>1, <1>2, <1>3, <1>4, <1>5, <1>6, <1>7, <1>8, TurnEndsAnnounced, StartTurnAnnounced,
        WriteSummaryAnnounced, ResumeAnnounced DEF SessionNext, Save

(* The turn under way when the process died is in every later load, until    *)
(* the next turn begins (SessionStore.startTurn and AgentSession.resume).    *)
THEOREM InterruptedTurnKept == SessionSpec => []InterruptedKept
<1>1. SessionInit => MemoryOK /\ FilesInv /\ AnnouncedOK
  <2>1. SessionInit => AnnouncedOK BY DEF SessionInit, AnnouncedOK
  <2> QED BY <2>1, InitFiles
<1>2. MemoryOK /\ FilesInv /\ AnnouncedOK /\ [SessionNext]_sessionStoreVars
          => (MemoryOK /\ FilesInv /\ AnnouncedOK)'
  BY FilesKept, AnnouncedKept
<1>3. ASSUME MemoryOK, FilesInv, AnnouncedOK
      PROVE  InterruptedKept
  <2> SUFFICES ASSUME announced # 0, limits.damages = 0, Intact
               PROVE  Loadable /\ \E i \in DOMAIN LoadedTurns : LoadedTurns[i].id = announced
    BY DEF InterruptedKept
  <2>1. HasSummary /\ committed # 0
        /\ (summary.pending = announced \/ Knows(snapshots[committed].turns, announced))
    BY <1>3 DEF AnnouncedOK
  <2>2. Loadable BY <1>3, <2>1, LoadsCommittedHolds DEF LoadsCommitted
  <2>3. Recovered = summary /\ Recovered.gen = committed /\ committed \in 1..gen
        /\ Recovered.pending \in Nat /\ LoadedTurns = Turns(snapshots[Recovered.gen].turns, Recovered.pending)
    BY <1>3, <2>1, <2>2, LoadOK
  <2>4. PICK ts, p : ts = snapshots[committed].turns /\ p = summary.pending OBVIOUS
  <2>5. ts \in Seq(Turn) /\ p \in Nat /\ LoadedTurns = Turns(ts, p)
    BY <1>3, <2>3, <2>4, CountsOK DEF Snapshot
  <2>6. Knows(Turns(ts, p), announced)
    <3>1. CASE p = announced BY <2>5, <3>1, TurnsAre DEF Knows
    <3>2. CASE Knows(ts, announced) BY <2>5, <3>2, TurnsAre DEF Knows
    <3> QED BY <2>1, <2>4, <3>1, <3>2
  <2> QED BY <2>2, <2>5, <2>6 DEF Knows
<1> QED BY <1>1, <1>2, <1>3, PTL DEF SessionSpec
=============================================================================
