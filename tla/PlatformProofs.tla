--------------------------- MODULE PlatformProofs ---------------------------
(***************************************************************************)
(* Proofs about both ends of the system: the replies of the model on their *)
(* way to the tools and to the screen, the environment, the workspaces and *)
(* the judge of a trial, the review of traces, the live events, and the    *)
(* keys of the terminal, for any lengths, jobs, trials, slots, reviewers   *)
(* and numbers of mishaps; and of all of them together (MCPlatform).       *)
(* Nothing is assumed of fairness: no proof uses that of a specification.  *)
(***************************************************************************)
EXTENDS MCPlatform, FiniteSetTheorems, SequenceTheorems, WellFoundedInduction, TLAPS

StreamSpec == StreamInit /\ [][StreamNext]_streamVars
TypeSpec   == TypeInit /\ [][TypeNext]_typeVars
JudgeSpec  == JudgeInit /\ [][JudgeNext]_judgeVars
BuildSpec  == BuildInit /\ [][BuildNext]_buildVars
SetupSpec  == SetupInit /\ [][SetupNext]_setupVars
ReviewSpec == ReviewInit /\ [][ReviewNext]_reviewVars
EventsSpec == EventsInit /\ [][EventsNext]_eventVars

-----------------------------------------------------------------------------
(* The replies of the model.  T are the responses and what is kept for the   *)
(* next, st what was shown of each reply, and pl the replies without calls.  *)
ReplyPart == [reply : Nat, pieces : Nat, cut : BOOLEAN]

AsShown(T, st, pl) ==
    \A r \in DOMAIN T : \A p \in DOMAIN T[r] :
        T[r][p].reply \in pl /\ T[r][p].pieces = st[T[r][p].reply]
InOrder(T) ==
    \A r, s \in DOMAIN T : \A p \in DOMAIN T[r], q \in DOMAIN T[s] :
        r < s \/ (r = s /\ p < q) => T[r][p].reply < T[s][q].reply
NoneLost(T, pl) == \A i \in pl : \E r \in DOMAIN T : \E p \in DOMAIN T[r] : T[r][p].reply = i

TakenWhole(T, st, pl) == AsShown(T, st, pl) /\ InOrder(T) /\ NoneLost(T, pl)

LastNotCut == continues => \A r \in DOMAIN responses : ~responses[r][Len(responses[r])].cut
NoPartOfArguments == \A e \in executed : e.args # "part"

ReplyKnown ==
    /\ replies \in Nat \ {0} /\ text \in Nat
    /\ streamed \in Seq(Nat) /\ Len(streamed) = replies
    /\ stage # "done" => text = streamed[replies] /\ replies \notin plain
    /\ plain \subseteq 1 .. replies

StreamInv ==
    /\ stage \in {"request", "stream", "done"}
    /\ ReplyKnown
    /\ responses \in Seq(Seq(ReplyPart)) /\ prefix \in Seq(ReplyPart)
    /\ TakenWhole(Texts, streamed, plain)
    /\ LastNotCut /\ NoPartOfArguments

LEMMA StreamInitHolds == StreamInit => StreamInv
<1> SUFFICES ASSUME StreamInit PROVE StreamInv
  OBVIOUS
<1>1. /\ responses = <<>> /\ prefix = <<>> /\ plain = {} /\ executed = {}
      /\ stage = "request" /\ replies = 1 /\ text = 0 /\ streamed = <<0>>
  BY DEF StreamInit
<1>2. Texts = << <<>> >>
  BY <1>1 DEF Texts
<1>3. DOMAIN Texts = {1} /\ DOMAIN Texts[1] = {}
  BY <1>2
<1>4. TakenWhole(Texts, streamed, plain)
  BY <1>1, <1>3 DEF TakenWhole, AsShown, InOrder, NoneLost
<1>5. ReplyKnown
  BY <1>1 DEF ReplyKnown
<1>6. LastNotCut /\ NoPartOfArguments
  BY <1>1 DEF LastNotCut, NoPartOfArguments
<1> QED BY <1>1, <1>4, <1>5, <1>6 DEF StreamInv

(* A part more at the end of what is kept: every part there was stays where  *)
(* it was, and the new one comes after all of them.                          *)
LEMMA PartAdded ==
  ASSUME NEW R \in Seq(Seq(ReplyPart)), NEW P \in Seq(ReplyPart), NEW x \in ReplyPart,
         NEW st, NEW pl, TakenWhole(Append(R, P), st, pl),
         \A i \in pl : i \in Nat /\ i < x.reply, x.pieces = st[x.reply]
  PROVE  TakenWhole(Append(R, Append(P, x)), st, pl \union {x.reply})
<1> DEFINE T == Append(R, P)
           U == Append(R, Append(P, x))
           n == Len(R) + 1
           k == Len(P) + 1
           Old(r, p) == r \in DOMAIN T /\ p \in DOMAIN T[r]
           New(r, p) == r \in DOMAIN U /\ p \in DOMAIN U[r]
<1>1. n \in Nat \ {0} /\ k \in Nat \ {0} /\ DOMAIN T = 1 .. n /\ DOMAIN U = 1 .. n
  OBVIOUS
<1>2. \A r \in 1 .. n : r # n => U[r] = T[r]
  OBVIOUS
<1>3. /\ T[n] = P /\ DOMAIN T[n] = 1 .. (k - 1)
      /\ DOMAIN U[n] = 1 .. k /\ U[n][k] = x /\ \A p \in 1 .. (k - 1) : U[n][p] = T[n][p]
  OBVIOUS
<1> HIDE DEF T, U, n, k
<1>4. \A r, p : Old(r, p) => New(r, p) /\ U[r][p] = T[r][p] /\ ~(r = n /\ p = k)
  BY <1>1, <1>2, <1>3
<1>5. \A r, p : New(r, p) => Old(r, p) \/ (r = n /\ p = k)
  BY <1>1, <1>2, <1>3
<1>6. New(n, k) /\ U[n][k] = x
  BY <1>1, <1>3
<1>7. \A r, p : Old(r, p) => r \in 1 .. n /\ p \in Nat /\ (r = n => p < k)
  <2>1. SUFFICES ASSUME NEW r, NEW p, Old(r, p) PROVE r \in 1 .. n /\ p \in Nat /\ (r = n => p < k)
    OBVIOUS
  <2>2. r \in 1 .. n
    BY <2>1, <1>1
  <2>3. CASE r = n
    <3>1. p \in 1 .. (k - 1)
      BY <2>1, <2>3, <1>3
    <3> QED BY <3>1, <2>2, <2>3, <1>1
  <2>4. CASE r # n
    <3>1. r \in 1 .. Len(R) /\ T[r] = R[r]
      BY <2>2, <2>4 DEF n, T
    <3>2. R[r] \in Seq(ReplyPart)
      BY <3>1
    <3> QED BY <2>1, <2>2, <2>4, <3>1, <3>2
  <2> QED BY <2>3, <2>4
<1>8. AsShown(T, st, pl) /\ InOrder(T) /\ NoneLost(T, pl)
  BY DEF TakenWhole, T
<1>9. AsShown(U, st, pl \union {x.reply})
  BY <1>4, <1>5, <1>6, <1>8 DEF AsShown
<1>10. InOrder(U)
  <2> SUFFICES ASSUME NEW r \in DOMAIN U, NEW s \in DOMAIN U, NEW p \in DOMAIN U[r],
                      NEW q \in DOMAIN U[s], r < s \/ (r = s /\ p < q)
               PROVE  U[r][p].reply < U[s][q].reply
    BY DEF InOrder
  <2>1. CASE Old(r, p) /\ Old(s, q)
    BY <2>1, <1>4, <1>8 DEF InOrder
  <2>2. CASE Old(r, p) /\ s = n /\ q = k
    BY <2>2, <1>4, <1>6, <1>8 DEF AsShown
  <2>3. ~(r = n /\ p = k)
    <3>1. SUFFICES ASSUME r = n, p = k PROVE FALSE
      OBVIOUS
    <3>2. s \in 1 .. n /\ (s = n => q \in 1 .. k)
      BY <1>1, <1>3
    <3> QED BY <3>1, <3>2, <1>1
  <2> QED BY <2>1, <2>2, <2>3, <1>5
<1>11. NoneLost(U, pl \union {x.reply})
  BY <1>4, <1>6, <1>8 DEF NoneLost
<1> QED BY <1>9, <1>10, <1>11 DEF TakenWhole, U

(* An empty response more changes nothing.                                   *)
LEMMA NothingAdded ==
  ASSUME NEW T \in Seq(Seq(ReplyPart)), NEW st, NEW pl, TakenWhole(T, st, pl)
  PROVE  TakenWhole(Append(T, <<>>), st, pl)
<1> DEFINE U == Append(T, <<>>)
           n == Len(T) + 1
<1>1. n \in Nat /\ DOMAIN T = 1 .. (n - 1) /\ DOMAIN U = 1 .. n
  OBVIOUS
<1>2. U[n] = <<>> /\ \A r \in 1 .. (n - 1) : U[r] = T[r]
  OBVIOUS
<1>3. DOMAIN U[n] = {}
  BY <1>2
<1> HIDE DEF U, n
<1>4. \A r, p : r \in DOMAIN U /\ p \in DOMAIN U[r] => r \in DOMAIN T /\ U[r] = T[r]
  BY <1>1, <1>2, <1>3
<1>5. \A r \in DOMAIN T : r \in DOMAIN U /\ U[r] = T[r]
  BY <1>1, <1>2
<1>6. AsShown(T, st, pl) /\ InOrder(T) /\ NoneLost(T, pl)
  BY DEF TakenWhole
<1>7. AsShown(U, st, pl)
  BY <1>4, <1>6 DEF AsShown
<1>8. InOrder(U)
  BY <1>4, <1>6 DEF InOrder
<1>9. NoneLost(U, pl)
  BY <1>5, <1>6 DEF NoneLost
<1> QED BY <1>7, <1>8, <1>9 DEF TakenWhole, U

(* More is shown of a reply that is in no response yet.                      *)
LEMMA MoreShown ==
  ASSUME NEW T, NEW st, NEW pl, NEW new, TakenWhole(T, st, pl), \A i \in pl : new[i] = st[i]
  PROVE  TakenWhole(T, new, pl)
BY DEF TakenWhole, AsShown

LEMMA PartTyped ==
  ASSUME ReplyKnown
  PROVE  Part \in ReplyPart /\ Part.reply = replies /\ Part.pieces = text /\ Part.cut = (reason = "length")
BY DEF ReplyKnown, Part, ReplyPart

(* The next turn begins with nothing shown, and forgets nothing.             *)
LEMMA TurnKnown ==
  ASSUME ReplyKnown, Another \/ (stage' = "done" /\ NewReply /\ UNCHANGED <<replies, streamed>>),
         plain' = plain \/ plain' = plain \union {replies},
         NEW T, TakenWhole(T, streamed, plain')
  PROVE  ReplyKnown' /\ TakenWhole(T, streamed', plain') /\ stage' \in {"request", "done"}
<1>1. plain' \subseteq 1 .. replies
  <2>1. replies \in 1 .. replies /\ plain \subseteq 1 .. replies
    BY DEF ReplyKnown
  <2> QED BY <2>1
<1>2. CASE stage' = "done" /\ NewReply /\ UNCHANGED <<replies, streamed>>
  BY <1>1, <1>2 DEF ReplyKnown, NewReply
<1>3. CASE stage' = "request" /\ replies' = replies + 1 /\ streamed' = Append(streamed, 0) /\ NewReply
  <2>1. /\ streamed' \in Seq(Nat) /\ Len(streamed') = replies'
        /\ streamed'[replies'] = 0 /\ \A i \in 1 .. replies : streamed'[i] = streamed[i]
    BY <1>3 DEF ReplyKnown
  <2>2. TakenWhole(T, streamed', plain')
    BY <2>1, <1>1, MoreShown
  <2>3. replies' \in Nat \ {0} /\ plain' \subseteq 1 .. replies' /\ replies' \notin plain'
    BY <1>1, <1>3 DEF ReplyKnown
  <2> QED BY <2>1, <2>2, <2>3, <1>3 DEF ReplyKnown, NewReply
<1> QED BY <1>2, <1>3 DEF Another, Stops

LEMMA ContinuedKeeps == StreamInv /\ stage = "stream" /\ ContinueReply => StreamInv'
<1> SUFFICES ASSUME StreamInv, stage = "stream", ContinueReply PROVE StreamInv'
  OBVIOUS
<1>1. /\ prefix' = Append(prefix, Part) /\ plain' = plain \union {replies}
      /\ Another /\ responses' = responses /\ executed' = executed /\ continues' = continues
  BY DEF ContinueReply, Another, runVars
<1>2. /\ ReplyKnown /\ responses \in Seq(Seq(ReplyPart)) /\ prefix \in Seq(ReplyPart)
      /\ TakenWhole(Append(responses, prefix), streamed, plain) /\ LastNotCut /\ NoPartOfArguments
      /\ text = streamed[replies] /\ \A i \in plain : i \in Nat /\ i < replies
  BY DEF StreamInv, ReplyKnown, Texts
<1>3. TakenWhole(Append(responses, Append(prefix, Part)), streamed, plain')
  BY <1>1, <1>2, PartTyped, PartAdded
<1>4. ReplyKnown' /\ TakenWhole(Append(responses, Append(prefix, Part)), streamed', plain')
      /\ stage' \in {"request", "done"}
  BY <1>1, <1>2, <1>3, TurnKnown
<1>5. TakenWhole(Texts', streamed', plain')
  BY <1>1, <1>4 DEF Texts
<1>6. prefix' \in Seq(ReplyPart)
  BY <1>1, <1>2, PartTyped
<1> QED BY <1>1, <1>2, <1>4, <1>5, <1>6 DEF StreamInv, LastNotCut, NoPartOfArguments

LEMMA TextKeeps ==
  StreamInv /\ stage = "stream" /\ TextReply /\ (continues => reason # "length") => StreamInv'
<1> SUFFICES ASSUME StreamInv, stage = "stream", TextReply, continues => reason # "length"
             PROVE  StreamInv'
  OBVIOUS
<1> DEFINE response == Append(prefix, Part)
<1>1. /\ responses' = Append(responses, response) /\ plain' = plain \union {replies}
      /\ Another \/ (stage' = "done" /\ NewReply /\ UNCHANGED <<replies, streamed>>)
      /\ prefix' = <<>> /\ executed' = executed /\ continues' = continues
  BY DEF TextReply, Another, Ends, Stops, runVars
<1>2. /\ ReplyKnown /\ responses \in Seq(Seq(ReplyPart)) /\ prefix \in Seq(ReplyPart)
      /\ TakenWhole(Append(responses, prefix), streamed, plain) /\ LastNotCut /\ NoPartOfArguments
      /\ text = streamed[replies] /\ \A i \in plain : i \in Nat /\ i < replies
  BY DEF StreamInv, ReplyKnown, Texts
<1>3. TakenWhole(Append(responses, response), streamed, plain')
  BY <1>1, <1>2, PartTyped, PartAdded
<1>4. response \in Seq(ReplyPart) /\ response[Len(response)] = Part
  BY <1>2, PartTyped
<1> HIDE DEF response
<1>5. responses' \in Seq(Seq(ReplyPart))
  BY <1>1, <1>2, <1>4
<1>6. TakenWhole(Append(Append(responses, response), <<>>), streamed, plain')
  BY <1>1, <1>3, <1>5, NothingAdded
<1>7. ReplyKnown' /\ TakenWhole(Append(Append(responses, response), <<>>), streamed', plain')
      /\ stage' \in {"request", "done"}
  BY <1>1, <1>2, <1>6, TurnKnown
<1>8. TakenWhole(Texts', streamed', plain')
  BY <1>1, <1>7 DEF Texts
<1>9. LastNotCut'
  <2> SUFFICES ASSUME continues, NEW r \in DOMAIN responses'
               PROVE  ~responses'[r][Len(responses'[r])].cut
    BY <1>1 DEF LastNotCut
  <2>1. CASE r = Len(responses) + 1
    <3>1. responses'[r] = response
      BY <2>1, <1>1, <1>2
    <3>2. ~Part.cut
      BY <1>2, PartTyped
    <3> QED BY <3>1, <3>2, <1>4
  <2>2. CASE r \in 1 .. Len(responses)
    BY <2>2, <1>1, <1>2 DEF LastNotCut
  <2> QED BY <2>1, <2>2, <1>1, <1>2
<1> QED BY <1>1, <1>2, <1>5, <1>7, <1>8, <1>9 DEF StreamInv, NoPartOfArguments

LEMMA StreamEndKeeps == StreamInv /\ StreamEnds => StreamInv'
<1> SUFFICES ASSUME StreamInv, StreamEnds PROVE StreamInv'
  OBVIOUS
<1>1. stage = "stream"
  BY DEF StreamEnds
<1>2. CASE Fails
  BY <1>2 DEF Fails, Stops, NewReply, runVars, textVars, StreamInv, ReplyKnown, Texts, LastNotCut,
              NoPartOfArguments
<1>3. CASE ContinueReply
  BY <1>1, <1>3, ContinuedKeeps
<1>4. CASE ExecuteCalls /\ \A i \in DOMAIN buffers : Parses(buffers[i])
  <2>1. /\ Another \/ (stage' = "done" /\ NewReply /\ UNCHANGED <<replies, streamed>>)
        /\ UNCHANGED <<prefix, responses, plain, continues>>
    BY <1>4 DEF ExecuteCalls, Another, Ends, Stops, textVars, runVars
  <2>2. \E n : n \in 0 .. Len(buffers) /\ ExecuteFirst(n)
    BY <1>4 DEF ExecuteCalls
  <2>3. NoPartOfArguments'
    BY <1>4, <2>2 DEF ExecuteFirst, Parses, NoPartOfArguments, StreamInv
  <2>4. ReplyKnown' /\ TakenWhole(Texts, streamed', plain') /\ stage' \in {"request", "done"}
    BY <2>1, TurnKnown DEF StreamInv
  <2> QED BY <2>1, <2>3, <2>4 DEF StreamInv, Texts, LastNotCut
<1>5. CASE TextReply /\ (continues => reason # "length")
  BY <1>1, <1>5, TextKeeps
<1> QED
  BY <1>2, <1>3, <1>4, <1>5 DEF StreamEnds, StopReason

LEMMA StreamStep == StreamInv /\ [StreamNext]_streamVars => StreamInv'
<1> SUFFICES ASSUME StreamInv, [StreamNext]_streamVars PROVE StreamInv'
  OBVIOUS
<1> USE DEF StreamInv, ReplyKnown, Texts, LastNotCut, NoPartOfArguments, runVars, wireVars, textVars
<1>1. CASE \E status \in {0, 400, 408, 429, 500} : RequestFails(status)
  BY <1>1 DEF RequestFails, Stops, NewReply
<1>2. CASE StreamOpens
  BY <1>2 DEF StreamOpens
<1>3. CASE TextArrives
  <2>1. /\ stage = "stream" /\ text' = text + 1 /\ streamed' = [streamed EXCEPT ![replies] = @ + 1]
        /\ UNCHANGED <<stage, replies, plain, responses, prefix, executed, continues>>
    BY <1>3 DEF TextArrives
  <2>2. /\ streamed' \in Seq(Nat) /\ Len(streamed') = replies /\ streamed'[replies] = text'
        /\ \A i \in 1 .. replies : i # replies => streamed'[i] = streamed[i]
    BY <2>1
  <2>3. TakenWhole(Append(responses, prefix), streamed', plain)
    BY <2>1, <2>2, MoreShown
  <2> QED BY <2>1, <2>2, <2>3
<1>4. CASE ArgumentsArrive
  BY <1>4 DEF ArgumentsArrive
<1>9. CASE \E meant \in BOOLEAN : CallBegins(meant)
  BY <1>9 DEF CallBegins
<1>5. CASE \E r \in {"stop", "tools", "length"} : ReasonArrives(r)
  BY <1>5 DEF ReasonArrives
<1>6. CASE ConnectionBreaks
  BY <1>6 DEF ConnectionBreaks, Stops, NewReply
<1>10. CASE RunAborted
  BY <1>10 DEF RunAborted, Stops, NewReply
<1>7. CASE StreamEnds
  BY <1>7, StreamEndKeeps
<1>8. CASE UNCHANGED streamVars
  BY <1>8 DEF streamVars
<1> QED
  BY <1>1, <1>2, <1>3, <1>4, <1>5, <1>6, <1>7, <1>8, <1>9, <1>10 DEF StreamNext

(* Every reply without calls is in one response, as it was shown and in its  *)
(* place, none ends in a cut, and no tool ran with a part of its arguments,  *)
(* for any number of replies, pieces, calls and retries (agent-runner.ts     *)
(* 291-400).                                                                 *)
THEOREM RepliesWhole == StreamSpec => []RepliesTakenWhole
<1>1. StreamInv => RepliesTakenWhole
  BY DEF StreamInv, TakenWhole, AsShown, InOrder, NoneLost, LastNotCut, NoPartOfArguments, RepliesTakenWhole
<1> QED
  BY StreamInitHolds, StreamStep, <1>1, PTL DEF StreamSpec

-----------------------------------------------------------------------------
(* The replies on the screen: the message a stream is in holds what the      *)
(* stream has received, so flushing it once more changes nothing.            *)
StreamPlaced ==
    /\ streamIndex \in Nat
    /\ streamIndex # 0 =>
          /\ streamIndex \in DOMAIN messages /\ begun > 0
          /\ messages[streamIndex] = target
          /\ target = [of |-> begun, pieces |-> received[begun]]
    /\ streaming.on => streamIndex # 0

Message == [of : 0 .. MaxStreams, pieces : Nat]

TypeInv ==
    /\ begun \in 0 .. MaxStreams
    /\ received \in [1 .. MaxStreams -> Nat]
    /\ \A s \in 1 .. MaxStreams : s > begun => received[s] = 0
    /\ messages \in Seq(Message)
    /\ \A i \in DOMAIN messages : messages[i].of <= begun
    /\ streaming \in [on : BOOLEAN, completed : BOOLEAN, over : BOOLEAN]
    /\ StreamPlaced
    /\ RepliesIntact

TypewriterInv == moved \in BOOLEAN /\ (~moved => TypeInv)

LEMMA TypeInitHolds == TypeInit => TypewriterInv
<1> SUFFICES ASSUME TypeInit PROVE TypewriterInv
  OBVIOUS
<1>1. messages \in Seq(Message) /\ DOMAIN messages = {}
  BY DEF TypeInit
<1>2. /\ begun \in 0 .. MaxStreams /\ received \in [1 .. MaxStreams -> Nat]
      /\ \A s \in 1 .. MaxStreams : received[s] = 0
      /\ streaming \in [on : BOOLEAN, completed : BOOLEAN, over : BOOLEAN]
      /\ ~streaming.on /\ streamIndex = 0 /\ moved = FALSE
  BY TypewriterAssumption DEF TypeInit
<1> QED BY <1>1, <1>2 DEF TypewriterInv, TypeInv, StreamPlaced, RepliesIntact

LEMMA MessageFields ==
  ASSUME NEW m \in Message
  PROVE  m.of \in Int /\ m.pieces \in Nat /\ m = [of |-> m.of, pieces |-> m.pieces]
BY TypewriterAssumption DEF Message

LEMMA MessagesTyped ==
  ASSUME TypeInv
  PROVE  /\ Len(messages) \in Nat /\ DOMAIN messages = 1 .. Len(messages)
         /\ \A i \in DOMAIN messages : messages[i] \in Message
BY DEF TypeInv

LEMMA FlushedIsThere == ASSUME TypeInv PROVE Flushed = messages
BY DEF TypeInv, StreamPlaced, Flushed

LEMMA BeginKeeps == ASSUME TypeInv, ~moved, BeginStream PROVE TypeInv'
<1> DEFINE n == begun + 1
<1>1. /\ n \in 1 .. MaxStreams /\ begun' = n /\ received' = received /\ moved' = moved
      /\ streaming' = [on |-> TRUE, completed |-> FALSE, over |-> FALSE]
      /\ target' = [of |-> n, pieces |-> 0] /\ streamIndex' = Len(messages) + 1
      /\ messages' = Append(messages, [of |-> n, pieces |-> 0])
  BY FlushedIsThere, TypewriterAssumption DEF BeginStream, TypeInv
<1>2. received[n] = 0
  BY <1>1, TypewriterAssumption DEF TypeInv
<1>3. /\ messages' \in Seq(Message)
      /\ DOMAIN messages' = DOMAIN messages \union {Len(messages) + 1}
      /\ \A i \in DOMAIN messages : messages'[i] = messages[i]
      /\ messages'[Len(messages) + 1] = [of |-> n, pieces |-> 0]
      /\ Len(messages) + 1 \notin DOMAIN messages
  <2>1. [of |-> n, pieces |-> 0] \in Message BY <1>1 DEF Message
  <2> QED BY <1>1, <2>1 DEF TypeInv
<1>4. \A i \in DOMAIN messages : messages[i].of < n
  <2> SUFFICES ASSUME NEW i \in DOMAIN messages PROVE messages[i].of < n
    OBVIOUS
  <2>1. messages[i].of \in Int BY MessagesTyped, MessageFields
  <2> QED BY <1>1, <2>1 DEF TypeInv
<1>5. RepliesIntact'
  <2> DEFINE last == Len(messages) + 1
  <2>1. \A i \in DOMAIN messages : messages[i].of # 0 =>
           /\ messages[i].pieces = received[messages[i].of]
           /\ \A j \in DOMAIN messages \ {i} : messages[j].of # messages[i].of
    BY DEF TypeInv, RepliesIntact
  <2>2. messages'[last] = [of |-> n, pieces |-> 0] /\ DOMAIN messages' = DOMAIN messages \union {last}
    BY <1>3
  <2>3. \A i \in DOMAIN messages : messages[i].of # n
    BY <1>1, <1>4, MessagesTyped, MessageFields
  <2> HIDE DEF last, n
  <2> QED BY <1>1, <1>2, <1>3, <2>1, <2>2, <2>3 DEF RepliesIntact
<1>6. StreamPlaced'
  BY <1>1, <1>2, <1>3 DEF TypeInv, StreamPlaced
<1>7. \A i \in DOMAIN messages' : messages'[i].of <= n
  <2>1. \A i \in DOMAIN messages : messages'[i].of <= n
    BY <1>1, <1>3, <1>4, MessagesTyped, MessageFields
  <2> QED BY <1>1, <1>3, <2>1
<1>8. \A s \in 1 .. MaxStreams : s > n => received[s] = 0
  BY <1>1 DEF TypeInv
<1> QED BY <1>1, <1>3, <1>5, <1>6, <1>7, <1>8 DEF TypeInv

(* Whatever the timer and the end of a reply leave of the stream.            *)
LEMMA StreamLeft ==
  ASSUME TypeInv, UNCHANGED <<messages, target, begun, received, moved>>,
         streaming' \in [on : BOOLEAN, completed : BOOLEAN, over : BOOLEAN],
         \/ streamIndex' = streamIndex /\ streaming'.on = streaming.on
         \/ streamIndex' = 0 /\ ~streaming'.on
  PROVE  TypeInv'
BY DEF TypeInv, StreamPlaced, RepliesIntact

LEMMA DeltaKeeps == ASSUME TypeInv, ~moved, Delta PROVE TypeInv'
<1> DEFINE k == streamIndex
<1>1. /\ k \in DOMAIN messages /\ begun \in 1 .. MaxStreams
      /\ messages[k] = target /\ target = [of |-> begun, pieces |-> received[begun]]
  BY DEF Delta, Arriving, TypeInv, StreamPlaced
<1>2. /\ messages' = [messages EXCEPT ![k].pieces = @ + 1]
      /\ received' = [received EXCEPT ![begun] = @ + 1]
      /\ target' = [target EXCEPT !.pieces = @ + 1]
      /\ begun' = begun /\ moved' = moved
  BY DEF Delta
<1>3. /\ messages' = [messages EXCEPT ![k] = [of |-> begun, pieces |-> received[begun] + 1]]
      /\ target' = [of |-> begun, pieces |-> received[begun] + 1]
  <2>1. [target EXCEPT !.pieces = @ + 1] = [of |-> begun, pieces |-> received[begun] + 1]
    BY <1>1
  <2>2. [messages[k] EXCEPT !.pieces = @ + 1] = [of |-> begun, pieces |-> received[begun] + 1]
    BY <1>1
  <2>3. messages' = [messages EXCEPT ![k] = [messages[k] EXCEPT !.pieces = @ + 1]]
    BY <1>2
  <2> QED BY <1>2, <2>1, <2>2, <2>3
<1>4. received[begun] \in Nat
  BY <1>1 DEF TypeInv
<1>5. /\ messages' \in Seq(Message)
      /\ DOMAIN messages' = DOMAIN messages
  <2>1. [of |-> begun, pieces |-> received[begun] + 1] \in Message
    BY <1>1, <1>4 DEF Message
  <2> QED BY <1>1, <1>3, <2>1 DEF TypeInv
<1>6. \A i \in DOMAIN messages \ {k} : messages'[i] = messages[i] /\ messages[i].of # begun
  <2>1. \A i \in DOMAIN messages \ {k} : messages[k].of # messages[i].of
    BY <1>1 DEF TypeInv, RepliesIntact
  <2> QED BY <1>1, <1>3, <2>1
<1>7. /\ messages'[k] = [of |-> begun, pieces |-> received[begun] + 1]
      /\ received'[begun] = received[begun] + 1
  BY <1>1, <1>2, <1>3 DEF TypeInv
<1>8. RepliesIntact'
  BY <1>1, <1>2, <1>5, <1>6, <1>7 DEF TypeInv, RepliesIntact
<1>9. streamIndex' \in {0, k} /\ streaming' \in [on : BOOLEAN, completed : BOOLEAN, over : BOOLEAN]
      /\ (streamIndex' = 0 => k = 0 \/ ~streaming'.on)
  BY DEF Delta, Pump, TypeInv
<1>10. StreamPlaced'
  BY <1>1, <1>2, <1>3, <1>5, <1>7, <1>9 DEF StreamPlaced, TypeInv
<1>11. /\ received' \in [1 .. MaxStreams -> Nat]
       /\ \A s \in 1 .. MaxStreams : s > begun => received'[s] = 0
  BY <1>1, <1>2, <1>4 DEF TypeInv
<1>12. \A i \in DOMAIN messages' : messages'[i].of <= begun
  <2>1. \A i \in DOMAIN messages \ {k} : messages'[i].of <= begun
    BY <1>6 DEF TypeInv
  <2>2. messages'[k].of <= begun
    BY <1>1, <1>7
  <2> QED BY <1>5, <2>1, <2>2
<1> QED BY <1>1, <1>2, <1>5, <1>8, <1>9, <1>10, <1>11, <1>12 DEF TypeInv

LEMMA AddKeeps == ASSUME TypeInv, ~moved, AddMessage PROVE TypeInv'
<1>1. /\ UNCHANGED <<streamIndex, streaming, target, begun, received, moved>>
      /\ messages' = Append(messages, [of |-> 0, pieces |-> 0])
  BY DEF AddMessage, NoText
<1>2. /\ messages' \in Seq(Message)
      /\ DOMAIN messages' = DOMAIN messages \union {Len(messages) + 1}
      /\ \A i \in DOMAIN messages : messages'[i] = messages[i]
      /\ messages'[Len(messages) + 1] = [of |-> 0, pieces |-> 0]
  <2>1. [of |-> 0, pieces |-> 0] \in Message BY TypewriterAssumption DEF Message
  <2> QED BY <1>1, <2>1 DEF TypeInv
<1>3. RepliesIntact'
  <2> DEFINE last == Len(messages) + 1
  <2>1. \A i \in DOMAIN messages : messages[i].of # 0 =>
           /\ messages[i].pieces = received[messages[i].of]
           /\ \A j \in DOMAIN messages \ {i} : messages[j].of # messages[i].of
    BY DEF TypeInv, RepliesIntact
  <2>2. messages'[last].of = 0
    BY <1>2
  <2> HIDE DEF last
  <2> QED BY <1>1, <1>2, <2>1, <2>2 DEF RepliesIntact, last
<1>4. StreamPlaced'
  BY <1>1, <1>2 DEF TypeInv, StreamPlaced
<1> QED BY <1>1, <1>2, <1>3, <1>4 DEF TypeInv

LEMMA TypeStep == TypewriterInv /\ [TypeNext]_typeVars => TypewriterInv'
<1> SUFFICES ASSUME TypewriterInv, [TypeNext]_typeVars PROVE TypewriterInv'
  OBVIOUS
<1>1. moved' \in BOOLEAN /\ (moved => moved')
  BY DEF TypewriterInv, TypeNext, BeginStream, Delta, Completed, TypeOn, AddMessage, ClearMessages,
         typeVars
<1> SUFFICES ASSUME ~moved' PROVE TypeInv'
  BY <1>1 DEF TypewriterInv
<1>2. TypeInv /\ ~moved
  BY <1>1 DEF TypewriterInv
<1>3. CASE Completed
  <2>1. UNCHANGED <<messages, target, begun, received, moved>>
    BY <1>3 DEF Completed
  <2>2. /\ streaming' \in [on : BOOLEAN, completed : BOOLEAN, over : BOOLEAN]
        /\ \/ streamIndex' = streamIndex /\ streaming'.on = streaming.on
           \/ streamIndex' = 0 /\ ~streaming'.on
    BY <1>2, <1>3 DEF Completed, Pump, TypeInv
  <2> QED BY <1>2, <2>1, <2>2, StreamLeft
<1>4. CASE TypeOn
  <2>1. UNCHANGED <<messages, target, begun, received, moved>>
    BY <1>4 DEF TypeOn
  <2>2. /\ streaming' \in [on : BOOLEAN, completed : BOOLEAN, over : BOOLEAN]
        /\ \/ streamIndex' = streamIndex /\ streaming'.on = streaming.on
           \/ streamIndex' = 0 /\ ~streaming'.on
    BY <1>2, <1>4 DEF TypeOn, TypeInv
  <2> QED BY <1>2, <2>1, <2>2, StreamLeft
<1>5. CASE ClearMessages
  <2>1. /\ messages' = <<>> /\ streamIndex = 0 /\ streamIndex' = 0
        /\ UNCHANGED <<target, begun, received>>
        /\ streaming' = [streaming EXCEPT !.over = TRUE]
    BY <1>2, <1>5 DEF ClearMessages
  <2>2. messages' \in Seq(Message) /\ DOMAIN messages' = {}
    BY <2>1
  <2>3. /\ streaming' \in [on : BOOLEAN, completed : BOOLEAN, over : BOOLEAN]
        /\ ~streaming'.on
    BY <1>2, <2>1 DEF TypeInv, StreamPlaced
  <2> QED BY <1>2, <2>1, <2>2, <2>3 DEF TypeInv, StreamPlaced, RepliesIntact
<1>6. CASE UNCHANGED typeVars
  BY <1>2, <1>6 DEF typeVars, TypeInv, StreamPlaced, RepliesIntact
<1> QED
  BY <1>2, <1>3, <1>4, <1>5, <1>6, BeginKeeps, DeltaKeeps, AddKeeps DEF TypeNext

(* Every reply stays in a message of its own with all its pieces, unless     *)
(* messages are cleared under a stream, for any number of replies, pieces    *)
(* and other messages (terminal-ui.ts 118-153, 536-572).                     *)
THEOREM RepliesShown == TypeSpec => []RepliesIntact
<1>1. TypewriterInv => RepliesIntact
  BY DEF TypewriterInv, TypeInv, RepliesIntact
<1> QED
  BY TypeInitHolds, TypeStep, <1>1, PTL DEF TypeSpec

-----------------------------------------------------------------------------
(* The judge: what has been applied is as the agent left it, and the rest of *)
(* the submission is in pending.                                             *)
JudgeTypes ==
    LET Trees == [Files -> {"base", "edited", "binary", "absent", "patched", "script"}]
    IN /\ harness \in {"codeden", "humaneval", "terminal", "official"}
       /\ judging \in {"agent", "apply", "grade", "official", "judged"}
       /\ verdict \in {"none", "passed", "failed", "error"}
       /\ tree \in Trees /\ checkTree \in Trees /\ baseline \in Trees
       /\ pending \subseteq Files

BeforeJudge == judging = "agent" => verdict = "none" /\ baseline["verifier"] = "absent"

(* The script of the verifier is there, or what the agent has put there is.  *)
VerifierPlaced ==
    IF "verifier" \in pending THEN tree["verifier"] # "absent"
    ELSE \/ harness = "humaneval" /\ judging = "apply"
         \/ checkTree["verifier"] = VerifierFor(tree["verifier"])

(* From the verification workspace on.                                       *)
Submitted ==
    judging \in {"apply", "grade"} =>
        /\ harness # "official" /\ verdict = "none"
        /\ \A f \in {"program", "newdir"} \ pending : checkTree[f] = tree[f]
        /\ harness = "codeden" => baseline["test"] = "patched"
        /\ judging = "grade" => pending = {}
        /\ VerifierPlaced

JudgeInv ==
    /\ JudgeTypes
    /\ BeforeJudge
    /\ Submitted
    /\ judging = "official" => harness = "official" /\ verdict = "none"
    /\ GradedAsSubmitted

LEMMA JudgeInitHolds == JudgeInit => JudgeInv
BY DEF JudgeInit, JudgeInv, JudgeTypes, BeforeJudge, Submitted, GradedAsSubmitted, Fixtures, Files

LEMMA CreateKeeps ==
  ASSUME JudgeInv, NEW ok \in BOOLEAN, CreateVerification(ok)
  PROVE  JudgeInv'
<1> USE DEF JudgeInv, JudgeTypes, GradedAsSubmitted
<1>1. CASE ok
  <2>1. /\ judging' = "apply" /\ verdict' = "none" /\ harness' = harness /\ tree' = tree
        /\ harness # "official" /\ pending' = ChangedPaths(tree, baseline)
        /\ baseline' = checkTree' /\ checkTree' = WithTests(baseline)
    BY <1>1 DEF CreateVerification, BeforeJudge
  <2>2. JudgeTypes'
    BY <2>1 DEF WithTests, ChangedPaths, Files
  <2>3. \A f \in {"program", "newdir"} \ pending' : checkTree'[f] = tree'[f]
    BY <2>1 DEF WithTests, ChangedPaths, Files
  <2>4. harness = "codeden" => checkTree'["test"] = "patched"
    BY <2>1 DEF WithTests, Files
  <2>5. VerifierPlaced'
    <3>1. baseline["verifier"] = "absent" /\ "verifier" \in Files
      BY DEF BeforeJudge, CreateVerification, Files
    <3>2. "verifier" \in pending' <=> tree["verifier"] # "absent"
      BY <2>1, <3>1 DEF ChangedPaths
    <3>3. checkTree'["verifier"] = IF harness = "terminal" THEN "script" ELSE "absent"
      BY <2>1, <3>1 DEF WithTests
    <3> QED BY <2>1, <3>2, <3>3 DEF VerifierPlaced, VerifierFor
  <2> QED BY <2>1, <2>2, <2>3, <2>4, <2>5 DEF BeforeJudge, Submitted
<1>2. CASE ~ok
  BY <1>2 DEF CreateVerification, Judged, ChangedPaths, BeforeJudge, Submitted
<1> QED BY <1>1, <1>2

LEMMA ApplyKeeps ==
  ASSUME JudgeInv, NEW f \in Files, ApplyDiff(f)
  PROVE  JudgeInv'
<1> USE DEF JudgeInv, JudgeTypes, GradedAsSubmitted, Judged
<1>1. CASE tree[f] = "binary" \/ f = "newdir"
  BY <1>1 DEF ApplyDiff, BeforeJudge, Submitted
<1>2. CASE ~(tree[f] = "binary" \/ f = "newdir")
  <2>1. /\ judging = "apply" /\ UNCHANGED <<harness, tree, baseline, judging, verdict>>
        /\ checkTree' = [checkTree EXCEPT ![f] = tree[f]] /\ pending' = pending \ {f} /\ f \in pending
    BY <1>2 DEF ApplyDiff
  <2>2. \A g \in {"program", "newdir"} \ pending' : checkTree'[g] = tree'[g]
    BY <2>1 DEF Submitted, Files
  <2>3. VerifierPlaced'
    <3>1. CASE f = "verifier"
      BY <2>1, <3>1 DEF Submitted, VerifierPlaced, VerifierFor, Files
    <3>2. CASE f # "verifier"
      BY <2>1, <3>2 DEF Submitted, VerifierPlaced, VerifierFor, Files
    <3> QED BY <3>1, <3>2
  <2> QED BY <2>1, <2>2, <2>3 DEF BeforeJudge, Submitted
<1> QED BY <1>1, <1>2

LEMMA GradeKeeps ==
  ASSUME JudgeInv, NEW command \in {"passes", "fails", "throws"}, GradeAll(command)
  PROVE  JudgeInv'
<1> USE DEF JudgeInv, JudgeTypes
<1>1. /\ judging = "grade" /\ judging' = "judged"
      /\ UNCHANGED <<harness, tree, pending, checkTree, baseline>>
      /\ verdict' \in {"passed", "failed", "error"}
      /\ verdict' = "passed" => ProtectedUnchanged
  BY DEF GradeAll, Judged
<1>2. harness # "official" => \A f \in {"program", "newdir"} : checkTree[f] = tree[f]
  BY <1>1 DEF Submitted
<1>3. harness = "codeden" /\ verdict' = "passed" => checkTree["test"] = "patched"
  BY <1>1 DEF Submitted, ProtectedUnchanged, ChangedPaths, Files
<1>4. harness # "official" => checkTree["verifier"] = VerifierFor(tree["verifier"])
  BY <1>1 DEF Submitted, VerifierPlaced
<1>5. VerifierFor(tree["verifier"])' = VerifierFor(tree["verifier"])
  BY <1>1 DEF VerifierFor
<1> QED BY <1>1, <1>2, <1>3, <1>4, <1>5 DEF BeforeJudge, Submitted, GradedAsSubmitted

LEMMA JudgeStep == JudgeInv /\ [JudgeNext]_judgeVars => JudgeInv'
<1> SUFFICES ASSUME JudgeInv, [JudgeNext]_judgeVars PROVE JudgeInv'
  OBVIOUS
<1> USE DEF JudgeInv, JudgeTypes, BeforeJudge, Submitted, VerifierPlaced, VerifierFor, GradedAsSubmitted
<1>1. ASSUME NEW f \in Files, NEW content \in {"base", "edited", "binary", "absent"},
             AgentEdits(f, content)
      PROVE  JudgeInv'
  BY <1>1 DEF AgentEdits, Files
<1>2. CASE AgentCommits
  BY <1>2 DEF AgentCommits
<1>3. CASE BeginGrading
  BY <1>3 DEF BeginGrading, Files
<1>4. CASE MakePatch
  BY <1>4 DEF MakePatch, Judged
<1>5. ASSUME NEW report, OfficialVerdict(report)
      PROVE  JudgeInv'
  BY <1>5 DEF OfficialVerdict, Judged
<1>6. CASE UNCHANGED judgeVars
  BY <1>6 DEF judgeVars
<1> QED
  BY <1>1, <1>2, <1>3, <1>4, <1>5, <1>6, CreateKeeps, ApplyKeeps, GradeKeeps DEF JudgeNext

(* The graders see the work of the agent and nothing else, the script of the *)
(* verifier apart, for any number of edits and commits of the agent; and a   *)
(* repository case is passed with the tests of the dataset (harness.ts       *)
(* 708-736, unchanged-paths.grader.ts 15-30).                                *)
THEOREM WorkGraded == JudgeSpec => []GradedAsSubmitted
<1>1. JudgeInv => GradedAsSubmitted
  BY DEF JudgeInv
<1> QED
  BY JudgeInitHolds, JudgeStep, <1>1, PTL DEF JudgeSpec

-----------------------------------------------------------------------------
(* The environment: a script that has only its manifest to write has an      *)
(* image, and none is removed under a script.                                *)
BuildInv ==
    /\ image \in BOOLEAN
    /\ script \in [Builders -> {"none", "clone", "fetch", "docker", "manifest"}]
    /\ prepared \in [Builders -> {"checking", "locking", "rechecking", "building", "ready",
                                  "failed", "dead"}]
    /\ \A b \in Builders : script[b] = "manifest" => image

LEMMA BuildInitHolds == BuildInit => BuildInv
BY DEF BuildInit, BuildInv

LEMMA BuildStep == BuildInv /\ [BuildNext]_buildVars => BuildInv'
<1> SUFFICES ASSUME BuildInv, [BuildNext]_buildVars PROVE BuildInv'
  OBVIOUS
<1> USE DEF BuildInv, Enters
<1>1. ASSUME NEW b \in Builders,
             CheckReady(b) \/ LockFree(b) \/ LockTaken(b) \/ CommandBegins(b) \/ JobRecovered(b)
      PROVE  BuildInv'
  BY <1>1 DEF CheckReady, LockFree, LockTaken, CommandBegins, JobRecovered
<1>2. ASSUME NEW b \in Builders, Recheck(b)
      PROVE  BuildInv'
  BY <1>2 DEF Recheck
<1>3. ASSUME NEW b \in Builders, CommandEnds(b)
      PROVE  BuildInv'
  BY <1>3 DEF CommandEnds, Effect, NextStep
<1>4. ASSUME NEW b \in Builders, CommandFails(b) \/ WriteManifest(b)
      PROVE  BuildInv'
  BY <1>4 DEF CommandFails, WriteManifest
<1>5. ASSUME NEW b \in Builders, Cancel(b) \/ WorkerDies(b)
      PROVE  BuildInv'
  BY <1>5 DEF Cancel, WorkerDies, KillScript
<1>6. ASSUME NEW step \in {"clone", "fetch", "docker"}, OrphanEnds(step)
      PROVE  BuildInv'
  BY <1>6 DEF OrphanEnds, Effect
<1>7. CASE ImagePruned
  BY <1>7 DEF ImagePruned
<1>8. CASE UNCHANGED buildVars
  BY <1>8 DEF buildVars
<1> QED
  BY <1>1, <1>2, <1>3, <1>4, <1>5, <1>6, <1>7, <1>8 DEF BuildNext

LEMMA ReadyStep ==
  BuildInv /\ [BuildNext]_buildVars =>
    [\A b \in Builders : prepared'[b] = "ready" /\ prepared[b] # "ready" => image']_buildVars
<1> SUFFICES ASSUME BuildInv, BuildNext, NEW c \in Builders,
                    prepared'[c] = "ready", prepared[c] # "ready"
             PROVE  image'
  OBVIOUS
<1> USE DEF BuildInv, Enters
<1>1. ASSUME NEW b \in Builders, CheckReady(b) \/ Recheck(b) \/ WriteManifest(b)
      PROVE  image'
  BY <1>1 DEF CheckReady, Recheck, WriteManifest, EnvironmentReady
<1>2. ASSUME NEW b \in Builders,
             \/ LockFree(b) \/ LockTaken(b) \/ CommandBegins(b) \/ CommandEnds(b) \/ CommandFails(b)
             \/ Cancel(b) \/ WorkerDies(b) \/ JobRecovered(b)
      PROVE  FALSE
  BY <1>2 DEF LockFree, LockTaken, CommandBegins, CommandEnds, CommandFails, Cancel, WorkerDies,
              JobRecovered
<1>3. ASSUME NEW step \in {"clone", "fetch", "docker"}, OrphanEnds(step)
      PROVE  FALSE
  BY <1>3 DEF OrphanEnds
<1>4. CASE ImagePruned
  BY <1>4 DEF ImagePruned
<1> QED
  BY <1>1, <1>2, <1>3, <1>4 DEF BuildNext

(* A job goes on only with an image that is there, for any number of jobs,   *)
(* deaths, orphaned commands and removals (harness.ts 819-826, 842-853).     *)
THEOREM EnvironmentHasImage == BuildSpec => ReadyHasImage
BY BuildInitHolds, BuildStep, ReadyStep, PTL DEF BuildSpec, ReadyHasImage

-----------------------------------------------------------------------------
(* The workspaces: the queue is made of the trials that wait, each once, and *)
(* a directory exists only at the places that will remove it.                *)
Holding == {"setup", "failing", "ready", "disposing"}

Place == [of : {"agent", "judge"},
          doing : {"asking", "waiting", "setup", "failing", "ready", "disposing", "over"}]

SetupTypes ==
    /\ place \in [SetupTrials -> Place]
    /\ available \in Nat
    /\ waiters \in Seq(SetupTrials)

QueueExact ==
    /\ \A i \in DOMAIN waiters : place[waiters[i]].doing = "waiting"
    /\ \A i, j \in DOMAIN waiters : waiters[i] = waiters[j] => i = j
    /\ \A t \in SetupTrials : place[t].doing = "waiting" => \E i \in DOMAIN waiters : waiters[i] = t

OwnedAt(t) ==
    /\ <<t, "judge">> \in root => place[t].of = "judge" /\ place[t].doing \in Holding
    /\ <<t, "agent">> \in root => place[t].of = "judge" \/ place[t].doing \in Holding
    /\ place[t].doing = "over" => place[t].of = "agent"

SlotsCounted ==
    /\ available + Cardinality(InSetup) = SetupConcurrency
    /\ waiters # <<>> => available = 0

SetupInv ==
    /\ SetupTypes
    /\ QueueExact
    /\ \A t \in SetupTrials : OwnedAt(t)
    /\ SlotsCounted

LEMMA SetupInitHolds == SetupInit => SetupInv
<1> SUFFICES ASSUME SetupInit PROVE SetupInv
  OBVIOUS
<1>1. SetupTypes /\ QueueExact
  BY SetupAssumption DEF SetupInit, SetupTypes, QueueExact, Place
<1>2. InSetup = {}
  BY DEF SetupInit, InSetup
<1>3. SlotsCounted
  BY <1>2, SetupAssumption, FS_EmptySet DEF SetupInit, SlotsCounted
<1> QED BY <1>1, <1>3 DEF SetupInv, OwnedAt, SetupInit

LEMMA SlotsFinite == IsFiniteSet(InSetup) /\ Cardinality(InSetup) \in Nat
BY SetupAssumption, FS_Subset, FS_CardinalityType DEF InSetup

LEMMA TrialMoves ==
  ASSUME SetupTypes, NEW t \in SetupTrials, NEW doing, Goes(t, doing)
  PROVE  place' = [place EXCEPT ![t] = [of |-> place[t].of, doing |-> doing]]
<1>1. place[t] \in Place BY DEF SetupTypes
<1>2. [place[t] EXCEPT !.doing = doing] = [of |-> place[t].of, doing |-> doing]
  BY <1>1 DEF Place
<1> QED BY <1>2 DEF Goes

(* One trial moves between two places that hold a slot, or two that do not,  *)
(* and neither waits.                                                        *)
LEMMA MoveKeeps ==
  ASSUME SetupInv, NEW t \in SetupTrials, NEW p \in Place, place' = [place EXCEPT ![t] = p],
         UNCHANGED <<available, waiters>>,
         p.doing = "waiting" <=> place[t].doing = "waiting",
         p.doing \in {"setup", "failing"} <=> place[t].doing \in {"setup", "failing"},
         \A u \in SetupTrials \ {t}, of \in {"agent", "judge"} : <<u, of>> \in root' => <<u, of>> \in root,
         OwnedAt(t)'
  PROVE  SetupInv'
<1>1. place'[t] = p /\ \A u \in SetupTrials \ {t} : place'[u] = place[u]
  BY DEF SetupInv, SetupTypes
<1>2. SetupTypes'
  BY DEF SetupInv, SetupTypes
<1>3. InSetup' = InSetup
  BY <1>1 DEF InSetup
<1>4. QueueExact'
  <2>1. \A u \in SetupTrials : place'[u].doing = "waiting" <=> place[u].doing = "waiting"
    BY <1>1
  <2>2. \A i \in DOMAIN waiters : waiters[i] \in SetupTrials
    BY DEF SetupInv, SetupTypes
  <2> QED BY <2>1, <2>2 DEF SetupInv, QueueExact
<1>5. \A u \in SetupTrials : OwnedAt(u)'
  BY <1>1 DEF SetupInv, OwnedAt
<1> QED BY <1>2, <1>3, <1>4, <1>5 DEF SetupInv, SlotsCounted

(* A trial that stays, and one that moves from a place without directories.  *)
LEMMA OwnedStays ==
  ASSUME NEW t \in SetupTrials, OwnedAt(t), place'[t] = place[t],
         \A of \in {"agent", "judge"} : <<t, of>> \in root' => <<t, of>> \in root
  PROVE  OwnedAt(t)'
BY DEF OwnedAt

LEMMA OwnedMoves ==
  ASSUME NEW t \in SetupTrials, OwnedAt(t), place[t].doing \notin Holding, place'[t].of = place[t].of,
         place'[t].doing = "over" => place[t].of = "agent",
         \A of \in {"agent", "judge"} : <<t, of>> \in root' => <<t, of>> \in root
  PROVE  OwnedAt(t)'
BY DEF OwnedAt

LEMMA AcquireKeeps ==
  ASSUME SetupInv, NEW t \in SetupTrials, Acquire(t)
  PROVE  SetupInv'
<1>1. place[t] \in Place /\ place[t].doing = "asking" /\ root' = root
  BY DEF Acquire, SetupInv, SetupTypes
<1>2. CASE Aborted(t)
  <2> DEFINE p == [of |-> "agent", doing |-> "over"]
  <2>1. p \in Place BY DEF Place
  <2>2. place' = [place EXCEPT ![t] = p] /\ UNCHANGED <<available, waiters>>
    BY <1>2 DEF Acquire, Over, Aborted
  <2>3. OwnedAt(t)'
    BY <1>1, <1>2, <2>2 DEF OwnedAt, SetupInv, SetupTypes, Holding, Aborted
  <2> QED BY <1>1, <2>1, <2>2, <2>3, MoveKeeps
<1>3. CASE ~Aborted(t) /\ available > 0
  <2> DEFINE p == [of |-> place[t].of, doing |-> "setup"]
  <2>1. p \in Place BY <1>1 DEF Place
  <2>2. /\ place' = [place EXCEPT ![t] = p] /\ available' = available - 1 /\ waiters' = waiters
        /\ waiters = <<>>
    BY <1>3, TrialMoves DEF Acquire, SetupInv, SlotsCounted
  <2>3. place'[t] = p /\ \A u \in SetupTrials \ {t} : place'[u] = place[u]
    BY <2>2 DEF SetupInv, SetupTypes
  <2>4. SetupTypes'
    BY <1>3, <2>1, <2>2 DEF SetupInv, SetupTypes
  <2>5. QueueExact'
    BY <1>1, <2>2, <2>3 DEF SetupInv, QueueExact
  <2>6. t \notin InSetup /\ InSetup' = InSetup \union {t}
    BY <1>1, <2>3 DEF InSetup
  <2>7. Cardinality(InSetup') = Cardinality(InSetup) + 1
    BY <2>6, SlotsFinite, FS_AddElement
  <2>8. SlotsCounted'
    BY <2>2, <2>7, SlotsFinite DEF SetupInv, SlotsCounted, SetupTypes
  <2>9. \A u \in SetupTrials : OwnedAt(u)'
    <3>1. OwnedAt(t)'
      <4>1. place[t].doing \notin Holding /\ OwnedAt(t)
        BY <1>1 DEF SetupInv, Holding
      <4>2. place'[t].of = place[t].of /\ place'[t].doing # "over"
        BY <2>3
      <4> QED BY <1>1, <4>1, <4>2, OwnedMoves
    <3>2. \A u \in SetupTrials \ {t} : OwnedAt(u)'
      BY <1>1, <2>3, OwnedStays DEF SetupInv
    <3> QED BY <3>1, <3>2
  <2> QED BY <2>4, <2>5, <2>8, <2>9 DEF SetupInv
<1>4. CASE ~Aborted(t) /\ ~(available > 0)
  <2> DEFINE p == [of |-> place[t].of, doing |-> "waiting"]
  <2>1. p \in Place BY <1>1 DEF Place
  <2>2. place' = [place EXCEPT ![t] = p] /\ available' = available /\ waiters' = Append(waiters, t)
    BY <1>4, TrialMoves DEF Acquire, SetupInv
  <2>3. place'[t] = p /\ \A u \in SetupTrials \ {t} : place'[u] = place[u]
    BY <2>2 DEF SetupInv, SetupTypes
  <2>4. /\ SetupTypes' /\ available = 0
    BY <1>4, <2>1, <2>2 DEF SetupInv, SetupTypes
  <2>5. /\ DOMAIN waiters' = DOMAIN waiters \union {Len(waiters) + 1}
        /\ \A i \in DOMAIN waiters : waiters'[i] = waiters[i] /\ waiters[i] \in SetupTrials
        /\ waiters'[Len(waiters) + 1] = t
    BY <2>2 DEF SetupInv, SetupTypes
  <2>6. \A i \in DOMAIN waiters : waiters[i] # t
    BY <1>1 DEF SetupInv, QueueExact
  <2>7. QueueExact'
    <3> DEFINE last == Len(waiters) + 1
    <3>1. \A i \in DOMAIN waiters' : i = last \/ i \in DOMAIN waiters
      BY <2>5
    <3>2. waiters'[last] = t /\ last \in DOMAIN waiters'
      BY <2>5
    <3> HIDE DEF last
    <3> QED BY <1>1, <2>3, <2>5, <2>6, <3>1, <3>2 DEF SetupInv, QueueExact
  <2>8. InSetup' = InSetup
    BY <1>1, <2>3 DEF InSetup
  <2>9. \A u \in SetupTrials : OwnedAt(u)'
    <3>1. OwnedAt(t)'
      <4>1. place[t].doing \notin Holding /\ OwnedAt(t)
        BY <1>1 DEF SetupInv, Holding
      <4>2. place'[t].of = place[t].of /\ place'[t].doing # "over"
        BY <2>3
      <4> QED BY <1>1, <4>1, <4>2, OwnedMoves
    <3>2. \A u \in SetupTrials \ {t} : OwnedAt(u)'
      BY <1>1, <2>3, OwnedStays DEF SetupInv
    <3> QED BY <3>1, <3>2
  <2> QED BY <2>2, <2>4, <2>7, <2>8, <2>9 DEF SetupInv, SlotsCounted
<1> QED BY <1>2, <1>3, <1>4

(* One of a queue goes, and the others keep their order.                     *)
LEMMA WithoutOne ==
  ASSUME NEW S, NEW q \in Seq(S), NEW k \in DOMAIN q
  PROVE  /\ RemoveAt(q, k) \in Seq(S)
         /\ DOMAIN RemoveAt(q, k) = 1 .. Len(q) - 1
         /\ \A i \in 1 .. Len(q) - 1 : RemoveAt(q, k)[i] = IF i < k THEN q[i] ELSE q[i + 1]
<1>1. k \in 1 .. Len(q) /\ Len(q) \in Nat
  OBVIOUS
<1> DEFINE before == SubSeq(q, 1, k - 1)
           after == SubSeq(q, k + 1, Len(q))
<1>2. /\ before \in Seq(S) /\ Len(before) = k - 1
      /\ \A i \in 1 .. k - 1 : before[i] = q[i]
  BY <1>1
<1>3. /\ after \in Seq(S) /\ Len(after) = Len(q) - k
      /\ \A i \in 1 .. Len(q) - k : after[i] = q[k + i]
  BY <1>1
<1> HIDE DEF before, after
<1>4. /\ before \o after \in Seq(S) /\ Len(before \o after) = Len(q) - 1
      /\ \A i \in 1 .. Len(q) - 1 : (before \o after)[i] = IF i < k THEN q[i] ELSE q[i + 1]
  <2>1. /\ before \o after \in Seq(S) /\ Len(before \o after) = Len(q) - 1
        /\ \A i \in 1 .. Len(q) - 1 :
              (before \o after)[i] = IF i <= k - 1 THEN before[i] ELSE after[i - (k - 1)]
    BY <1>1, <1>2, <1>3
  <2>2. ASSUME NEW i \in 1 .. Len(q) - 1
        PROVE  (before \o after)[i] = IF i < k THEN q[i] ELSE q[i + 1]
    <3>1. CASE i < k
      BY <1>1, <1>2, <2>1, <3>1
    <3>2. CASE ~(i < k)
      <4>1. i - (k - 1) \in 1 .. Len(q) - k /\ k + (i - (k - 1)) = i + 1 /\ ~(i <= k - 1)
        BY <1>1, <3>2
      <4> QED BY <1>3, <2>1, <3>2, <4>1
    <3> QED BY <3>1, <3>2
  <2> QED BY <2>1, <2>2
<1>5. RemoveAt(q, k) = before \o after
  BY DEF RemoveAt, before, after
<1>6. DOMAIN (before \o after) = 1 .. Len(q) - 1
  BY <1>4
<1> QED BY <1>4, <1>5, <1>6

LEMMA AbortKeeps ==
  ASSUME SetupInv, NEW t \in SetupTrials, AbortTrial(t)
  PROVE  SetupInv'
<1>1. CASE UNCHANGED <<place, waiters>>
  BY <1>1 DEF AbortTrial, SetupInv, SetupTypes, QueueExact, OwnedAt, SlotsCounted, InSetup
<1>2. CASE ~UNCHANGED <<place, waiters>>
  <2> DEFINE p == [of |-> "agent", doing |-> "over"]
  <2>1. PICK k \in DOMAIN waiters : waiters[k] = t /\ waiters' = RemoveAt(waiters, k)
    BY <1>2 DEF AbortTrial
  <2>2. place[t].of = "agent" /\ place[t].doing = "waiting" /\ root' = root
    BY <1>2 DEF AbortTrial, At, SetupInv, SetupTypes, Place
  <2>3. place' = [place EXCEPT ![t] = p] /\ available' = available /\ p \in Place
    BY <1>2, <2>2 DEF AbortTrial, Over, Place
  <2>4. place'[t] = p /\ \A u \in SetupTrials \ {t} : place'[u] = place[u]
    BY <2>3 DEF SetupInv, SetupTypes
  <2>5. /\ waiters' \in Seq(SetupTrials)
        /\ DOMAIN waiters' = 1 .. Len(waiters) - 1
        /\ \A i \in 1 .. Len(waiters) - 1 : waiters'[i] = IF i < k THEN waiters[i] ELSE waiters[i + 1]
    BY <2>1, WithoutOne DEF SetupInv, SetupTypes
  <2>6. Len(waiters) \in Nat /\ DOMAIN waiters = 1 .. Len(waiters) /\ waiters # <<>>
    BY <2>1 DEF SetupInv, SetupTypes
  <2>7. SetupTypes'
    BY <2>3, <2>5 DEF SetupInv, SetupTypes
  <2>8. \A i \in DOMAIN waiters' : waiters'[i] # t /\ place[waiters'[i]].doing = "waiting"
                                   /\ waiters'[i] \in SetupTrials
    BY <2>1, <2>5, <2>6 DEF SetupInv, QueueExact, SetupTypes
  <2>9. \A i, j \in DOMAIN waiters' : waiters'[i] = waiters'[j] => i = j
    <3> DEFINE pos(i) == IF i < k THEN i ELSE i + 1
    <3>1. \A i \in DOMAIN waiters' : pos(i) \in DOMAIN waiters /\ waiters'[i] = waiters[pos(i)]
      BY <2>1, <2>5, <2>6
    <3>2. \A i, j \in DOMAIN waiters' : pos(i) = pos(j) => i = j
      BY <2>1, <2>5, <2>6
    <3> HIDE DEF pos
    <3> QED BY <3>1, <3>2 DEF SetupInv, QueueExact
  <2>10. ASSUME NEW u \in SetupTrials, place'[u].doing = "waiting"
         PROVE  \E i \in DOMAIN waiters' : waiters'[i] = u
    <3>1. u # t /\ place[u].doing = "waiting"
      BY <2>4, <2>10
    <3>2. PICK j \in DOMAIN waiters : waiters[j] = u
      BY <3>1 DEF SetupInv, QueueExact
    <3>3. CASE j < k
      BY <2>1, <2>5, <2>6, <3>2, <3>3
    <3>4. CASE j > k
      <4>1. j - 1 \in 1 .. Len(waiters) - 1 /\ ~(j - 1 < k) /\ (j - 1) + 1 = j
        BY <2>1, <2>6, <3>2, <3>4
      <4> QED BY <2>5, <3>2, <4>1
    <3> QED BY <2>1, <2>6, <3>1, <3>2, <3>3, <3>4
  <2>11. QueueExact'
    BY <2>4, <2>8, <2>9, <2>10 DEF QueueExact
  <2>12. InSetup' = InSetup
    BY <2>2, <2>4 DEF InSetup
  <2>13. \A u \in SetupTrials : OwnedAt(u)'
    <3>1. OwnedAt(t)'
      <4>1. place[t].doing \notin Holding /\ OwnedAt(t)
        BY <2>2 DEF SetupInv, Holding
      <4>2. place'[t].of = place[t].of /\ place[t].of = "agent"
        BY <2>2, <2>4
      <4> QED BY <2>2, <4>1, <4>2, OwnedMoves
    <3>2. \A u \in SetupTrials \ {t} : OwnedAt(u)'
      BY <2>2, <2>4, OwnedStays DEF SetupInv
    <3> QED BY <3>1, <3>2
  <2> QED BY <2>3, <2>6, <2>7, <2>11, <2>12, <2>13 DEF SetupInv, SlotsCounted
<1> QED BY <1>1, <1>2

(* The slot of a trial goes to the first that waits, or is free again.       *)
LEMMA ReleaseKeeps ==
  ASSUME SetupInv, NEW t \in SetupTrials, NEW p \in Place, Release(t, p), t \in InSetup,
         p.doing \notin {"setup", "failing", "waiting"},
         \A u \in SetupTrials \ {t}, of \in {"agent", "judge"} : <<u, of>> \in root' => <<u, of>> \in root,
         /\ <<t, "judge">> \in root' => p.of = "judge" /\ p.doing \in Holding
         /\ <<t, "agent">> \in root' => p.of = "judge" \/ p.doing \in Holding
         /\ p.doing = "over" => p.of = "agent"
  PROVE  SetupInv'
<1>0. place[t].doing \in {"setup", "failing"} /\ waiters \in Seq(SetupTrials)
  BY DEF InSetup, SetupInv, SetupTypes
<1>1. Cardinality(InSetup \ {t}) = Cardinality(InSetup) - 1 /\ IsFiniteSet(InSetup \ {t})
  BY SlotsFinite, FS_RemoveElement
<1>2. CASE waiters = <<>>
  <2>1. available' = available + 1 /\ place' = [place EXCEPT ![t] = p] /\ waiters' = waiters
    BY <1>2 DEF Release
  <2>2. place'[t] = p /\ \A u \in SetupTrials \ {t} : place'[u] = place[u]
    BY <2>1 DEF SetupInv, SetupTypes
  <2>3. SetupTypes' /\ QueueExact'
    BY <1>0, <1>2, <2>1, <2>2 DEF SetupInv, SetupTypes, QueueExact
  <2>4. InSetup' = InSetup \ {t}
    BY <2>2 DEF InSetup
  <2>5. SlotsCounted'
    BY <1>1, <1>2, <2>1, <2>4, SlotsFinite DEF SetupInv, SlotsCounted, SetupTypes
  <2>6. \A u \in SetupTrials : OwnedAt(u)'
    BY <2>2 DEF SetupInv, OwnedAt
  <2> QED BY <2>3, <2>5, <2>6 DEF SetupInv
<1>3. CASE waiters # <<>>
  <2>0. PICK w \in SetupTrials : w = Head(waiters)
    BY <1>0, <1>3
  <2> DEFINE q == [of |-> place[w].of, doing |-> "setup"]
  <2>1. /\ w = waiters[1] /\ 1 \in DOMAIN waiters /\ Len(waiters) \in Nat \ {0}
        /\ Tail(waiters) \in Seq(SetupTrials) /\ DOMAIN Tail(waiters) = 1 .. Len(waiters) - 1
        /\ \A i \in 1 .. Len(waiters) - 1 : Tail(waiters)[i] = waiters[i + 1]
        /\ DOMAIN waiters = 1 .. Len(waiters)
    BY <1>0, <1>3, <2>0
  <2>2. place[w].doing = "waiting" /\ w # t /\ place[w] \in Place /\ q \in Place
    BY <1>0, <2>1 DEF SetupInv, QueueExact, SetupTypes, Place
  <2>3. place' = [[place EXCEPT ![t] = p] EXCEPT ![w] = q]
    <3>1. [place[w] EXCEPT !.doing = "setup"] = q
      BY <2>2 DEF Place
    <3>2. [place EXCEPT ![t] = p][w] = place[w]
      BY <2>1, <2>2 DEF SetupInv, SetupTypes
    <3>3. place' = [[place EXCEPT ![t] = p] EXCEPT ![w] = [[place EXCEPT ![t] = p][w] EXCEPT !.doing = "setup"]]
      BY <1>3, <2>0 DEF Release
    <3> QED BY <3>1, <3>2, <3>3
  <2>4. waiters' = Tail(waiters) /\ available' = available
    BY <1>3 DEF Release
  <2>5. place'[t] = p /\ place'[w] = q /\ \A u \in SetupTrials \ {t, w} : place'[u] = place[u]
    BY <2>1, <2>2, <2>3 DEF SetupInv, SetupTypes
  <2>6. SetupTypes'
    <3>1. place' \in [SetupTrials -> Place]
      BY <2>1, <2>2, <2>3 DEF SetupInv, SetupTypes
    <3> QED BY <2>1, <2>4, <3>1 DEF SetupInv, SetupTypes
  <2> HIDE DEF q
  <2>7. \A i \in DOMAIN waiters' : /\ waiters'[i] \in SetupTrials \ {t, w}
                                   /\ place[waiters'[i]].doing = "waiting"
    BY <1>0, <2>1, <2>4 DEF SetupInv, QueueExact, SetupTypes
  <2>8. \A i, j \in DOMAIN waiters' : waiters'[i] = waiters'[j] => i = j
    BY <2>1, <2>4 DEF SetupInv, QueueExact
  <2>9. ASSUME NEW u \in SetupTrials, place'[u].doing = "waiting"
        PROVE  \E i \in DOMAIN waiters' : waiters'[i] = u
    <3>1. u \notin {t, w} /\ place[u].doing = "waiting"
      BY <2>5, <2>9 DEF q
    <3>2. PICK j \in DOMAIN waiters : waiters[j] = u
      BY <3>1 DEF SetupInv, QueueExact
    <3>3. j - 1 \in 1 .. Len(waiters) - 1 /\ (j - 1) + 1 = j
      BY <2>1, <3>1, <3>2
    <3> QED BY <2>1, <2>4, <3>2, <3>3
  <2>10. QueueExact'
    BY <2>5, <2>7, <2>8, <2>9 DEF QueueExact
  <2>11. InSetup' = (InSetup \ {t}) \union {w} /\ w \notin InSetup \ {t}
    BY <2>1, <2>2, <2>5 DEF InSetup, q
  <2>12. Cardinality(InSetup') = Cardinality(InSetup)
    <3>1. Cardinality((InSetup \ {t}) \union {w}) = Cardinality(InSetup \ {t}) + 1
      BY <1>1, <2>11, FS_AddElement
    <3> QED BY <1>1, <2>11, <3>1, SlotsFinite
  <2>13. SlotsCounted'
    BY <1>3, <2>4, <2>12 DEF SetupInv, SlotsCounted
  <2>14. \A u \in SetupTrials : OwnedAt(u)'
    <3>1. OwnedAt(t)'
      BY <2>5 DEF OwnedAt
    <3>2. OwnedAt(w)'
      <4>1. place[w].doing \notin Holding /\ OwnedAt(w)
        BY <2>1, <2>2 DEF SetupInv, Holding
      <4>2. place'[w].of = place[w].of /\ place'[w].doing # "over"
        BY <2>5 DEF q
      <4> QED BY <2>1, <2>2, <4>1, <4>2, OwnedMoves
    <3>3. \A u \in SetupTrials \ {t, w} : OwnedAt(u)'
      BY <2>5, OwnedStays DEF SetupInv
    <3> QED BY <3>1, <3>2, <3>3
  <2> QED BY <2>6, <2>10, <2>13, <2>14 DEF SetupInv
<1> QED BY <1>2, <1>3

LEMMA SetupStep == SetupInv /\ [SetupNext]_setupVars => SetupInv'
<1> SUFFICES ASSUME SetupInv, [SetupNext]_setupVars PROVE SetupInv'
  OBVIOUS
<1>0. \A t \in SetupTrials : place[t] \in Place /\ OwnedAt(t)
  BY DEF SetupInv, SetupTypes
<1>1. ASSUME NEW t \in SetupTrials, MakeRoot(t)
      PROVE  SetupInv'
  <2>1. CASE Aborted(t)
    <3> DEFINE p == [of |-> place[t].of, doing |-> "failing"]
    <3>1. place' = [place EXCEPT ![t] = p] /\ p \in Place /\ root' = root
      BY <1>0, <1>1, <2>1, TrialMoves DEF MakeRoot, SetupInv, Place
    <3>2. OwnedAt(t)'
      BY <1>0, <1>1, <3>1 DEF OwnedAt, MakeRoot, Holding, SetupInv, SetupTypes
    <3> QED BY <1>1, <3>1, <3>2, MoveKeeps DEF MakeRoot
  <2>2. CASE ~Aborted(t)
    <3>1. root' = root \union {<<t, place[t].of>>} /\ place' = place
      BY <1>1, <2>2 DEF MakeRoot
    <3>2. place' = [place EXCEPT ![t] = place[t]]
      BY <3>1 DEF SetupInv, SetupTypes
    <3>3. OwnedAt(t)'
      BY <1>0, <1>1, <3>1 DEF OwnedAt, MakeRoot, Holding
    <3> QED BY <1>0, <1>1, <3>1, <3>2, <3>3, MoveKeeps DEF MakeRoot
  <2> QED BY <2>1, <2>2
<1>2. ASSUME NEW t \in SetupTrials, NEW ok \in BOOLEAN, SetupCommand(t, ok)
      PROVE  SetupInv'
  <2>1. CASE Goes(t, "failing")
    <3> DEFINE p == [of |-> place[t].of, doing |-> "failing"]
    <3>1. place' = [place EXCEPT ![t] = p] /\ p \in Place /\ root' = root
      BY <1>0, <1>2, <2>1, TrialMoves DEF SetupCommand, SetupInv, Place
    <3>2. OwnedAt(t)'
      BY <1>0, <1>2, <3>1 DEF OwnedAt, SetupCommand, Holding, SetupInv, SetupTypes
    <3> QED BY <1>2, <3>1, <3>2, MoveKeeps DEF SetupCommand
  <2>2. CASE place' = place
    BY <1>2, <2>2 DEF SetupCommand, SetupInv, SetupTypes, QueueExact, OwnedAt, SlotsCounted, InSetup
  <2> QED BY <1>2, <2>1, <2>2 DEF SetupCommand
<1>3. ASSUME NEW t \in SetupTrials, SetupReady(t)
      PROVE  SetupInv'
  <2> DEFINE p == [of |-> place[t].of, doing |-> "ready"]
  <2>1. [place[t] EXCEPT !.doing = "ready"] = p /\ p \in Place
    BY <1>0 DEF Place
  <2>2. Release(t, p) /\ t \in InSetup /\ root' = root
    BY <1>3, <2>1 DEF SetupReady, InSetup
  <2>3. /\ <<t, "judge">> \in root' => p.of = "judge" /\ p.doing \in Holding
        /\ <<t, "agent">> \in root' => p.of = "judge" \/ p.doing \in Holding
    BY <1>0, <2>2 DEF OwnedAt, Holding
  <2> QED BY <2>1, <2>2, <2>3, ReleaseKeeps
<1>4. ASSUME NEW t \in SetupTrials, SetupFails(t)
      PROVE  SetupInv'
  <2> DEFINE p == IF place[t].of = "judge" THEN [of |-> "agent", doing |-> "disposing"]
                  ELSE [of |-> "agent", doing |-> "over"]
  <2>1. Release(t, p) /\ t \in InSetup /\ p \in Place /\ root' = root \ {<<t, place[t].of>>}
    BY <1>4 DEF SetupFails, InSetup, Place
  <2>2. /\ <<t, "judge">> \in root' => p.of = "judge" /\ p.doing \in Holding
        /\ <<t, "agent">> \in root' => p.of = "judge" \/ p.doing \in Holding
    BY <1>0, <2>1 DEF OwnedAt, Holding, Place
  <2>3. p.doing \notin {"setup", "failing", "waiting"} /\ (p.doing = "over" => p.of = "agent")
    OBVIOUS
  <2> QED BY <2>1, <2>2, <2>3, ReleaseKeeps
<1>5. ASSUME NEW t \in SetupTrials, Submit(t)
      PROVE  SetupInv'
  <2> DEFINE p == [of |-> "judge", doing |-> "asking"]
  <2>1. place' = [place EXCEPT ![t] = p] /\ p \in Place /\ root' = root /\ UNCHANGED <<available, waiters>>
    BY <1>5 DEF Submit, Place
  <2>2. place[t].of = "agent" /\ place[t].doing = "ready"
    BY <1>0, <1>5 DEF Submit, At, Place
  <2>3. OwnedAt(t)'
    BY <1>0, <2>1, <2>2 DEF OwnedAt, SetupInv, SetupTypes
  <2> QED BY <2>1, <2>2, <2>3, MoveKeeps
<1>6. ASSUME NEW t \in SetupTrials, WorkspaceLeft(t)
      PROVE  SetupInv'
  <2> DEFINE p == [of |-> place[t].of, doing |-> "disposing"]
  <2>1. place' = [place EXCEPT ![t] = p] /\ p \in Place /\ root' = root /\ UNCHANGED <<available, waiters>>
    BY <1>0, <1>6, TrialMoves DEF WorkspaceLeft, SetupInv, Place
  <2>2. OwnedAt(t)'
    BY <1>0, <1>6, <2>1 DEF OwnedAt, WorkspaceLeft, Holding, SetupInv, SetupTypes
  <2> QED BY <1>6, <2>1, <2>2, MoveKeeps DEF WorkspaceLeft
<1>7. ASSUME NEW t \in SetupTrials, Dispose(t)
      PROVE  SetupInv'
  <2> DEFINE p == IF place[t].of = "judge" THEN [of |-> "agent", doing |-> "disposing"]
                  ELSE [of |-> "agent", doing |-> "over"]
  <2>1. /\ place' = [place EXCEPT ![t] = p] /\ p \in Place /\ root' = root \ {<<t, place[t].of>>}
        /\ UNCHANGED <<available, waiters>>
    BY <1>7 DEF Dispose, Over, Place
  <2>2. OwnedAt(t)'
    BY <1>0, <1>7, <2>1 DEF OwnedAt, Dispose, Holding, SetupInv, SetupTypes, Place
  <2> QED BY <1>7, <2>1, <2>2, MoveKeeps DEF Dispose
<1>8. CASE UNCHANGED setupVars
  BY <1>8 DEF setupVars, SetupInv, SetupTypes, QueueExact, OwnedAt, SlotsCounted, InSetup
<1> QED
  BY <1>1, <1>2, <1>3, <1>4, <1>5, <1>6, <1>7, <1>8, AcquireKeeps, AbortKeeps DEF SetupNext

(* No slot is lost or given out twice and no directory is left behind, for   *)
(* any number of trials, slots and commands, whenever they are aborted or    *)
(* fail (repository-workspace.factory.ts 76-153, 191-233).                   *)
THEOREM SlotsAndRoots == SetupSpec => []SlotsAndRootsExact
<1>1. SetupInv => SlotsAndRootsExact
  BY DEF SetupInv, SlotsCounted, OwnedAt, Holding, SlotsAndRootsExact
<1> QED
  BY SetupInitHolds, SetupStep, <1>1, PTL DEF SetupSpec

-----------------------------------------------------------------------------
(* The review: a request writes a status of higher rank than the one it has  *)
(* read, and only if that is still there.                                    *)
ReviewInv ==
    /\ upload \in [Uploads -> {"none", "received", "reviewing", "drafted", "discarded"}]
    /\ \A r \in Reviewers :
          request[r].op = "review" =>
              NextTraceStatus(request[r].saw, request[r].action) # "none"

LEMMA ReviewInitHolds == ReviewInit => ReviewInv
BY DEF ReviewInit, ReviewInv, Idle

(* A request that is answered or lost is not one any more.                   *)
LEMMA AnsweredKeeps ==
  ASSUME ReviewInv, NEW q \in Reviewers, Answered(q),
         upload' \in [Uploads -> {"none", "received", "reviewing", "drafted", "discarded"}]
  PROVE  ReviewInv'
BY DEF ReviewInv, Answered, Idle

LEMMA ReviewStep == ReviewInv /\ [ReviewNext]_reviewVars => ReviewInv'
<1> SUFFICES ASSUME ReviewInv, [ReviewNext]_reviewVars PROVE ReviewInv'
  OBVIOUS
<1>1. ASSUME NEW t \in Uploads, Receive(t)
      PROVE  ReviewInv'
  BY <1>1 DEF Receive, ReviewInv
<1>2. ASSUME NEW r \in Reviewers, NEW t \in Uploads, NEW action \in {"start", "discard"},
             ReviewReads(r, t, action)
      PROVE  ReviewInv'
  BY <1>2 DEF ReviewReads, Asks, ReviewInv
<1>3. ASSUME NEW r \in Reviewers, NEW t \in Uploads, DraftReads(r, t)
      PROVE  ReviewInv'
  BY <1>3 DEF DraftReads, Asks, ReviewInv
<1>4. ASSUME NEW r \in Reviewers, NEW d \in Drafts, DraftWrites(r, d)
      PROVE  ReviewInv'
  BY <1>4, AnsweredKeeps DEF DraftWrites, ReviewInv
<1>5. ASSUME NEW r \in Reviewers, NEW d \in Drafts, PublishReadsDraft(r, d)
      PROVE  ReviewInv'
  BY <1>5 DEF PublishReadsDraft, Asks, ReviewInv
<1>6. ASSUME NEW r \in Reviewers, ReviewWrites(r)
      PROVE  ReviewInv'
  <2>1. upload' \in [Uploads -> {"none", "received", "reviewing", "drafted", "discarded"}]
    BY <1>6 DEF ReviewWrites, ReviewInv, NextTraceStatus
  <2> QED BY <1>6, <2>1, AnsweredKeeps DEF ReviewWrites
<1>7. ASSUME NEW r \in Reviewers, PublishReadsPublished(r) \/ PublishReadsVersion(r)
      PROVE  ReviewInv'
  <2>1. CASE PublishReadsPublished(r)
    <3>1. PICK cases : request' = [request EXCEPT ![r] =
                          [op |-> "collected", draft |-> request[r].draft, cases |-> cases]]
      BY <2>1, Zenon DEF PublishReadsPublished
    <3> QED BY <2>1, <3>1 DEF PublishReadsPublished, ReviewInv
  <2>2. CASE PublishReadsVersion(r)
    BY <2>2 DEF PublishReadsVersion, ReviewInv
  <2> QED BY <1>7, <2>1, <2>2
<1>8. ASSUME NEW r \in Reviewers, PublishCommits(r)
      PROVE  ReviewInv'
  BY <1>8, AnsweredKeeps DEF PublishCommits, ReviewInv
<1>9. ASSUME NEW r \in Reviewers, RequestLost(r)
      PROVE  ReviewInv'
  BY <1>9, AnsweredKeeps DEF RequestLost, ReviewInv
<1>10. CASE \E fails \in BOOLEAN : CatalogReads(fails)
  BY <1>10 DEF CatalogReads, ReviewInv
<1>11. CASE PlatformRestarts
  BY <1>11 DEF PlatformRestarts, ReviewInv, Idle
<1>12. CASE UNCHANGED reviewVars
  BY <1>12 DEF reviewVars, ReviewInv
<1> QED
  BY <1>1, <1>2, <1>3, <1>4, <1>5, <1>6, <1>7, <1>8, <1>9, <1>10, <1>11, <1>12 DEF ReviewNext

LEMMA RankStep ==
  ReviewInv /\ [ReviewNext]_reviewVars =>
    [\A t \in Uploads : upload'[t] # upload[t] => Rank(upload[t]) < Rank(upload'[t])]_reviewVars
<1> SUFFICES ASSUME ReviewInv, ReviewNext, NEW u \in Uploads, upload'[u] # upload[u]
             PROVE  Rank(upload[u]) < Rank(upload'[u])
  OBVIOUS
<1> USE DEF ReviewInv, Rank
<1>1. ASSUME NEW t \in Uploads, Receive(t)
      PROVE  Rank(upload[u]) < Rank(upload'[u])
  BY <1>1 DEF Receive
<1>2. ASSUME NEW r \in Reviewers, NEW d \in Drafts, DraftWrites(r, d)
      PROVE  Rank(upload[u]) < Rank(upload'[u])
  BY <1>2 DEF DraftWrites
<1>3. ASSUME NEW r \in Reviewers, ReviewWrites(r)
      PROVE  Rank(upload[u]) < Rank(upload'[u])
  BY <1>3 DEF ReviewWrites, NextTraceStatus
<1>4. ASSUME NEW r \in Reviewers, PublishCommits(r)
      PROVE  Rank(upload[u]) < Rank(upload'[u])
  BY <1>4 DEF PublishCommits
<1>5. CASE UNCHANGED upload
  BY <1>5
<1>6. \/ \E t \in Uploads : Receive(t)
      \/ \E r \in Reviewers, d \in Drafts : DraftWrites(r, d)
      \/ \E r \in Reviewers : ReviewWrites(r) \/ PublishCommits(r)
      \/ UNCHANGED upload
  BY DEF ReviewNext, ReviewReads, DraftReads, PublishReadsDraft, PublishReadsPublished, Asks,
         PublishReadsVersion, RequestLost, CatalogReads, PlatformRestarts
<1> QED
  BY <1>1, <1>2, <1>3, <1>4, <1>5, <1>6

(* A decision about a trace is never taken back, for any number of traces,   *)
(* drafts and requests at the same time (trace-store.ts 64-76, 134-153,      *)
(* 166-186, 232-236).                                                        *)
THEOREM DecisionsKept == ReviewSpec => DecisionsStand
BY ReviewInitHolds, ReviewStep, RankStep, PTL DEF ReviewSpec, DecisionsStand

-----------------------------------------------------------------------------
(* The live events: the numbers of appends under way and to come are above   *)
(* everything in the table, and the server has sent all of the table up to   *)
(* its cursor that the page has not seen.                                    *)
Ascending(s) == \A i, j \in DOMAIN s : i < j => s[i] < s[j]

Connection(s) == s = [open |-> s.open, cursor |-> s.cursor] /\ s.cursor \in Nat \union {-1}

EventTypes ==
    /\ sequence \in Nat /\ lastId \in Nat \union {-1}
    /\ rows \subseteq 0 .. sequence - 1
    /\ Connection(stream)
    /\ wire \in Seq(Nat)
    /\ appending \subseteq {sequence - 1} \ {-1}

SentInOrder ==
    /\ lastId < sequence /\ stream.cursor < sequence
    /\ \A e \in appending : \A r \in rows \union {lastId, stream.cursor} : r < e
    /\ stream.open => lastId <= stream.cursor
    /\ stream.open => Ascending(wire)
    /\ stream.open => \A i \in DOMAIN wire : lastId < wire[i] /\ wire[i] <= stream.cursor
    /\ stream.open => \A e \in rows : e <= stream.cursor => e \in shown \/ \E i \in DOMAIN wire : wire[i] = e

EventsInv == EventTypes /\ SentInOrder /\ NothingSkipped

LEMMA LeastNumber ==
  ASSUME NEW T \in SUBSET Nat, T # {}
  PROVE  \E n \in T : \A m \in T : n <= m
<1>1. IsWellFoundedOn(OpToRel(<, Nat), Nat)
  BY NatLessThanWellFounded
<1>2. PICK n \in T : \A m \in T : <<m, n>> \notin OpToRel(<, Nat)
  BY <1>1, WFMin
<1>3. ASSUME NEW m \in T, m < n
      PROVE  FALSE
  <2>1. <<m, n>> \in Nat \X Nat /\ <<m, n>>[1] < <<m, n>>[2]
    BY <1>3
  <2> QED BY <1>2, <2>1 DEF OpToRel
<1> QED BY <1>3

(* The numbers below a bound can be put in order: by induction over the      *)
(* bound.                                                                    *)
Sorts(s, S) == s \in [1 .. Cardinality(S) -> S] /\ Ascending(s)

LEMMA OrderAdds ==
  ASSUME NEW n \in Nat, NEW S \in SUBSET (0 .. n - 1), NEW s, Sorts(s, S)
  PROVE  \E r : Sorts(r, S \union {n})
<1> DEFINE m == Cardinality(S)
           r == [i \in 1 .. m + 1 |-> IF i <= m THEN s[i] ELSE n]
<1>1. IsFiniteSet(S) /\ m \in Nat /\ Cardinality(S \union {n}) = m + 1
  <2>1. IsFiniteSet(0 .. n - 1) BY FS_Interval
  <2>2. IsFiniteSet(S) BY <2>1, FS_Subset
  <2>3. n \notin S OBVIOUS
  <2> QED BY <2>2, <2>3, FS_CardinalityType, FS_AddElement
<1>2. s \in [1 .. m -> S] /\ \A i, j \in 1 .. m : i < j => s[i] < s[j]
  BY DEF Sorts, Ascending
<1> HIDE DEF m
<1>3. r \in [1 .. m + 1 -> S \union {n}]
  BY <1>1, <1>2
<1>4. ASSUME NEW i \in 1 .. m + 1, NEW j \in 1 .. m + 1, i < j
      PROVE  r[i] < r[j]
  <2>1. i \in 1 .. m /\ r[i] = s[i] /\ s[i] \in S
    BY <1>1, <1>2, <1>4
  <2>2. CASE j <= m
    BY <1>1, <1>2, <1>4, <2>1, <2>2
  <2>3. CASE ~(j <= m)
    <3>1. r[j] = n
      BY <2>3
    <3>2. s[i] < n
      <4>1. \A e \in S : e \in 0 .. n - 1 OBVIOUS
      <4>2. s[i] \in 0 .. n - 1 BY <2>1, <4>1
      <4> QED BY <4>2
    <3> QED BY <2>1, <3>1, <3>2
  <2> QED BY <2>2, <2>3
<1>5. Sorts(r, S \union {n})
  BY <1>1, <1>3, <1>4 DEF Sorts, Ascending
<1> QED BY <1>5

LEMMA OrderExists ==
  ASSUME NEW n \in Nat, NEW S \in SUBSET (0 .. n - 1)
  PROVE  \E s : Sorts(s, S)
<1> DEFINE T == {k \in Nat : \E R \in SUBSET (0 .. k - 1) : ~ \E s : Sorts(s, R)}
<1> SUFFICES ASSUME T # {} PROVE FALSE
  OBVIOUS
<1>1. PICK k \in T : \A j \in T : k <= j
  BY LeastNumber
<1>2. PICK R \in SUBSET (0 .. k - 1) : ~ \E s : Sorts(s, R)
  BY <1>1
<1>3. k # 0
  <2> SUFFICES ASSUME k = 0 PROVE FALSE
    OBVIOUS
  <2>1. R = {}
    <3>1. 0 .. 0 - 1 = {} OBVIOUS
    <3> QED BY <3>1
  <2>2. Cardinality(R) = 0
    BY <2>1, FS_EmptySet
  <2>3. Sorts(<<>>, R)
    BY <2>1, <2>2 DEF Sorts, Ascending
  <2> QED BY <1>2, <2>3
<1>4. k - 1 \in Nat /\ k - 1 \notin T
  BY <1>1, <1>3
<1>5. PICK s : Sorts(s, R \ {k - 1})
  <2>1. R \ {k - 1} \in SUBSET (0 .. (k - 1) - 1)
    BY <1>1, <1>3
  <2> QED BY <1>4, <2>1
<1>6. CASE k - 1 \in R
  <2>1. R \ {k - 1} \in SUBSET (0 .. (k - 1) - 1)
    BY <1>1, <1>3
  <2>2. \E r : Sorts(r, (R \ {k - 1}) \union {k - 1})
    BY <1>4, <1>5, <2>1, OrderAdds
  <2>3. (R \ {k - 1}) \union {k - 1} = R
    BY <1>6
  <2> QED BY <1>2, <2>2, <2>3
<1>7. CASE k - 1 \notin R
  <2>1. R \ {k - 1} = R
    BY <1>7
  <2> QED BY <1>2, <1>5, <2>1
<1> QED BY <1>6, <1>7

(* ORDER BY gives every row once, in ascending order.                        *)
LEMMA OrderedRows ==
  ASSUME NEW n \in Nat, NEW S \in SUBSET (0 .. n - 1)
  PROVE  /\ Ordered(S) \in Seq(S) /\ Len(Ordered(S)) = Cardinality(S) /\ Cardinality(S) \in Nat
         /\ Ascending(Ordered(S))
         /\ \A e \in S : \E i \in DOMAIN Ordered(S) : Ordered(S)[i] = e
<1> DEFINE s == Ordered(S)
           m == Cardinality(S)
<1>1. IsFiniteSet(S) /\ m \in Nat
  <2>1. IsFiniteSet(0 .. n - 1) BY FS_Interval
  <2> QED BY <2>1, FS_Subset, FS_CardinalityType
<1>2. PICK r : r \in [1 .. m -> S] /\ Ascending(r)
  BY OrderExists DEF Sorts
<1>3. s \in [1 .. m -> S] /\ Ascending(s)
  BY <1>2 DEF Ordered, Ascending
<1> HIDE DEF s, m
<1>4. s \in Injection(1 .. m, S)
  <2>1. \A i, j \in 1 .. m : s[i] = s[j] => i = j
    <3> SUFFICES ASSUME NEW i \in 1 .. m, NEW j \in 1 .. m, i < j PROVE s[i] # s[j]
      BY <1>1
    <3>1. s[i] \in S /\ s[j] \in S /\ DOMAIN s = 1 .. m
      BY <1>3
    <3>2. s[i] < s[j]
      BY <1>3, <3>1 DEF Ascending
    <3>3. s[i] \in Int /\ s[j] \in Int
      <4>1. \A e \in S : e \in Int OBVIOUS
      <4> QED BY <3>1, <4>1
    <3> QED BY <3>2, <3>3
  <2> QED BY <1>3, <2>1 DEF Injection, IsInjective
<1>5. Cardinality(1 .. m) = m
  BY <1>1, FS_Interval
<1>6. s \in Surjection(1 .. m, S)
  BY <1>1, <1>4, <1>5, FS_Injection DEF m
<1>7. \A e \in S : \E i \in 1 .. m : s[i] = e
  BY <1>6 DEF Surjection
<1>8. s \in Seq(S) /\ Len(s) = m /\ DOMAIN s = 1 .. m
  BY <1>1, <1>3
<1> QED BY <1>1, <1>3, <1>7, <1>8 DEF s, m

(* A page is of rows after the cursor, and leaves out none up to its last.   *)
LEMMA PageHasAll ==
  ASSUME EventTypes, NEW c \in Nat \union {-1}, NEW page, page = FirstOf(RowsAfter(c)), page # <<>>
  PROVE  /\ page \in Seq(Nat) /\ Ascending(page) /\ Last(page) \in rows
         /\ \A i \in DOMAIN page : page[i] \in rows /\ c < page[i] /\ page[i] <= Last(page)
         /\ \A e \in rows : c < e /\ e <= Last(page) => \E i \in DOMAIN page : page[i] = e
<1> DEFINE S == {e \in rows : e > c}
           s == Ordered(S)
           k == IF Len(s) < PageLimit THEN Len(s) ELSE PageLimit
<1>1. S \in SUBSET (0 .. sequence - 1) /\ sequence \in Nat
  BY DEF EventTypes
<1>2. /\ s \in Seq(S) /\ Len(s) \in Nat /\ DOMAIN s = 1 .. Len(s) /\ Ascending(s)
      /\ \A i \in 1 .. Len(s) : s[i] \in S
      /\ \A e \in S : \E i \in DOMAIN s : s[i] = e
  <2>1. /\ s \in Seq(S) /\ Ascending(s)
        /\ \A e \in S : \E i \in DOMAIN s : s[i] = e
    BY <1>1, OrderedRows
  <2> HIDE DEF s, S
  <2> QED BY <2>1
<1>3. page = SubSeq(s, 1, k)
  BY DEF FirstOf, RowsAfter
<1>4. k \in 0 .. Len(s)
  BY <1>2, PageAssumption
<1> HIDE DEF s, k
<1>5. /\ Len(page) = k /\ DOMAIN page = 1 .. k /\ page \in Seq(S)
      /\ \A i \in 1 .. k : page[i] = s[i]
  BY <1>2, <1>3, <1>4
<1>6. k \in 1 .. Len(s) /\ Last(page) = s[k]
  BY <1>4, <1>5 DEF Last
<1> HIDE DEF S
<1>7. \A i \in 1 .. Len(s) : s[i] \in rows /\ s[i] \in Nat /\ c < s[i]
  BY <1>1, <1>2 DEF S
<1>8. \A i, j \in 1 .. Len(s) : i < j => s[i] < s[j]
  BY <1>2 DEF Ascending
<1>9. page \in Seq(Nat)
  <2>1. \A i \in 1 .. k : page[i] \in Nat
    BY <1>5, <1>6, <1>7
  <2>2. page \in [1 .. k -> Nat]
    BY <1>5, <2>1
  <2> QED BY <1>6, <2>2
<1>10. Ascending(page)
  BY <1>5, <1>6, <1>8 DEF Ascending
<1>11. ASSUME NEW i \in 1 .. k
       PROVE  page[i] <= Last(page)
  <2>1. CASE i = k
    BY <1>5, <1>6, <1>7, <2>1
  <2>2. CASE i < k
    BY <1>5, <1>6, <1>7, <1>8, <2>2
  <2> QED BY <1>6, <2>1, <2>2
<1>12. ASSUME NEW e \in rows, c < e, e <= Last(page)
       PROVE  \E i \in DOMAIN page : page[i] = e
  <2>1. PICK j \in 1 .. Len(s) : s[j] = e
    BY <1>2, <1>12 DEF S
  <2>2. ~(k < j)
    BY <1>6, <1>7, <1>8, <1>12, <2>1
  <2> QED BY <1>5, <1>6, <2>1, <2>2
<1> QED BY <1>5, <1>6, <1>7, <1>9, <1>10, <1>11, <1>12

LEMMA EventsInitHolds == EventsInit => EventsInv
BY DEF EventsInit, EventsInv, EventTypes, Connection, SentInOrder, NothingSkipped

LEMMA PageKeeps ==
  ASSUME EventsInv, StreamPage
  PROVE  EventsInv'
<1>1. PICK page : page = FirstOf(RowsAfter(stream.cursor))
  OBVIOUS
<1>2. /\ stream.open /\ page # <<>> /\ wire' = wire \o page
      /\ stream' = [stream EXCEPT !.cursor = Last(page)]
      /\ UNCHANGED <<recorderVars, lastId, shown>>
  BY <1>1 DEF StreamPage
<1>3. stream.cursor \in Nat \union {-1} /\ lastId \in Nat \union {-1} /\ rows \subseteq Nat /\ sequence \in Nat
  BY DEF EventsInv, EventTypes, Connection
<1> DEFINE last == Last(page)
<1>4. /\ page \in Seq(Nat) /\ Ascending(page) /\ last \in rows
      /\ \A i \in DOMAIN page : page[i] \in rows /\ stream.cursor < page[i] /\ page[i] <= last
      /\ \A e \in rows : stream.cursor < e /\ e <= last => \E i \in DOMAIN page : page[i] = e
  BY <1>1, <1>2, <1>3, PageHasAll DEF EventsInv
<1>5. wire \in Seq(Nat) /\ Ascending(wire) /\ \A i \in DOMAIN wire : lastId < wire[i] /\ wire[i] <= stream.cursor
  BY <1>2 DEF EventsInv, EventTypes, Connection, SentInOrder
<1>6. last \in Nat /\ last < sequence /\ stream.cursor < last /\ lastId <= stream.cursor
  <2>1. 1 \in DOMAIN page /\ page[1] \in Nat
    BY <1>2, <1>4
  <2> QED BY <1>2, <1>3, <1>4, <2>1 DEF EventsInv, EventTypes, Connection, SentInOrder
<1>7. /\ stream'.open /\ stream'.cursor = last
      /\ Connection(stream')
  BY <1>2, <1>6 DEF EventsInv, EventTypes, Connection
<1> HIDE DEF last
<1>8. /\ wire' \in Seq(Nat)
      /\ Len(wire) \in Nat /\ Len(page) \in Nat /\ DOMAIN wire = 1 .. Len(wire) /\ DOMAIN page = 1 .. Len(page)
      /\ DOMAIN wire' = 1 .. Len(wire) + Len(page)
      /\ \A i \in DOMAIN wire : wire'[i] = wire[i] /\ wire[i] \in Nat
      /\ \A i \in DOMAIN page : wire'[Len(wire) + i] = page[i] /\ page[i] \in Nat
  BY <1>2, <1>4, <1>5
<1>9. ASSUME NEW i \in DOMAIN wire', i \notin DOMAIN wire
      PROVE  i - Len(wire) \in DOMAIN page /\ wire'[i] = page[i - Len(wire)]
  <2>1. i - Len(wire) \in DOMAIN page /\ Len(wire) + (i - Len(wire)) = i
    BY <1>8, <1>9
  <2> QED BY <1>8, <2>1
<1>10. Ascending(wire')
  <2> SUFFICES ASSUME NEW i \in DOMAIN wire', NEW j \in DOMAIN wire', i < j
               PROVE  wire'[i] < wire'[j]
    BY DEF Ascending
  <2>1. CASE j \in DOMAIN wire
    <3>1. i \in DOMAIN wire
      BY <1>8, <2>1
    <3> QED BY <1>5, <1>8, <2>1, <3>1 DEF Ascending
  <2>2. CASE i \in DOMAIN wire /\ j \notin DOMAIN wire
    <3>1. wire'[i] \in Nat /\ wire'[i] <= stream.cursor
      BY <1>5, <1>8, <2>2
    <3>2. wire'[j] \in Nat /\ stream.cursor < wire'[j]
      BY <1>3, <1>4, <1>9, <2>2
    <3> QED BY <1>3, <3>1, <3>2
  <2>3. CASE i \notin DOMAIN wire /\ j \notin DOMAIN wire
    <3>1. i - Len(wire) \in DOMAIN page /\ j - Len(wire) \in DOMAIN page /\ i - Len(wire) < j - Len(wire)
      BY <1>8, <1>9, <2>3
    <3> QED BY <1>4, <1>9, <2>3, <3>1 DEF Ascending
  <2> QED BY <1>8, <2>1, <2>2, <2>3
<1>11. ASSUME NEW i \in DOMAIN wire'
       PROVE  lastId < wire'[i] /\ wire'[i] <= last
  <2>1. CASE i \in DOMAIN wire
    BY <1>3, <1>5, <1>6, <1>8, <2>1
  <2>2. CASE i \notin DOMAIN wire
    <3>1. wire'[i] \in Nat /\ stream.cursor < wire'[i] /\ wire'[i] <= last
      BY <1>3, <1>4, <1>9, <2>2
    <3> QED BY <1>3, <1>6, <3>1
  <2> QED BY <2>1, <2>2
<1>12. ASSUME NEW e \in rows, e <= last, e \notin shown
       PROVE  \E i \in DOMAIN wire' : wire'[i] = e
  <2>1. CASE e <= stream.cursor
    <3>1. PICK i \in DOMAIN wire : wire[i] = e
      BY <1>2, <1>12, <2>1 DEF EventsInv, SentInOrder
    <3> QED BY <1>8, <3>1
  <2>2. CASE stream.cursor < e
    <3>1. PICK i \in DOMAIN page : page[i] = e
      BY <1>4, <1>12, <2>2
    <3>2. Len(wire) + i \in DOMAIN wire'
      BY <1>8
    <3> QED BY <1>8, <3>1, <3>2
  <2> QED BY <1>3, <2>1, <2>2
<1>13. \A e \in appending : \A r \in rows \union {lastId, last} : r < e
  BY <1>4 DEF EventsInv, SentInOrder
<1>14. EventTypes'
  BY <1>2, <1>7, <1>8 DEF EventsInv, EventTypes, Connection, recorderVars
<1>15. SentInOrder'
  BY <1>2, <1>3, <1>6, <1>7, <1>10, <1>11, <1>12, <1>13 DEF EventsInv, SentInOrder, recorderVars
<1> QED BY <1>2, <1>14, <1>15 DEF EventsInv, NothingSkipped, recorderVars

LEMMA ArrivalKeeps ==
  ASSUME EventsInv, EventArrives
  PROVE  EventsInv'
<1>1. PICK h : h = Head(wire)
  OBVIOUS
<1>2. /\ stream.open /\ wire # <<>> /\ wire' = Tail(wire) /\ lastId' = h
      /\ shown' = shown \union {h} /\ UNCHANGED <<recorderVars, stream>>
  BY <1>1 DEF EventArrives
<1>3. /\ stream.cursor \in Nat \union {-1} /\ lastId \in Nat \union {-1} /\ rows \subseteq Nat
      /\ wire \in Seq(Nat) /\ Ascending(wire) /\ lastId <= stream.cursor
      /\ \A i \in DOMAIN wire : lastId < wire[i] /\ wire[i] <= stream.cursor
      /\ \A e \in rows : e <= stream.cursor => e \in shown \/ \E i \in DOMAIN wire : wire[i] = e
  BY <1>2 DEF EventsInv, EventTypes, Connection, SentInOrder
<1>4. /\ Len(wire) \in Nat \ {0} /\ DOMAIN wire = 1 .. Len(wire) /\ h = wire[1] /\ h \in Nat
      /\ Tail(wire) \in Seq(Nat) /\ DOMAIN Tail(wire) = 1 .. Len(wire) - 1
      /\ \A i \in 1 .. Len(wire) - 1 : Tail(wire)[i] = wire[i + 1]
      /\ \A i \in DOMAIN wire : wire[i] \in Nat
  BY <1>1, <1>2, <1>3
<1>5. \A i, j \in 1 .. Len(wire) : i < j => wire[i] < wire[j]
  BY <1>3, <1>4 DEF Ascending
<1>6. h <= stream.cursor /\ lastId < h
  BY <1>3, <1>4
<1>7. \A i \in 1 .. Len(wire) - 1 : h < Tail(wire)[i] /\ Tail(wire)[i] <= stream.cursor
  BY <1>3, <1>4, <1>5
<1>8. Ascending(Tail(wire))
  BY <1>4, <1>5 DEF Ascending
<1>9. ASSUME NEW e \in rows, e <= stream.cursor, e \notin shown', NEW i \in DOMAIN wire, wire[i] = e
      PROVE  \E j \in 1 .. Len(wire) - 1 : Tail(wire)[j] = e
  <2>1. i # 1
    BY <1>2, <1>4, <1>9
  <2>2. i - 1 \in 1 .. Len(wire) - 1 /\ (i - 1) + 1 = i
    BY <1>4, <2>1
  <2> QED BY <1>4, <1>9, <2>2
<1>10. \A e \in rows : e <= stream.cursor => e \in shown' \/ \E j \in 1 .. Len(wire) - 1 : Tail(wire)[j] = e
  BY <1>2, <1>3, <1>9
<1>11. ASSUME NEW e \in rows, e <= h
       PROVE  e \in shown'
  <2>1. e <= stream.cursor
    BY <1>3, <1>4, <1>6, <1>11
  <2> QED BY <1>3, <1>4, <1>7, <1>10, <1>11, <2>1
<1>12. h < sequence /\ \A e \in appending : h < e
  BY <1>3, <1>4, <1>6 DEF EventsInv, EventTypes, Connection, SentInOrder
<1>13. EventTypes'
  BY <1>2, <1>4 DEF EventsInv, EventTypes, Connection, recorderVars
<1>14. SentInOrder'
  <2>1. lastId' < sequence' /\ stream'.cursor < sequence' /\ lastId' <= stream'.cursor
    BY <1>2, <1>6, <1>12 DEF EventsInv, SentInOrder, recorderVars
  <2>2. \A e \in appending' : \A r \in rows' \union {lastId', stream'.cursor} : r < e
    BY <1>2, <1>12 DEF EventsInv, SentInOrder, recorderVars
  <2>3. Ascending(wire')
    BY <1>2, <1>8
  <2>4. \A i \in DOMAIN wire' : lastId' < wire'[i] /\ wire'[i] <= stream'.cursor
    BY <1>2, <1>4, <1>7
  <2>5. \A e \in rows' : e <= stream'.cursor => e \in shown' \/ \E i \in DOMAIN wire' : wire'[i] = e
    BY <1>2, <1>4, <1>10 DEF recorderVars
  <2> QED BY <2>1, <2>2, <2>3, <2>4, <2>5 DEF SentInOrder
<1> QED BY <1>2, <1>11, <1>13, <1>14 DEF EventsInv, NothingSkipped, recorderVars

(* The recorder: a number is taken when the event before has been appended,  *)
(* so no row comes below one that has been sent.                             *)
LEMMA RecorderKeeps ==
  ASSUME EventsInv, Emit \/ AppendStarts \/ \E e \in appending, committed \in BOOLEAN : AppendEnds(e, committed)
  PROVE  EventsInv'
<1>1. CASE Emit
  BY <1>1 DEF Emit, viewerVars, EventsInv, EventTypes, Connection, SentInOrder, NothingSkipped
<1>2. CASE AppendStarts
  <2>1. /\ appending' = {sequence} /\ sequence' = sequence + 1 /\ sequence \in Nat
        /\ UNCHANGED <<rows, stream, wire, lastId, shown>>
    BY <1>2 DEF AppendStarts, viewerVars, EventsInv, EventTypes, Connection
  <2>2. EventTypes'
    BY <2>1 DEF EventsInv, EventTypes, Connection
  <2>3. \A r \in rows \union {lastId, stream.cursor} : r < sequence /\ r \in Int
    BY <2>1 DEF EventsInv, EventTypes, Connection, SentInOrder
  <2>4. SentInOrder'
    BY <2>1, <2>3 DEF EventsInv, SentInOrder
  <2> QED BY <2>1, <2>2, <2>4 DEF EventsInv, NothingSkipped
<1>3. ASSUME NEW e \in appending, NEW committed \in BOOLEAN, AppendEnds(e, committed)
      PROVE  EventsInv'
  <2>1. /\ e = sequence - 1 /\ sequence \in Nat \ {0} /\ appending' = {}
        /\ UNCHANGED <<sequence, stream, wire, lastId, shown>>
        /\ rows' \subseteq rows \union {e}
    BY <1>3 DEF AppendEnds, viewerVars, EventsInv, EventTypes, Connection
  <2>2. EventTypes'
    BY <2>1 DEF EventsInv, EventTypes, Connection
  <2>3. lastId < e /\ stream.cursor < e /\ lastId \in Int /\ stream.cursor \in Int
    BY DEF EventsInv, EventTypes, Connection, SentInOrder
  <2>4. \A r \in rows' : r <= stream.cursor \/ r <= lastId => r \in rows
    BY <2>1, <2>3
  <2>5. SentInOrder'
    BY <2>1, <2>4 DEF EventsInv, SentInOrder
  <2> QED BY <2>1, <2>2, <2>4, <2>5 DEF EventsInv, NothingSkipped
<1> QED BY <1>1, <1>2, <1>3

LEMMA EventsStep == EventsInv /\ [EventsNext]_eventVars => EventsInv'
<1> SUFFICES ASSUME EventsInv, [EventsNext]_eventVars PROVE EventsInv'
  OBVIOUS
<1>1. CASE EventStreamOpens
  <2>1. /\ stream'.open /\ stream'.cursor = lastId /\ wire' = <<>>
        /\ UNCHANGED <<emitted, sequence, appending, rows, lastId, shown>>
    BY <1>1 DEF EventStreamOpens, recorderVars
  <2>2. Connection(stream') /\ wire' \in Seq(Nat) /\ DOMAIN wire' = {}
    BY <1>1 DEF EventStreamOpens, EventsInv, EventTypes, Connection
  <2>3. EventTypes'
    BY <2>1, <2>2 DEF EventsInv, EventTypes, Connection
  <2>4. lastId \in Int /\ lastId <= lastId
    BY DEF EventsInv, EventTypes, Connection
  <2>5. SentInOrder'
    BY <2>1, <2>2, <2>4 DEF EventsInv, SentInOrder, NothingSkipped, Ascending
  <2> QED BY <2>1, <2>3, <2>5 DEF EventsInv, NothingSkipped
<1>2. CASE StreamBreaks
  <2>1. /\ stream' = [stream EXCEPT !.open = FALSE] /\ wire' = <<>>
        /\ UNCHANGED <<emitted, sequence, appending, rows, lastId, shown>>
    BY <1>2 DEF StreamBreaks, recorderVars
  <2>2. /\ Connection(stream') /\ wire' \in Seq(Nat)
        /\ ~stream'.open /\ stream'.cursor = stream.cursor
    <3>1. stream = [open |-> stream.open, cursor |-> stream.cursor] /\ stream.cursor \in Nat \union {-1}
      BY DEF EventsInv, EventTypes, Connection
    <3>2. stream' = [open |-> FALSE, cursor |-> stream.cursor]
      BY <2>1, <3>1
    <3>3. stream'.open = FALSE /\ stream'.cursor = stream.cursor
      BY <3>2
    <3>4. Connection(stream')
      BY <3>1, <3>2, <3>3 DEF Connection
    <3> QED BY <2>1, <3>3, <3>4
  <2>3. EventTypes'
    BY <2>1, <2>2 DEF EventsInv, EventTypes, Connection
  <2>4. SentInOrder'
    BY <2>1, <2>2 DEF EventsInv, SentInOrder
  <2> QED BY <2>1, <2>3, <2>4 DEF EventsInv, NothingSkipped
<1>3. CASE StreamReplaced
  <2>1. /\ ~stream'.open /\ stream'.cursor = -1 /\ wire' = <<>> /\ lastId' = -1
        /\ UNCHANGED <<emitted, sequence, appending, rows, shown>>
    BY <1>3 DEF StreamReplaced, recorderVars
  <2>2. Connection(stream') /\ wire' \in Seq(Nat) /\ DOMAIN wire' = {}
    BY <1>3 DEF StreamReplaced, Connection
  <2>3. EventTypes'
    BY <2>1, <2>2 DEF EventsInv, EventTypes, Connection
  <2>4. sequence \in Nat /\ \A e \in rows \union appending : e \in Nat /\ -1 < e
    BY DEF EventsInv, EventTypes, Connection
  <2>5. SentInOrder'
    BY <2>1, <2>2, <2>4 DEF EventsInv, SentInOrder, Ascending
  <2> QED BY <2>1, <2>3, <2>4, <2>5 DEF EventsInv, NothingSkipped
<1>4. CASE SnapshotArrives
  <2>1. /\ UNCHANGED <<emitted, sequence, appending, rows, stream, wire, lastId>>
        /\ shown \subseteq shown'
    BY <1>4 DEF SnapshotArrives, recorderVars
  <2>2. EventTypes'
    BY <2>1 DEF EventsInv, EventTypes, Connection
  <2>3. SentInOrder'
    BY <2>1 DEF EventsInv, SentInOrder, Ascending
  <2>4. NothingSkipped'
    BY <2>1 DEF EventsInv, NothingSkipped
  <2> QED BY <2>2, <2>3, <2>4 DEF EventsInv
<1>5. CASE EventStreamRefused
  BY <1>5 DEF EventStreamRefused, recorderVars, EventsInv, EventTypes, Connection, SentInOrder, NothingSkipped
<1>6. CASE UNCHANGED eventVars
  BY <1>6 DEF eventVars, EventsInv, EventTypes, Connection, SentInOrder, NothingSkipped
<1> QED
  BY <1>1, <1>2, <1>3, <1>4, <1>5, <1>6, RecorderKeeps, PageKeeps, ArrivalKeeps DEF EventsNext

(* The event stream skips nothing, for any number of events, any page size,  *)
(* failed appends and connections that break, are refused or are replaced    *)
(* (event-recorder.ts 19-38, http.ts 118-189).                               *)
THEOREM StreamSkipsNothing == EventsSpec => []NothingSkipped
<1>1. EventsInv => NothingSkipped
  BY DEF EventsInv
<1> QED
  BY EventsInitHolds, EventsStep, <1>1, PTL DEF EventsSpec

-----------------------------------------------------------------------------
(* The keys.  What is not read yet is the keys it was made of, one after     *)
(* the other: there are places where it can be cut into their bytes.         *)
Byte == Keys \union {"ESC", "[", "D", "<", "0", "M"}

Cuts(c, b, q) ==
    /\ c \in [0 .. Len(q) -> Nat]
    /\ c[0] = 0 /\ c[Len(q)] = Len(b)
    /\ \A i, j \in 0 .. Len(q) : i < j => c[i] < c[j]
    /\ \A i \in 1 .. Len(q) :
         /\ c[i] = c[i - 1] + Len(Bytes(q[i]))
         /\ \A k \in 1 .. Len(Bytes(q[i])) : b[c[i - 1] + k] = Bytes(q[i])[k]

Encodes(b, q) == \E c : Cuts(c, b, q)

LEMMA BytesShape ==
  ASSUME NEW key \in Keys
  PROVE  \/ key = "escape" /\ Bytes(key) = <<"ESC">>
         \/ key = "left" /\ Bytes(key) = <<"ESC", "[", "D">>
         \/ key = "wheel" /\ Bytes(key) = <<"ESC", "[", "<", "0", "M">>
         \/ key \notin {"escape", "left", "wheel"} /\ Bytes(key) = <<key>>
BY DEF Bytes

LEMMA BytesTyped ==
  ASSUME NEW key \in Keys
  PROVE  /\ Bytes(key) \in Seq(Byte)
         /\ Len(Bytes(key)) \in {1, 3, 5}
         /\ key # "[" => Bytes(key)[1] # "["
         /\ Len(Bytes(key)) # 1 => Bytes(key)[1] = "ESC" /\ Bytes(key)[2] = "["
<1>1. CASE key = "escape" /\ Bytes(key) = <<"ESC">>
  <2>1. Len(Bytes(key)) = 1 /\ Bytes(key)[1] = "ESC" /\ "ESC" \in Byte
    BY <1>1 DEF Byte
  <2>2. <<"ESC">> \in Seq(Byte)
    BY <2>1
  <2> QED BY <1>1, <2>1, <2>2
<1>2. CASE key = "left" /\ Bytes(key) = <<"ESC", "[", "D">>
  <2>1. /\ Len(Bytes(key)) = 3 /\ Bytes(key)[1] = "ESC" /\ Bytes(key)[2] = "["
        /\ "ESC" \in Byte /\ "[" \in Byte /\ "D" \in Byte
    BY <1>2 DEF Byte
  <2>2. <<"ESC", "[", "D">> \in Seq(Byte)
    BY <2>1
  <2> QED BY <1>2, <2>1, <2>2
<1>3. CASE key = "wheel" /\ Bytes(key) = <<"ESC", "[", "<", "0", "M">>
  <2>1. /\ Len(Bytes(key)) = 5 /\ Bytes(key)[1] = "ESC" /\ Bytes(key)[2] = "["
        /\ "ESC" \in Byte /\ "[" \in Byte /\ "<" \in Byte /\ "0" \in Byte /\ "M" \in Byte
    BY <1>3 DEF Byte
  <2>2. <<"ESC", "[", "<", "0", "M">> \in Seq(Byte)
    BY <2>1
  <2> QED BY <1>3, <2>1, <2>2
<1>4. CASE key \notin {"escape", "left", "wheel"} /\ Bytes(key) = <<key>>
  BY <1>4, KeysAssumption DEF Byte
<1> QED BY <1>1, <1>2, <1>3, <1>4, BytesShape

LEMMA BytesDiffer ==
  ASSUME NEW key \in Keys, NEW other \in Keys, Bytes(key) = Bytes(other)
  PROVE  key = other
<1>1. Len(Bytes(key)) = Len(Bytes(other)) /\ Bytes(key)[1] = Bytes(other)[1]
  OBVIOUS
<1>2. CASE key = "escape" /\ Bytes(key) = <<"ESC">>
  BY <1>1, <1>2, BytesShape, KeysAssumption
<1>3. CASE key = "left" /\ Bytes(key) = <<"ESC", "[", "D">>
  BY <1>1, <1>3, BytesShape
<1>4. CASE key = "wheel" /\ Bytes(key) = <<"ESC", "[", "<", "0", "M">>
  BY <1>1, <1>4, BytesShape
<1>5. CASE key \notin {"escape", "left", "wheel"} /\ Bytes(key) = <<key>>
  <2>1. Len(Bytes(other)) = 1 /\ Bytes(other)[1] = key /\ key # "ESC"
    BY <1>1, <1>5, KeysAssumption
  <2>2. other # "left" /\ other # "wheel" /\ Bytes(other) # <<"ESC">>
    <3>1. Bytes(other) # <<"ESC", "[", "D">> /\ Bytes(other) # <<"ESC", "[", "<", "0", "M">>
      BY <2>1
    <3>2. Bytes(other) # <<"ESC">>
      BY <2>1
    <3> QED BY <3>1, <3>2, BytesShape
  <2>3. Bytes(other) = <<other>>
    BY <2>2, BytesShape
  <2> QED BY <2>1, <2>3
<1> QED BY <1>2, <1>3, <1>4, <1>5, BytesShape

LEMMA KeyOfBytes ==
  ASSUME NEW key \in Keys
  PROVE  KeyOf(Bytes(key)) = key
BY BytesDiffer DEF KeyOf

(* A key that is whole is taken whole; one that is cut is left, unless all   *)
(* that is there of it is its first byte.                                    *)
LEMMA WidthOfKey ==
  ASSUME NEW b, Len(b) \in Nat, NEW key \in Keys, NEW i \in 1 .. Len(b),
         \A k \in 1 .. Len(Bytes(key)) : i + k - 1 <= Len(b) => b[i + k - 1] = Bytes(key)[k],
         NEW n \in Nat, n = i + Len(Bytes(key)),
         key = "escape" /\ n <= Len(b) => b[n] # "[",
         n > Len(b) + 1 => i # Len(b)
  PROVE  Width(b, i) = IF n <= Len(b) + 1 THEN Len(Bytes(key)) ELSE 0
<1>1. CASE key = "escape" /\ Bytes(key) = <<"ESC">>
  <2>1. n = i + 1 /\ Len(Bytes(key)) = 1
    BY <1>1
  <2> QED BY <1>1, <2>1 DEF Width
<1>2. CASE key = "left" /\ Bytes(key) = <<"ESC", "[", "D">>
  <2>1. n = i + 3 /\ Len(Bytes(key)) = 3
    BY <1>2
  <2>2. /\ b[i] = "ESC"
        /\ i + 1 <= Len(b) => b[i + 1] = "["
        /\ i + 2 <= Len(b) => b[i + 2] = "D"
    <3>1. 1 \in 1 .. Len(Bytes(key)) /\ 2 \in 1 .. Len(Bytes(key)) /\ 3 \in 1 .. Len(Bytes(key))
      BY <2>1
    <3>2. /\ i + 1 - 1 <= Len(b) => b[i + 1 - 1] = Bytes(key)[1]
          /\ i + 2 - 1 <= Len(b) => b[i + 2 - 1] = Bytes(key)[2]
          /\ i + 3 - 1 <= Len(b) => b[i + 3 - 1] = Bytes(key)[3]
      BY <3>1
    <3>3. i + 1 - 1 = i /\ i + 2 - 1 = i + 1 /\ i + 3 - 1 = i + 2
      OBVIOUS
    <3> QED BY <1>2, <3>2, <3>3
  <2> QED BY <2>1, <2>2 DEF Width
<1>3. CASE key = "wheel" /\ Bytes(key) = <<"ESC", "[", "<", "0", "M">>
  <2>1. n = i + 5 /\ Len(Bytes(key)) = 5
    BY <1>3
  <2>2. /\ b[i] = "ESC"
        /\ i + 1 <= Len(b) => b[i + 1] = "["
        /\ i + 2 <= Len(b) => b[i + 2] = "<"
    <3>1. 1 \in 1 .. Len(Bytes(key)) /\ 2 \in 1 .. Len(Bytes(key)) /\ 3 \in 1 .. Len(Bytes(key))
      BY <2>1
    <3>2. /\ i + 1 - 1 <= Len(b) => b[i + 1 - 1] = Bytes(key)[1]
          /\ i + 2 - 1 <= Len(b) => b[i + 2 - 1] = Bytes(key)[2]
          /\ i + 3 - 1 <= Len(b) => b[i + 3 - 1] = Bytes(key)[3]
      BY <3>1
    <3>3. i + 1 - 1 = i /\ i + 2 - 1 = i + 1 /\ i + 3 - 1 = i + 2
      OBVIOUS
    <3> QED BY <1>3, <3>2, <3>3
  <2> QED BY <2>1, <2>2 DEF Width
<1>4. CASE key \notin {"escape", "left", "wheel"} /\ Bytes(key) = <<key>>
  <2>1. n = i + 1 /\ Len(Bytes(key)) = 1 /\ key # "ESC"
    BY <1>4, KeysAssumption
  <2>2. b[i] = key
    <3>1. 1 \in 1 .. Len(Bytes(key)) /\ i + 1 - 1 = i
      BY <2>1
    <3> QED BY <1>4, <3>1
  <2> QED BY <2>1, <2>2 DEF Width
<1> QED BY <1>1, <1>2, <1>3, <1>4, BytesShape

(* The reading from each byte on, as one step of it.                         *)
ReadFrom(f, b, i) ==
    LET w == IF i > Len(b) THEN 0 ELSE Width(b, i)
    IN IF w = 0 THEN [keys |-> <<>>, rest |-> SubSeq(b, i, Len(b))]
       ELSE [f[i + w] EXCEPT !.keys = <<KeyOf(SubSeq(b, i, i + w - 1))>> \o @]

Reading(f, b) == f = [i \in 1 .. Len(b) + 1 |-> ReadFrom(f, b, i)]

LEMMA WidthWithin ==
  ASSUME NEW b, Len(b) \in Nat, NEW i \in 1 .. Len(b)
  PROVE  /\ Width(b, i) \in Nat
         /\ i + Width(b, i) <= Len(b) + 1
BY DEF Width

(* A step only looks further on.                                             *)
LEMMA ReadAhead ==
  ASSUME NEW b, Len(b) \in Nat, NEW i \in 1 .. Len(b) + 1, NEW f, NEW g,
         \A j \in i + 1 .. Len(b) + 1 : f[j] = g[j]
  PROVE  ReadFrom(f, b, i) = ReadFrom(g, b, i)
<1>1. CASE i > Len(b) \/ Width(b, i) = 0
  BY <1>1 DEF ReadFrom
<1>2. CASE i <= Len(b) /\ Width(b, i) # 0
  <2>1. i + Width(b, i) \in i + 1 .. Len(b) + 1
    BY <1>2, WidthWithin
  <2> QED BY <1>2, <2>1 DEF ReadFrom
<1> QED BY <1>1, <1>2

(* From the end of the bytes to their beginning: by induction over how many  *)
(* are read.                                                                 *)
ReadingEnd(f, b, n) ==
    /\ f = [i \in 1 .. Len(b) + 1 |-> f[i]]
    /\ \A i \in Len(b) + 1 - n .. Len(b) + 1 : f[i] = ReadFrom(f, b, i)

LEMMA ReadingStarts ==
  ASSUME NEW b, Len(b) \in Nat
  PROVE  \E f : ReadingEnd(f, b, 0)
<1> DEFINE f == [i \in 1 .. Len(b) + 1 |-> [keys |-> <<>>, rest |-> SubSeq(b, i, Len(b))]]
<1>1. f = [i \in 1 .. Len(b) + 1 |-> f[i]]
  OBVIOUS
<1>2. \A i \in Len(b) + 1 - 0 .. Len(b) + 1 : f[i] = ReadFrom(f, b, i)
  BY DEF ReadFrom
<1> HIDE DEF f
<1> QED BY <1>1, <1>2 DEF ReadingEnd

LEMMA ReadingGoesOn ==
  ASSUME NEW b, Len(b) \in Nat, NEW n \in Nat, n < Len(b), NEW g, ReadingEnd(g, b, n)
  PROVE  \E f : ReadingEnd(f, b, n + 1)
<1> DEFINE k == Len(b) - n
           f == [i \in 1 .. Len(b) + 1 |-> IF i = k THEN ReadFrom(g, b, k) ELSE g[i]]
<1>1. k \in 1 .. Len(b) /\ Len(b) + 1 - (n + 1) = k /\ Len(b) + 1 - n = k + 1
  OBVIOUS
<1>2. f[k] = ReadFrom(g, b, k) /\ \A j \in k + 1 .. Len(b) + 1 : f[j] = g[j]
  BY <1>1
<1>3. f = [i \in 1 .. Len(b) + 1 |-> f[i]]
  OBVIOUS
<1> HIDE DEF f, k
<1>4. ASSUME NEW i \in k .. Len(b) + 1
      PROVE  f[i] = ReadFrom(f, b, i)
  <2>1. i \in 1 .. Len(b) + 1 /\ \A j \in i + 1 .. Len(b) + 1 : j \in k + 1 .. Len(b) + 1
    BY <1>1
  <2>2. ReadFrom(f, b, i) = ReadFrom(g, b, i)
    BY <1>2, <2>1, ReadAhead
  <2>3. CASE i = k
    BY <1>2, <2>2, <2>3
  <2>4. CASE i # k
    <3>1. i \in k + 1 .. Len(b) + 1
      BY <1>1, <2>4
    <3>2. g[i] = ReadFrom(g, b, i)
      BY <1>1, <3>1 DEF ReadingEnd
    <3> QED BY <1>2, <2>2, <3>1, <3>2
  <2> QED BY <2>3, <2>4
<1> QED BY <1>1, <1>3, <1>4 DEF ReadingEnd

LEMMA ReadingExists ==
  ASSUME NEW b, Len(b) \in Nat
  PROVE  \E f : Reading(f, b)
<1> DEFINE T == {n \in Nat : n <= Len(b) /\ ~\E f : ReadingEnd(f, b, n)}
<1>1. ASSUME T # {}
      PROVE  FALSE
  <2>1. PICK n \in T : \A m \in T : n <= m
    <3>1. T \in SUBSET Nat OBVIOUS
    <3> HIDE DEF T
    <3> QED BY <1>1, <3>1, LeastNumber
  <2>2. CASE n = 0
    BY <2>1, <2>2, ReadingStarts
  <2>3. CASE n # 0
    <3>1. n - 1 \in Nat /\ n - 1 < Len(b) /\ n - 1 \notin T /\ (n - 1) + 1 = n
      BY <2>1, <2>3
    <3>2. PICK g : ReadingEnd(g, b, n - 1)
      BY <3>1
    <3>3. \E f : ReadingEnd(f, b, (n - 1) + 1)
      BY <3>1, <3>2, ReadingGoesOn
    <3> QED BY <2>1, <3>1, <3>3
  <2> QED BY <2>2, <2>3
<1>2. PICK f : ReadingEnd(f, b, Len(b))
  BY <1>1
<1>3. Len(b) + 1 - Len(b) = 1
  OBVIOUS
<1> QED BY <1>2, <1>3 DEF ReadingEnd, Reading

LEMMA ConsumedIs ==
  ASSUME NEW b
  PROVE  Consumed(b) = (CHOOSE f : Reading(f, b))[1]
BY DEF Consumed, Reading, ReadFrom

Reads(f, b) == \A i \in 1 .. Len(b) + 1 : f[i] = ReadFrom(f, b, i)

LEMMA ConsumedBy ==
  ASSUME NEW b, Len(b) \in Nat
  PROVE  \E f : Consumed(b) = f[1] /\ Reads(f, b)
<1> DEFINE f == CHOOSE f : Reading(f, b)
<1>1. Reading(f, b) /\ Consumed(b) = f[1]
  BY ReadingExists, ConsumedIs
<1> HIDE DEF f
<1>2. f = [i \in 1 .. Len(b) + 1 |-> ReadFrom(f, b, i)]
  BY <1>1 DEF Reading
<1>3. Reads(f, b)
  BY <1>2 DEF Reads
<1> QED BY <1>1, <1>3

(* Some keys of q have arrived as a whole: those before place J of the cut.  *)
LEMMA LastWhole ==
  ASSUME NEW q \in Seq(Keys), NEW c \in [0 .. Len(q) -> Nat], c[0] = 0, NEW p \in Nat
  PROVE  \E J \in 0 .. Len(q) : c[J] <= p /\ (J < Len(q) => c[J + 1] > p)
<1> DEFINE T == {n \in Nat : n \in 1 .. Len(q) /\ c[n] > p}
<1>1. CASE T = {}
  <2>1. \A n \in 1 .. Len(q) : c[n] <= p
    BY <1>1
  <2>2. Len(q) \in 0 .. Len(q) /\ c[Len(q)] <= p /\ ~(Len(q) < Len(q))
    BY <2>1
  <2> QED BY <2>2
<1>2. CASE T # {}
  <2>1. PICK n \in T : \A m \in T : n <= m
    <3>1. T \in SUBSET Nat OBVIOUS
    <3> HIDE DEF T
    <3> QED BY <1>2, <3>1, LeastNumber
  <2>2. n - 1 \in 0 .. Len(q) /\ n - 1 \notin T /\ (n - 1) + 1 = n /\ c[n] > p
    BY <2>1
  <2>3. c[n - 1] <= p
    BY <2>2
  <2> QED BY <2>2, <2>3
<1> QED BY <1>1, <1>2

(* The buffer b holds the first p of the bytes w, which q was cut from.      *)
Arrived(b, w, q, c) ==
    /\ q \in Seq(Keys) /\ w \in Seq(Byte) /\ b \in Seq(Byte)
    /\ Cuts(c, w, q)
    /\ Len(b) <= Len(w) /\ \A i \in 1 .. Len(b) : b[i] = w[i]

(* The chunk does not end after the first byte of a sequence.                *)
EndsBetween(b, w) ==
    ~(b # <<>> /\ Len(b) < Len(w) /\ w[Len(b)] = "ESC" /\ w[Len(b) + 1] = "[")

LEMMA WidthAtCut ==
  ASSUME NEW b, NEW w, NEW q, NEW c, Arrived(b, w, q, c), EndsBetween(b, w),
         NEW j \in 1 .. Len(q), c[j - 1] < Len(b)
  PROVE  /\ c[j - 1] \in Nat /\ c[j] \in Nat
         /\ Width(b, c[j - 1] + 1) = IF c[j] <= Len(b) THEN Len(Bytes(q[j])) ELSE 0
<1> DEFINE i == c[j - 1] + 1
           key == q[j]
<1>1. /\ Len(b) \in Nat /\ Len(w) \in Nat /\ Len(q) \in Nat /\ key \in Keys
      /\ c[j - 1] \in Nat /\ c[j] \in Nat
      /\ Len(b) <= Len(w)
  <2>1. /\ q \in Seq(Keys) /\ w \in Seq(Byte) /\ b \in Seq(Byte) /\ Len(b) <= Len(w)
        /\ c \in [0 .. Len(q) -> Nat]
    BY DEF Arrived, Cuts
  <2>2. j \in 0 .. Len(q) /\ j - 1 \in 0 .. Len(q) /\ Len(q) \in Nat
    BY <2>1
  <2>3. q[j] \in Keys
    BY <2>1
  <2> QED BY <2>1, <2>2, <2>3
<1>2. Len(Bytes(key)) \in {1, 3, 5} /\ c[j] = c[j - 1] + Len(Bytes(key))
  BY <1>1, BytesTyped DEF Arrived, Cuts
<1>3. c[j] <= Len(w)
  <2>1. j \in 0 .. Len(q) /\ Len(q) \in 0 .. Len(q) /\ (j < Len(q) \/ j = Len(q))
    BY <1>1
  <2>2. j < Len(q) => c[j] < c[Len(q)]
    BY <2>1 DEF Arrived, Cuts
  <2>3. c[Len(q)] = Len(w)
    BY DEF Arrived, Cuts
  <2> QED BY <1>1, <2>1, <2>2, <2>3
<1>4. ASSUME NEW k \in 1 .. Len(Bytes(key))
      PROVE  w[i + k - 1] = Bytes(key)[k]
  <2>1. w[c[j - 1] + k] = Bytes(key)[k]
    BY DEF Arrived, Cuts
  <2>2. i + k - 1 = c[j - 1] + k
    BY <1>1, <1>2
  <2> QED BY <2>1, <2>2
<1>5. ASSUME NEW k \in 1 .. Len(Bytes(key)), i + k - 1 <= Len(b)
      PROVE  b[i + k - 1] = Bytes(key)[k]
  <2>1. i + k - 1 \in 1 .. Len(b)
    BY <1>1, <1>2, <1>5
  <2> QED BY <1>4, <2>1 DEF Arrived
<1>6. c[j] + 1 = i + Len(Bytes(key)) /\ c[j] + 1 \in Nat /\ i \in 1 .. Len(b)
  BY <1>1, <1>2
<1>7. ASSUME key = "escape", c[j] + 1 <= Len(b)
      PROVE  b[c[j] + 1] # "["
  <2>1. j + 1 \in 1 .. Len(q) /\ (j + 1) - 1 = j
    BY <1>1, <1>7 DEF Arrived, Cuts
  <2>2. q[j + 1] \in Keys /\ q[j + 1] # "["
    <3>1. q[j + 1] \in Keys
      BY <2>1 DEF Arrived
    <3> QED BY <1>1, <1>7, <3>1, KeysAssumption
  <2>3. 1 \in 1 .. Len(Bytes(q[j + 1]))
    BY <2>2, BytesTyped
  <2>4. w[c[j] + 1] = Bytes(q[j + 1])[1]
    BY <2>1, <2>3 DEF Arrived, Cuts
  <2>5. b[c[j] + 1] = w[c[j] + 1]
    BY <1>1, <1>7 DEF Arrived
  <2> QED BY <2>2, <2>4, <2>5, BytesTyped
<1>8. ASSUME c[j] + 1 > Len(b) + 1
      PROVE  i # Len(b)
  <2> SUFFICES ASSUME i = Len(b) PROVE FALSE
    OBVIOUS
  <2>1. Len(Bytes(key)) # 1
    <3> DEFINE a == c[j - 1]
               d == c[j]
               l == Len(Bytes(key))
               p == Len(b)
    <3>1. a \in Nat /\ d = a + l /\ l \in {1, 3, 5} /\ p \in Nat /\ d + 1 > p + 1 /\ a + 1 = p
      BY <1>1, <1>2, <1>8
    <3> HIDE DEF a, d, l, p
    <3>2. l # 1
      BY <3>1
    <3> QED BY <3>2 DEF l
  <2>2. Bytes(key)[1] = "ESC" /\ Bytes(key)[2] = "["
    BY <1>1, <2>1, BytesTyped
  <2>3. 1 \in 1 .. Len(Bytes(key)) /\ 2 \in 1 .. Len(Bytes(key))
    <3> DEFINE l == Len(Bytes(key))
    <3>1. l \in {1, 3, 5} /\ l # 1
      BY <1>2, <2>1
    <3> HIDE DEF l
    <3>2. 1 \in 1 .. l /\ 2 \in 1 .. l
      BY <3>1
    <3> QED BY <3>2 DEF l
  <2>4. w[i + 1 - 1] = "ESC" /\ w[i + 2 - 1] = "["
    BY <1>4, <2>2, <2>3
  <2>5. i + 1 - 1 = Len(b) /\ i + 2 - 1 = Len(b) + 1 /\ Len(b) < Len(w) /\ b # <<>>
    BY <1>1, <1>3, <1>6, <1>8
  <2> QED BY <2>4, <2>5 DEF EndsBetween
<1> HIDE DEF key
<1>9. Width(b, i) = IF c[j] + 1 <= Len(b) + 1 THEN Len(Bytes(key)) ELSE 0
  <2> HIDE DEF i
  <2> DEFINE n == c[j] + 1
  <2>1. n \in Nat /\ n = i + Len(Bytes(key)) /\ (key = "escape" /\ n <= Len(b) => b[n] # "[")
        /\ (n > Len(b) + 1 => i # Len(b))
    BY <1>6, <1>7, <1>8
  <2> HIDE DEF n
  <2>2. Width(b, i) = IF n <= Len(b) + 1 THEN Len(Bytes(key)) ELSE 0
    BY <1>1, <1>5, <1>6, <2>1, WidthOfKey
  <2> QED BY <2>2 DEF n
<1> QED BY <1>1, <1>9 DEF key

(* From byte i on these keys are read, and this is left.                     *)
ReadsAs(f, i, keys, rest) == f[i] = [keys |-> keys, rest |-> rest]

(* One key is read.                                                          *)
LEMMA KeyRead ==
  ASSUME NEW b, NEW w, NEW q, NEW c, Arrived(b, w, q, c), EndsBetween(b, w),
         NEW j \in 1 .. Len(q), c[j] <= Len(b),
         NEW f, Reads(f, b),
         NEW keys, NEW rest, ReadsAs(f, c[j] + 1, keys, rest)
  PROVE  ReadsAs(f, c[j - 1] + 1, <<q[j]>> \o keys, rest)
<1> DEFINE i == c[j - 1] + 1
           l == Len(Bytes(q[j]))
<1>1. /\ q \in Seq(Keys) /\ b \in Seq(Byte) /\ Len(b) \in Nat /\ c \in [0 .. Len(q) -> Nat]
      /\ j \in 0 .. Len(q) /\ j - 1 \in 0 .. Len(q)
  BY DEF Arrived, Cuts
<1>2. q[j] \in Keys /\ c[j - 1] \in Nat /\ c[j] \in Nat
  BY <1>1
<1>3. Bytes(q[j]) \in Seq(Byte) /\ l \in {1, 3, 5} /\ c[j] = c[j - 1] + l
  BY <1>2, BytesTyped DEF Arrived, Cuts
<1>4. c[j - 1] < Len(b) /\ i \in 1 .. Len(b) /\ i + l = c[j] + 1
  <2> DEFINE d == c[j]
             a == c[j - 1]
  <2>1. a \in Nat /\ d \in Nat /\ d = a + l /\ l \in {1, 3, 5} /\ d <= Len(b) /\ Len(b) \in Nat
    BY <1>1, <1>2, <1>3
  <2> HIDE DEF d, a, l
  <2>2. a < Len(b) /\ a + 1 \in 1 .. Len(b) /\ a + 1 + l = d + 1
    BY <2>1
  <2> QED BY <2>2 DEF a, d
<1>5. Width(b, i) = l
  BY <1>4, WidthAtCut
<1>6. SubSeq(b, i, i + l - 1) = Bytes(q[j])
  <2>1. ASSUME NEW k \in 1 .. l
        PROVE  /\ i + k - 1 \in 1 .. Len(b)
               /\ b[i + k - 1] = Bytes(q[j])[k]
    <3>1. w[c[j - 1] + k] = Bytes(q[j])[k]
      BY DEF Arrived, Cuts
    <3>2. i + k - 1 = c[j - 1] + k /\ i + k - 1 \in 1 .. Len(b)
      <4> DEFINE a == c[j - 1]
                 d == c[j]
      <4>1. a \in Nat /\ d = a + l /\ l \in {1, 3, 5} /\ d <= Len(b) /\ Len(b) \in Nat
        BY <1>1, <1>2, <1>3
      <4> HIDE DEF a, d, l
      <4>2. a + 1 + k - 1 = a + k /\ a + 1 + k - 1 \in 1 .. Len(b)
        BY <4>1
      <4> QED BY <4>2 DEF a
    <3>3. b[i + k - 1] = w[i + k - 1]
      BY <3>2 DEF Arrived
    <3> QED BY <3>1, <3>2, <3>3
  <2>2. i \in Int /\ i + l - 1 \in Int /\ i <= i + l - 1 /\ (i + l - 1) - i + 1 = l
    <3> HIDE DEF l
    <3> QED BY <1>3, <1>4
  <2>3. \A x \in i .. i + l - 1 : b[x] \in Byte
    <3>1. i + l - 1 <= Len(b)
      <4>1. l \in 1 .. l /\ i + l - 1 \in 1 .. Len(b)
        <5>1. l \in 1 .. l
          <6> HIDE DEF l
          <6> QED BY <1>3
        <5> QED BY <2>1, <5>1
      <4> QED BY <4>1
    <3>2. \A x \in i .. i + l - 1 : x \in 1 .. Len(b)
      <4> HIDE DEF i, l
      <4> QED BY <1>1, <1>3, <1>4, <3>1
    <3> QED BY <1>1, <3>2
  <2>4. /\ SubSeq(b, i, i + l - 1) \in Seq(Byte)
        /\ Len(SubSeq(b, i, i + l - 1)) = l
        /\ \A k \in 1 .. l : SubSeq(b, i, i + l - 1)[k] = b[i + k - 1]
    <3> HIDE DEF i, l
    <3> DEFINE e == i + l - 1
    <3>1. e \in Int /\ i <= e /\ e - i + 1 = l
      BY <2>2
    <3> HIDE DEF e
    <3>2. /\ SubSeq(b, i, e) \in Seq(Byte)
          /\ Len(SubSeq(b, i, e)) = IF i <= e THEN e - i + 1 ELSE 0
          /\ \A k \in 1 .. e - i + 1 : SubSeq(b, i, e)[k] = b[i + k - 1]
      <4>1. \A x \in i .. e : b[x] \in Byte
        BY <2>3 DEF e
      <4> QED BY <2>2, <3>1, <4>1, SubSeqProperties
    <3> QED BY <3>1, <3>2 DEF e
  <2>5. \A k \in 1 .. l : SubSeq(b, i, i + l - 1)[k] = Bytes(q[j])[k]
    BY <2>1, <2>4
  <2> QED BY <1>3, <2>4, <2>5, SeqEqual
<1>7. KeyOf(SubSeq(b, i, i + l - 1)) = q[j]
  BY <1>2, <1>6, KeyOfBytes
<1>8. f[i] = [f[i + l] EXCEPT !.keys = <<KeyOf(SubSeq(b, i, i + l - 1))>> \o @]
  <2>1. f[i] = ReadFrom(f, b, i)
    BY <1>1, <1>4 DEF Reads
  <2>2. ~(i > Len(b)) /\ l # 0
    <3> HIDE DEF l
    <3> QED BY <1>1, <1>3, <1>4
  <2> HIDE DEF i, l
  <2> QED BY <1>5, <2>1, <2>2 DEF ReadFrom
<1>9. f[i] = [f[i + l] EXCEPT !.keys = <<q[j]>> \o @]
  <2> HIDE DEF i, l
  <2> QED BY <1>7, <1>8
<1>10. f[i] = [[keys |-> keys, rest |-> rest] EXCEPT !.keys = <<q[j]>> \o @]
  <2> HIDE DEF i, l
  <2> QED BY <1>4, <1>9 DEF ReadsAs
<1> QED BY <1>10 DEF ReadsAs

(* The reading ends at the last key that has not arrived as a whole.         *)
LEMMA ReadingEnds ==
  ASSUME NEW b, NEW w, NEW q, NEW c, Arrived(b, w, q, c), EndsBetween(b, w),
         NEW J \in 0 .. Len(q), c[J] <= Len(b), J < Len(q) => c[J + 1] > Len(b),
         NEW f, Reads(f, b)
  PROVE  ReadsAs(f, c[J] + 1, <<>>, SubSeq(b, c[J] + 1, Len(b)))
<1>1. /\ q \in Seq(Keys) /\ Len(b) \in Nat /\ c \in [0 .. Len(q) -> Nat] /\ Len(q) \in Nat
      /\ c[J] \in Nat /\ c[Len(q)] = Len(w) /\ Len(b) <= Len(w)
  BY DEF Arrived, Cuts
<1>2. f[c[J] + 1] = ReadFrom(f, b, c[J] + 1)
  <2>1. c[J] + 1 \in 1 .. Len(b) + 1
    BY <1>1
  <2> QED BY <2>1 DEF Reads
<1>3. CASE c[J] = Len(b)
  <2>1. c[J] + 1 > Len(b)
    BY <1>1, <1>3
  <2> QED BY <1>2, <2>1 DEF ReadFrom, ReadsAs
<1>4. CASE c[J] # Len(b)
  <2>1. J # Len(q)
    BY <1>1, <1>4
  <2>2. J + 1 \in 1 .. Len(q) /\ (J + 1) - 1 = J /\ c[J] < Len(b) /\ c[J + 1] > Len(b)
    BY <1>1, <1>4, <2>1
  <2>3. /\ c[J + 1] \in Nat
        /\ Width(b, c[J] + 1) = IF c[J + 1] <= Len(b) THEN Len(Bytes(q[J + 1])) ELSE 0
    <3> DEFINE j == J + 1
    <3>1. j \in 1 .. Len(q) /\ c[j - 1] < Len(b) /\ c[j - 1] = c[J]
      BY <2>2
    <3> HIDE DEF j
    <3>2. /\ c[j] \in Nat
          /\ Width(b, c[j - 1] + 1) = IF c[j] <= Len(b) THEN Len(Bytes(q[j])) ELSE 0
      BY <3>1, WidthAtCut
    <3> QED BY <3>1, <3>2 DEF j
  <2>4. Width(b, c[J] + 1) = 0
    BY <1>1, <2>2, <2>3
  <2> QED BY <1>2, <2>4 DEF ReadFrom, ReadsAs
<1> QED BY <1>3, <1>4

(* The keys before place J, in the order they were pressed: from the last    *)
(* one back to the first.                                                    *)
LEMMA KeysRead ==
  ASSUME NEW b, NEW w, NEW q, NEW c, Arrived(b, w, q, c), EndsBetween(b, w)
  PROVE  \E J \in 0 .. Len(q) :
           /\ c[J] <= Len(b)
           /\ Consumed(b) = [keys |-> SubSeq(q, 1, J), rest |-> SubSeq(b, c[J] + 1, Len(b))]
<1>1. /\ q \in Seq(Keys) /\ Len(b) \in Nat /\ c \in [0 .. Len(q) -> Nat] /\ Len(q) \in Nat
      /\ c[0] = 0
  BY DEF Arrived, Cuts
<1>2. PICK J \in 0 .. Len(q) : c[J] <= Len(b) /\ (J < Len(q) => c[J + 1] > Len(b))
  BY <1>1, LastWhole
<1>3. PICK f : Consumed(b) = f[1] /\ Reads(f, b)
  BY <1>1, ConsumedBy
<1> DEFINE rest == SubSeq(b, c[J] + 1, Len(b))
           Read(j) == ReadsAs(f, c[j] + 1, SubSeq(q, j + 1, J), rest)
           T == {n \in Nat : n <= J /\ ~Read(J - n)}
<1>4. ASSUME T # {}
      PROVE  FALSE
  <2>1. PICK n \in T : \A m \in T : n <= m
    <3>1. T \in SUBSET Nat OBVIOUS
    <3> HIDE DEF T
    <3> QED BY <1>4, <3>1, LeastNumber
  <2>2. CASE n = 0
    <3>1. Read(J)
      <4>1. SubSeq(q, J + 1, J) = <<>>
        BY SubSeqEmpty
      <4>2. ReadsAs(f, c[J] + 1, <<>>, SubSeq(b, c[J] + 1, Len(b)))
        <5> HIDE DEF Read, T
        <5> QED BY <1>2, <1>3, ReadingEnds
      <4> QED BY <4>1, <4>2
    <3>2. J - 0 = J
      BY <1>2
    <3> HIDE DEF Read
    <3> QED BY <2>1, <2>2, <3>1, <3>2
  <2>3. CASE n # 0
    <3> DEFINE j == (J - n) + 1
    <3>1. n - 1 \in Nat /\ n - 1 <= J /\ n - 1 \notin T /\ J - (n - 1) = j
      <4> HIDE DEF Read
      <4> QED BY <2>1, <2>3
    <3>2. Read(j)
      <4> HIDE DEF Read, j
      <4> QED BY <3>1
    <3>3. j \in 1 .. Len(q) /\ j <= J /\ j - 1 = J - n
      <4>1. n \in Nat /\ n <= J /\ n # 0
        BY <2>1, <2>3
      <4>2. J \in Nat /\ J <= Len(q)
        BY <1>1, <1>2
      <4> HIDE DEF Read, T
      <4> QED BY <1>1, <4>1, <4>2
    <3>4. c[j] <= Len(b)
      <4> HIDE DEF j
      <4>1. j \in 0 .. Len(q) /\ (j < J => c[j] < c[J])
        BY <3>3 DEF Arrived, Cuts
      <4>2. c[j] \in Nat /\ c[J] \in Nat
        BY <1>1, <4>1
      <4> QED BY <1>1, <1>2, <3>3, <4>1, <4>2
    <3>5. ReadsAs(f, c[j - 1] + 1, <<q[j]>> \o SubSeq(q, j + 1, J), rest)
      <4> HIDE DEF j, rest
      <4>1. ReadsAs(f, c[j] + 1, SubSeq(q, j + 1, J), rest)
        BY <3>2
      <4> HIDE DEF Read, T
      <4> QED BY <1>3, <3>3, <3>4, <4>1, KeyRead
    <3>6. <<q[j]>> \o SubSeq(q, j + 1, J) = SubSeq(q, j, J)
      <4> HIDE DEF j, Read, T
      <4>1. J \in j .. Len(q)
        BY <1>1, <1>2, <3>3
      <4> QED BY <1>1, <3>3, <4>1, SubSeqRecursiveFirst
    <3>7. Read(j - 1)
      <4>1. (j - 1) + 1 = j
        BY <3>3
      <4> HIDE DEF j, rest
      <4> QED BY <3>5, <3>6, <4>1
    <3> HIDE DEF Read, j
    <3> QED BY <2>1, <3>3, <3>7
  <2> QED BY <2>2, <2>3
<1>5. Read(0)
  <2>1. J \in Nat /\ J <= J /\ J - J = 0
    BY <1>2
  <2>2. J \notin T
    BY <1>4
  <2> HIDE DEF Read
  <2>3. Read(J - J)
    BY <2>1, <2>2
  <2> QED BY <2>1, <2>3
<1>6. ReadsAs(f, 1, SubSeq(q, 1, J), rest)
  <2>1. c[0] + 1 = 1 /\ 0 + 1 = 1
    BY <1>1
  <2> HIDE DEF rest
  <2> QED BY <1>5, <2>1
<1> QED BY <1>2, <1>3, <1>6 DEF ReadsAs

(* What is left of the buffer, and what follows it, is the keys not read.    *)
LEMMA RestEncodes ==
  ASSUME NEW b, NEW w, NEW q, NEW c, Arrived(b, w, q, c),
         NEW J \in 0 .. Len(q), c[J] <= Len(b), NEW s \in Seq(Byte), w = b \o s
  PROVE  Encodes(SubSeq(b, c[J] + 1, Len(b)) \o s, SubSeq(q, J + 1, Len(q)))
<1> DEFINE a == c[J]
           m == Len(q)
           rest == SubSeq(b, a + 1, Len(b))
           v == rest \o s
           r == SubSeq(q, J + 1, m)
           d == [i \in 0 .. m - J |-> c[J + i] - a]
<1>1. /\ q \in Seq(Keys) /\ b \in Seq(Byte) /\ Len(b) \in Nat /\ m \in Nat /\ J \in Nat /\ J <= m
      /\ c \in [0 .. m -> Nat] /\ c[m] = Len(w) /\ a \in Nat /\ a <= Len(b)
  <2>1. q \in Seq(Keys) /\ b \in Seq(Byte) /\ c \in [0 .. m -> Nat] /\ c[m] = Len(w)
    BY DEF Arrived, Cuts
  <2>2. m \in Nat /\ Len(b) \in Nat
    BY <2>1
  <2>3. J \in Nat /\ J <= m
    BY <2>2
  <2>4. a \in Nat
    BY <2>1
  <2> QED BY <2>1, <2>2, <2>3, <2>4
<1>2. Len(s) \in Nat /\ Len(w) = Len(b) + Len(s)
      /\ \A x \in 1 .. Len(b) + Len(s) : w[x] = IF x <= Len(b) THEN b[x] ELSE s[x - Len(b)]
  BY <1>1, ConcatProperties
<1>3. /\ rest \in Seq(Byte) /\ Len(rest) = Len(b) - a
      /\ \A x \in 1 .. Len(b) - a : rest[x] = b[a + x]
  <2>1. \A x \in a + 1 .. Len(b) : b[x] \in Byte
    BY <1>1
  <2>2. a + 1 \in Int /\ Len(b) \in Int
    BY <1>1
  <2>3. /\ rest \in Seq(Byte)
        /\ Len(rest) = IF a + 1 <= Len(b) THEN Len(b) - (a + 1) + 1 ELSE 0
        /\ \A x \in 1 .. Len(b) - (a + 1) + 1 : rest[x] = b[(a + 1) + x - 1]
    BY <2>1, <2>2, SubSeqProperties
  <2> HIDE DEF rest, a
  <2>4. /\ Len(b) - (a + 1) + 1 = Len(b) - a /\ \A x \in 1 .. Len(b) - a : (a + 1) + x - 1 = a + x
        /\ (IF a + 1 <= Len(b) THEN Len(b) - (a + 1) + 1 ELSE 0) = Len(b) - a
    BY <1>1
  <2>5. \A x \in 1 .. Len(b) - a : rest[x] = b[(a + 1) + x - 1]
    BY <2>3, <2>4
  <2> QED BY <2>3, <2>4, <2>5
<1>4. v \in Seq(Byte) /\ Len(v) = Len(w) - a /\ \A x \in 1 .. Len(w) - a : v[x] = w[a + x]
  <2> HIDE DEF rest, a
  <2>1. /\ v \in Seq(Byte) /\ Len(v) = Len(rest) + Len(s)
        /\ \A x \in 1 .. Len(rest) + Len(s) : v[x] = IF x <= Len(rest) THEN rest[x] ELSE s[x - Len(rest)]
    BY <1>3, ConcatProperties
  <2> HIDE DEF v
  <2>2. Len(rest) + Len(s) = Len(w) - a
    BY <1>1, <1>2, <1>3
  <2>3. ASSUME NEW x \in 1 .. Len(w) - a
        PROVE  v[x] = w[a + x]
    <3>1. a + x \in 1 .. Len(b) + Len(s)
      BY <1>1, <1>2
    <3>2. CASE x <= Len(b) - a
      <4>1. x \in 1 .. Len(b) - a /\ a + x <= Len(b)
        BY <1>1, <3>2
      <4> QED BY <1>2, <1>3, <2>1, <2>2, <3>1, <3>2, <4>1
    <3>3. CASE ~(x <= Len(b) - a)
      <4>1. ~(a + x <= Len(b)) /\ (a + x) - Len(b) = x - (Len(b) - a)
        BY <1>1, <3>3
      <4>2. v[x] = s[x - (Len(b) - a)]
        BY <1>3, <2>1, <2>2, <3>3
      <4>3. w[a + x] = s[(a + x) - Len(b)]
        BY <1>2, <3>1, <4>1
      <4> QED BY <4>1, <4>2, <4>3
    <3> QED BY <3>2, <3>3
  <2> QED BY <2>1, <2>2, <2>3
<1>5. r \in Seq(Keys) /\ Len(r) = m - J /\ \A i \in 1 .. m - J : r[i] = q[J + i]
  <2>1. \A x \in J + 1 .. m : q[x] \in Keys
    BY <1>1
  <2>2. J + 1 \in Int /\ m \in Int
    BY <1>1
  <2>3. /\ r \in Seq(Keys)
        /\ Len(r) = IF J + 1 <= m THEN m - (J + 1) + 1 ELSE 0
        /\ \A x \in 1 .. m - (J + 1) + 1 : r[x] = q[(J + 1) + x - 1]
    BY <2>1, <2>2, SubSeqProperties
  <2> HIDE DEF r, m
  <2>4. m - (J + 1) + 1 = m - J /\ \A x \in 1 .. m - J : (J + 1) + x - 1 = J + x
    BY <1>1
  <2> QED BY <1>1, <2>3, <2>4
<1>6. \A i \in 0 .. m - J : J + i \in 0 .. m /\ (i # 0 => J < J + i)
  <2> HIDE DEF m
  <2> QED BY <1>1
<1>7. ASSUME NEW i \in 0 .. m - J
      PROVE  d[i] = c[J + i] - a /\ d[i] \in Nat /\ c[J + i] \in Nat
  <2>1. d[i] = c[J + i] - a
    OBVIOUS
  <2>2. c[J + i] \in Nat
    BY <1>1, <1>6
  <2>3. i # 0 => a < c[J + i]
    BY <1>6 DEF Arrived, Cuts
  <2>4. i = 0 => c[J + i] = a
    BY <1>1
  <2> HIDE DEF d, a
  <2> QED BY <1>1, <2>1, <2>2, <2>3, <2>4
<1>8. d \in [0 .. m - J -> Nat]
  <2>1. d = [i \in 0 .. m - J |-> d[i]]
    OBVIOUS
  <2> HIDE DEF d
  <2> QED BY <1>7, <2>1
<1> HIDE DEF d, v, r
<1>9. d[0] = 0 /\ d[m - J] = Len(v)
  <2>1. 0 \in 0 .. m - J /\ m - J \in 0 .. m - J /\ J + 0 = J /\ J + (m - J) = m
    BY <1>1
  <2> QED BY <1>1, <1>4, <1>7, <2>1
<1>10. ASSUME NEW i \in 0 .. m - J, NEW k \in 0 .. m - J, i < k
       PROVE  d[i] < d[k]
  <2>1. J + i \in 0 .. m /\ J + k \in 0 .. m /\ J + i < J + k
    BY <1>1, <1>6, <1>10
  <2>2. c[J + i] < c[J + k]
    BY <2>1 DEF Arrived, Cuts
  <2> HIDE DEF a
  <2> QED BY <1>1, <1>7, <2>2
<1>11. ASSUME NEW i \in 1 .. m - J
       PROVE  /\ d[i] = d[i - 1] + Len(Bytes(r[i]))
              /\ \A k \in 1 .. Len(Bytes(r[i])) : v[d[i - 1] + k] = Bytes(r[i])[k]
  <2>1. /\ i \in 0 .. m - J /\ i - 1 \in 0 .. m - J
        /\ J + i \in 1 .. m /\ (J + i) - 1 = J + (i - 1)
    BY <1>1
  <2>2. r[i] = q[J + i] /\ q[J + i] \in Keys
    BY <1>1, <1>5, <2>1
  <2>3. /\ c[J + i] = c[J + (i - 1)] + Len(Bytes(r[i]))
        /\ \A k \in 1 .. Len(Bytes(r[i])) : w[c[J + (i - 1)] + k] = Bytes(r[i])[k]
    <3> DEFINE x == J + i
    <3>1. x \in 1 .. Len(q) /\ x - 1 = J + (i - 1) /\ r[i] = q[x]
      BY <2>1, <2>2
    <3> HIDE DEF x
    <3>2. /\ c[x] = c[x - 1] + Len(Bytes(q[x]))
          /\ \A k \in 1 .. Len(Bytes(q[x])) : w[c[x - 1] + k] = Bytes(q[x])[k]
      BY <3>1 DEF Arrived, Cuts
    <3>3. /\ c[x] = c[J + (i - 1)] + Len(Bytes(r[i]))
          /\ \A k \in 1 .. Len(Bytes(r[i])) : w[c[J + (i - 1)] + k] = Bytes(r[i])[k]
      BY <3>1, <3>2
    <3> QED BY <3>3 DEF x
  <2>4. Len(Bytes(r[i])) \in Nat
    BY <2>2, BytesTyped
  <2>5. /\ d[i] = c[J + i] - a /\ d[i - 1] = c[J + (i - 1)] - a
        /\ c[J + i] \in Nat /\ c[J + (i - 1)] \in Nat /\ d[i - 1] \in Nat
    BY <1>7, <2>1
  <2>6. d[i] = d[i - 1] + Len(Bytes(r[i]))
    <3> HIDE DEF a
    <3> QED BY <1>1, <2>3, <2>4, <2>5
  <2>7. ASSUME NEW k \in 1 .. Len(Bytes(r[i]))
        PROVE  v[d[i - 1] + k] = Bytes(r[i])[k]
    <3>1. d[i] <= Len(v) /\ d[i] \in Nat
      <4>1. i = m - J \/ i < m - J
        BY <1>1
      <4>2. i < m - J => d[i] < d[m - J]
        <5>1. m - J \in 0 .. m - J
          BY <1>1
        <5> QED BY <1>10, <2>1, <5>1
      <4>3. d[m - J] = Len(v) /\ Len(v) \in Nat
        BY <1>4, <1>9
      <4>4. d[i] \in Nat
        BY <1>7, <2>1
      <4> DEFINE e == d[i]
                 l == Len(v)
                 h == d[m - J]
      <4>5. e = h \/ e < h
        BY <4>1, <4>2
      <4>6. h = l /\ l \in Nat /\ e \in Nat
        BY <4>3, <4>4
      <4> HIDE DEF e, l, h
      <4>7. e <= l
        BY <4>5, <4>6
      <4> QED BY <4>6, <4>7 DEF e, l
    <3>2. d[i - 1] + k \in 1 .. Len(v) /\ a + (d[i - 1] + k) = c[J + (i - 1)] + k
      <4> DEFINE l == Len(Bytes(r[i]))
                 e == d[i - 1]
                 g == d[i]
      <4>1. l \in Nat /\ e \in Nat /\ g = e + l /\ g <= Len(v) /\ k \in 1 .. l
        BY <2>4, <2>5, <2>6, <3>1
      <4>2. Len(v) \in Nat
        BY <1>4
      <4>3. e + k \in 1 .. Len(v)
        <5> HIDE DEF l, e, g
        <5> QED BY <4>1, <4>2
      <4>4. e = c[J + (i - 1)] - a
        BY <2>5
      <4>5. a + (e + k) = c[J + (i - 1)] + k
        <5> DEFINE z == c[J + (i - 1)]
        <5>1. k \in Nat /\ z \in Nat /\ a \in Nat /\ e = z - a
          BY <1>1, <2>4, <2>5, <4>4
        <5> HIDE DEF e, a, z
        <5>2. a + (e + k) = z + k
          BY <5>1
        <5> QED BY <5>2 DEF z
      <4> QED BY <4>3, <4>5
    <3>3. v[d[i - 1] + k] = w[a + (d[i - 1] + k)]
      BY <1>4, <3>2
    <3> QED BY <2>3, <3>2, <3>3
  <2> QED BY <2>6, <2>7
<1>12. Cuts(d, v, r)
  <2>1. Len(r) = m - J
    BY <1>5
  <2> HIDE DEF m
  <2> QED BY <1>8, <1>9, <1>10, <1>11, <2>1 DEF Cuts
<1>13. Encodes(v, r)
  BY <1>12 DEF Encodes
<1> QED BY <1>13 DEF v, r, rest, a, m

(* One more key is pressed.                                                  *)
LEMMA MoreEncoded ==
  ASSUME NEW w \in Seq(Byte), NEW q \in Seq(Keys), Encodes(w, q), NEW key \in Keys
  PROVE  Encodes(w \o Bytes(key), Append(q, key))
<1>1. PICK c : Cuts(c, w, q)
  BY DEF Encodes
<1> DEFINE m == Len(q)
           l == Len(Bytes(key))
           v == w \o Bytes(key)
           r == Append(q, key)
           d == [i \in 0 .. m + 1 |-> IF i <= m THEN c[i] ELSE Len(w) + l]
<1>2. /\ m \in Nat /\ Len(w) \in Nat /\ l \in {1, 3, 5} /\ Bytes(key) \in Seq(Byte)
      /\ c \in [0 .. m -> Nat] /\ c[m] = Len(w) /\ c[0] = 0
  BY <1>1, BytesTyped DEF Cuts
<1>3. /\ v \in Seq(Byte) /\ Len(v) = Len(w) + l
      /\ \A x \in 1 .. Len(w) + l : v[x] = IF x <= Len(w) THEN w[x] ELSE Bytes(key)[x - Len(w)]
  BY <1>2, ConcatProperties
<1>4. r \in Seq(Keys) /\ Len(r) = m + 1 /\ (\A i \in 1 .. m : r[i] = q[i]) /\ r[m + 1] = key
  BY AppendProperties
<1>5. /\ \A i \in 0 .. m : i \in 0 .. m + 1 /\ d[i] = c[i] /\ c[i] \in Nat
      /\ m + 1 \in 0 .. m + 1 /\ d[m + 1] = Len(w) + l
  <2>1. \A i \in 0 .. m : i \in 0 .. m + 1 /\ i <= m
    BY <1>2
  <2>2. m + 1 \in 0 .. m + 1 /\ ~(m + 1 <= m)
    BY <1>2
  <2> QED BY <1>2, <2>1, <2>2
<1>6. \A i \in 0 .. m + 1 : i \in 0 .. m \/ i = m + 1
  BY <1>2
<1> HIDE DEF v, r, l
<1>7. d \in [0 .. m + 1 -> Nat]
  <2>1. d = [i \in 0 .. m + 1 |-> d[i]]
    OBVIOUS
  <2>2. Len(w) + l \in Nat
    BY <1>2
  <2> HIDE DEF d
  <2>3. \A i \in 0 .. m + 1 : d[i] \in Nat
    BY <1>5, <1>6, <2>2
  <2> QED BY <2>1, <2>3
<1> HIDE DEF d
<1>8. \A i \in 0 .. m : c[i] <= Len(w)
  <2> TAKE i \in 0 .. m
  <2>1. m \in 0 .. m /\ (i < m \/ i = m)
    BY <1>2
  <2>2. i < m => c[i] < c[m]
    BY <1>1, <2>1 DEF Cuts
  <2> QED BY <1>2, <1>5, <2>1, <2>2
<1>9. ASSUME NEW i \in 0 .. m + 1, NEW k \in 0 .. m + 1, i < k
      PROVE  d[i] < d[k]
  <2>1. i \in 0 .. m
    BY <1>2, <1>9
  <2>2. CASE k \in 0 .. m
    <3>1. c[i] < c[k]
      BY <1>1, <1>9, <2>1, <2>2 DEF Cuts
    <3> QED BY <1>5, <2>1, <2>2, <3>1
  <2>3. CASE k = m + 1
    <3>1. c[i] <= Len(w) /\ c[i] \in Nat
      BY <1>5, <1>8, <2>1
    <3>2. c[i] < Len(w) + l
      BY <1>2, <3>1
    <3> QED BY <1>5, <2>1, <2>3, <3>2
  <2> QED BY <1>6, <2>2, <2>3
<1>10. ASSUME NEW i \in 1 .. m + 1
       PROVE  /\ d[i] = d[i - 1] + Len(Bytes(r[i]))
              /\ \A k \in 1 .. Len(Bytes(r[i])) : v[d[i - 1] + k] = Bytes(r[i])[k]
  <2>1. CASE i \in 1 .. m
    <3>1. r[i] = q[i] /\ i \in 0 .. m /\ i - 1 \in 0 .. m
      BY <1>2, <1>4, <2>1
    <3>2. /\ d[i] = c[i] /\ d[i - 1] = c[i - 1] /\ c[i - 1] \in Nat /\ c[i] \in Nat
          /\ c[i] <= Len(w)
      BY <1>5, <1>8, <3>1
    <3>3. /\ c[i] = c[i - 1] + Len(Bytes(q[i]))
          /\ \A k \in 1 .. Len(Bytes(q[i])) : w[c[i - 1] + k] = Bytes(q[i])[k]
      BY <1>1, <2>1 DEF Cuts
    <3>4. q[i] \in Keys
      BY <2>1
    <3>5. Len(Bytes(q[i])) \in Nat
      BY <3>4, BytesTyped
    <3>6. ASSUME NEW k \in 1 .. Len(Bytes(q[i]))
          PROVE  v[c[i - 1] + k] = w[c[i - 1] + k]
      <4> DEFINE z == c[i - 1]
                 y == c[i]
                 n == Len(Bytes(q[i]))
      <4>1. z \in Nat /\ y = z + n /\ n \in Nat /\ y <= Len(w) /\ k \in 1 .. n
        BY <3>2, <3>3, <3>5
      <4> HIDE DEF z, y, n
      <4>2. z + k \in 1 .. Len(w) + l /\ z + k <= Len(w)
        BY <1>2, <4>1
      <4>3. v[z + k] = w[z + k]
        BY <1>3, <4>2
      <4> QED BY <4>3 DEF z
    <3> QED BY <3>1, <3>2, <3>3, <3>6
  <2>2. CASE i = m + 1
    <3>1. r[i] = key /\ i - 1 = m /\ m \in 0 .. m
      BY <1>2, <1>4, <2>2
    <3>2. d[i] = Len(w) + l /\ d[i - 1] = Len(w)
      BY <1>2, <1>5, <2>2, <3>1
    <3>3. ASSUME NEW k \in 1 .. l
          PROVE  v[Len(w) + k] = Bytes(key)[k]
      <4>1. Len(w) + k \in 1 .. Len(w) + l /\ ~(Len(w) + k <= Len(w)) /\ (Len(w) + k) - Len(w) = k
        BY <1>2
      <4>2. v[Len(w) + k] = Bytes(key)[(Len(w) + k) - Len(w)]
        BY <1>3, <4>1
      <4> QED BY <4>1, <4>2
    <3> QED BY <3>1, <3>2, <3>3 DEF l
  <2>3. i \in 1 .. m \/ i = m + 1
    BY <1>2
  <2> QED BY <2>1, <2>2, <2>3
<1>11. d[0] = 0 /\ d[m + 1] = Len(v)
  <2>1. 0 \in 0 .. m
    BY <1>2
  <2> QED BY <1>2, <1>3, <1>5, <2>1
<1>12. Cuts(d, v, r)
  <2> HIDE DEF m
  <2> QED BY <1>4, <1>7, <1>9, <1>10, <1>11 DEF Cuts
<1>13. Encodes(v, r)
  BY <1>12 DEF Encodes
<1> QED BY <1>13 DEF v, r

LEMMA NothingEncoded ==
  ASSUME NEW q \in Seq(Keys), Encodes(<<>>, q)
  PROVE  q = <<>>
<1>1. PICK c : Cuts(c, <<>>, q)
  BY DEF Encodes
<1>2. 0 \in 0 .. Len(q) /\ Len(q) \in 0 .. Len(q) /\ Len(<<>>) = 0
  OBVIOUS
<1>3. c[0] = 0 /\ c[Len(q)] = 0 /\ (0 < Len(q) => c[0] < c[Len(q)])
  BY <1>1, <1>2 DEF Cuts
<1>4. Len(q) = 0
  BY <1>3
<1> QED BY <1>4

LEMMA EncodesNothing == Encodes(<<>>, <<>>)
<1> DEFINE c == [i \in 0 .. 0 |-> 0]
<1>1. Cuts(c, <<>>, <<>>)
  BY DEF Cuts
<1> HIDE DEF c
<1> QED BY <1>1 DEF Encodes

(* What the keys do to the interface: whatever is typed, it stays one that   *)
(* knows its prompt, and one that has stopped stays stopped.                 *)
InterfaceKnown(u) ==
    /\ {"active", "prompt"} \subseteq DOMAIN u
    /\ u.active \in BOOLEAN /\ u.prompt \in {"none", "confirm", "question"}

LEMMA HandledKnown ==
  ASSUME NEW u, InterfaceKnown(u), NEW key
  PROVE  InterfaceKnown(Handled(u, key)) /\ (u.active = FALSE => Handled(u, key).active = FALSE)
<1>1. CASE u.prompt = "confirm" \/ u.prompt = "question"
  <2>1. Handled(u, key) = [u EXCEPT !.prompt = "none"] \/ Handled(u, key) = u
    BY <1>1 DEF Handled
  <2>2. InterfaceKnown([u EXCEPT !.prompt = "none"]) /\ [u EXCEPT !.prompt = "none"].active = u.active
    BY DEF InterfaceKnown
  <2> QED BY <2>1, <2>2
<1>2. CASE u.prompt = "none" /\ key \in {"^C", "escape"}
  <2>1. Handled(u, key) = [u EXCEPT !.active = FALSE] \/ Handled(u, key) = u
    BY <1>2 DEF Handled
  <2>2. InterfaceKnown([u EXCEPT !.active = FALSE]) /\ [u EXCEPT !.active = FALSE].active = FALSE
    BY DEF InterfaceKnown
  <2> QED BY <2>1, <2>2
<1>3. CASE u.prompt = "none" /\ key \notin {"^C", "escape"}
  <2> DEFINE h == Handled(u, key)
  <2>1. CASE key = "wheel" \/ ~u.active \/ u.submitting
    BY <1>3, <2>1 DEF Handled
  <2>2. CASE ~(key = "wheel" \/ ~u.active \/ u.submitting)
    <3>1. CASE key = "return"
      <4>1. h = [u EXCEPT !.line = <<>>, !.cursor = 0, !.submitting = (u.line # <<>>)]
        BY <1>3, <2>2, <3>1 DEF Handled
      <4>2. DOMAIN h = DOMAIN u /\ h.active = u.active /\ h.prompt = u.prompt
        BY <4>1 DEF InterfaceKnown
      <4> HIDE DEF h
      <4>3. InterfaceKnown(h)
        BY <4>2 DEF InterfaceKnown
      <4> QED BY <2>2, <4>3 DEF h
    <3>2. CASE key = "backspace"
      <4>1. h = u \/ h = [u EXCEPT !.line = RemoveAt(@, u.cursor), !.cursor = @ - 1]
        BY <1>3, <2>2, <3>2 DEF Handled
      <4>2. DOMAIN h = DOMAIN u /\ h.active = u.active /\ h.prompt = u.prompt
        BY <4>1 DEF InterfaceKnown
      <4> HIDE DEF h
      <4>3. InterfaceKnown(h)
        BY <4>2 DEF InterfaceKnown
      <4> QED BY <2>2, <4>3 DEF h
    <3>3. CASE key = "left"
      <4>1. h = [u EXCEPT !.cursor = IF @ = 0 THEN 0 ELSE @ - 1]
        BY <1>3, <2>2, <3>3 DEF Handled
      <4>2. DOMAIN h = DOMAIN u /\ h.active = u.active /\ h.prompt = u.prompt
        BY <4>1 DEF InterfaceKnown
      <4> HIDE DEF h
      <4>3. InterfaceKnown(h)
        BY <4>2 DEF InterfaceKnown
      <4> QED BY <2>2, <4>3 DEF h
    <3>4. CASE key \notin {"return", "backspace", "left"}
      <4>1. h = Typed(u, key)
        BY <1>3, <2>2, <3>4 DEF Handled
      <4>2. DOMAIN h = DOMAIN u /\ h.active = u.active /\ h.prompt = u.prompt
        BY <4>1 DEF InterfaceKnown, Typed
      <4> HIDE DEF h
      <4>3. InterfaceKnown(h)
        BY <4>2 DEF InterfaceKnown
      <4> QED BY <2>2, <4>3 DEF h
    <3> QED BY <3>1, <3>2, <3>3, <3>4
  <2> QED BY <2>1, <2>2
<1> QED BY <1>1, <1>2, <1>3 DEF InterfaceKnown

(* The keys of a chunk are handled one after the other.                      *)
HandledUpTo(f, u, keys, n) ==
    f = [k \in 0 .. n |-> IF k = 0 THEN u ELSE Handled(f[k - 1], keys[k])]

LEMMA HandlingGoesOn ==
  ASSUME NEW u, NEW keys, NEW n \in Nat, NEW g, HandledUpTo(g, u, keys, n)
  PROVE  \E f : HandledUpTo(f, u, keys, n + 1)
<1> DEFINE f == [k \in 0 .. n + 1 |-> IF k = n + 1 THEN Handled(g[n], keys[n + 1]) ELSE g[k]]
<1>1. \A k \in 0 .. n : k \in 0 .. n + 1 /\ k # n + 1 /\ f[k] = g[k]
  OBVIOUS
<1>2. f[n + 1] = Handled(g[n], keys[n + 1])
  <2>1. n + 1 \in 0 .. n + 1
    OBVIOUS
  <2> QED BY <2>1
<1>3. f = [k \in 0 .. n + 1 |-> f[k]]
  OBVIOUS
<1> HIDE DEF f
<1>4. \A k \in 0 .. n : g[k] = IF k = 0 THEN u ELSE Handled(g[k - 1], keys[k])
  BY DEF HandledUpTo
<1>5. ASSUME NEW k \in 0 .. n + 1
      PROVE  f[k] = IF k = 0 THEN u ELSE Handled(f[k - 1], keys[k])
  <2>1. CASE k = n + 1
    <3>1. n \in 0 .. n /\ k - 1 = n /\ k # 0
      BY <2>1
    <3> QED BY <1>1, <1>2, <2>1, <3>1
  <2>2. CASE k \in 0 .. n
    <3>1. k # 0 => k - 1 \in 0 .. n
      BY <2>2
    <3>2. k # 0 => f[k - 1] = g[k - 1]
      BY <1>1, <3>1
    <3> QED BY <1>1, <1>4, <2>2, <3>2
  <2>3. k = n + 1 \/ k \in 0 .. n
    OBVIOUS
  <2> QED BY <2>1, <2>2, <2>3
<1> QED BY <1>3, <1>5 DEF HandledUpTo

LEMMA HandlingExists ==
  ASSUME NEW u, NEW keys, NEW n \in Nat
  PROVE  \E f : HandledUpTo(f, u, keys, n)
<1> DEFINE T == {m \in Nat : ~\E f : HandledUpTo(f, u, keys, m)}
<1> SUFFICES ASSUME T # {} PROVE FALSE
  OBVIOUS
<1>1. PICK m \in T : \A k \in T : m <= k
  <2>1. T \in SUBSET Nat OBVIOUS
  <2> HIDE DEF T
  <2> QED BY <2>1, LeastNumber
<1>2. CASE m = 0
  <2> DEFINE f == [k \in 0 .. 0 |-> u]
  <2>1. HandledUpTo(f, u, keys, 0) BY DEF HandledUpTo
  <2> QED BY <1>1, <1>2, <2>1
<1>3. CASE m # 0
  <2>1. m - 1 \in Nat /\ m - 1 \notin T /\ (m - 1) + 1 = m
    BY <1>1, <1>3
  <2>2. PICK g : HandledUpTo(g, u, keys, m - 1)
    BY <2>1
  <2>3. \E f : HandledUpTo(f, u, keys, (m - 1) + 1)
    BY <2>1, <2>2, HandlingGoesOn
  <2> QED BY <1>1, <2>1, <2>3
<1> QED BY <1>2, <1>3

LEMMA AllHandledKnown ==
  ASSUME NEW u, InterfaceKnown(u), NEW keys, NEW n \in Nat, NEW f, HandledUpTo(f, u, keys, n)
  PROVE  InterfaceKnown(f[n])
<1> DEFINE T == {k \in Nat : k <= n /\ ~InterfaceKnown(f[k])}
<1>1. \A k \in 0 .. n : f[k] = IF k = 0 THEN u ELSE Handled(f[k - 1], keys[k])
  BY DEF HandledUpTo
<1>2. ASSUME T # {}
      PROVE  FALSE
  <2>1. PICK k \in T : \A j \in T : k <= j
    <3>1. T \in SUBSET Nat OBVIOUS
    <3> HIDE DEF T
    <3> QED BY <1>2, <3>1, LeastNumber
  <2>2. CASE k = 0
    <3>1. f[0] = u
      BY <1>1
    <3> QED BY <2>1, <2>2, <3>1
  <2>3. CASE k # 0
    <3>1. k - 1 \in Nat /\ k - 1 <= n /\ k - 1 \notin T /\ k \in 0 .. n
      BY <2>1, <2>3
    <3>2. InterfaceKnown(f[k - 1])
      BY <3>1
    <3>3. InterfaceKnown(f[k])
      BY <1>1, <2>3, <3>1, <3>2, HandledKnown
    <3> QED BY <2>1, <3>3
  <2> QED BY <2>2, <2>3
<1> QED BY <1>2

(* Unless a sequence was torn, what was read is what was pressed first, and  *)
(* what has not been read, in the buffer and on its way, is the rest of it.  *)
Unread == SubSeq(pressed, Len(read) + 1, Len(pressed))

ReadSoFar ==
    /\ pressed \in Seq(Keys) /\ read \in Seq(Keys)
    /\ sent \in Seq(Byte) /\ rawInput \in Seq(Byte)
    /\ escapeTimer \in {"off", "set"}
    /\ Len(read) <= Len(pressed) /\ read = SubSeq(pressed, 1, Len(read))
    /\ ui.active => Encodes(rawInput \o sent, Unread)
    /\ ~ui.active => rawInput = <<>>

InputInv == torn \in BOOLEAN /\ (~torn => InterfaceKnown(ui) /\ ReadSoFar)

InputSpec == InputInit /\ [][InputNext]_inputVars

LEMMA InputInitHolds == InputInit => InputInv
<1> SUFFICES ASSUME InputInit PROVE InputInv
  OBVIOUS
<1>1. InterfaceKnown(ui)
  BY DEF InputInit, InterfaceKnown
<1>2. /\ pressed = <<>> /\ read = <<>> /\ sent = <<>> /\ rawInput = <<>>
      /\ escapeTimer = "off" /\ torn = FALSE
  BY DEF InputInit
<1>3. <<>> \in Seq(Keys) /\ <<>> \in Seq(Byte) /\ Len(<<>>) = 0
  OBVIOUS
<1>4. Unread = <<>> /\ read = SubSeq(pressed, 1, Len(read))
  BY <1>2, <1>3, SubSeqEmpty DEF Unread
<1>5. rawInput \o sent = <<>>
  BY <1>2, <1>3, ConcatEmptySeq
<1>6. Encodes(rawInput \o sent, Unread)
  BY <1>4, <1>5, EncodesNothing
<1>7. /\ pressed \in Seq(Keys) /\ read \in Seq(Keys) /\ sent \in Seq(Byte) /\ rawInput \in Seq(Byte)
      /\ Len(read) <= Len(pressed)
  BY <1>2, <1>3
<1>8. ReadSoFar
  BY <1>2, <1>4, <1>6, <1>7 DEF ReadSoFar
<1> QED BY <1>1, <1>2, <1>8 DEF InputInv

(* A part of a sequence of keys.                                             *)
LEMMA UnreadTyped ==
  ASSUME NEW s \in Seq(Keys), NEW r \in 0 .. Len(s)
  PROVE  SubSeq(s, r + 1, Len(s)) \in Seq(Keys) /\ Len(SubSeq(s, r + 1, Len(s))) = Len(s) - r
         /\ \A i \in 1 .. Len(s) - r : SubSeq(s, r + 1, Len(s))[i] = s[r + i]
<1> DEFINE n == Len(s)
           t == SubSeq(s, r + 1, n)
<1>1. n \in Nat /\ r \in Nat /\ r <= n /\ r + 1 \in Int /\ n \in Int
  OBVIOUS
<1>2. \A x \in r + 1 .. n : s[x] \in Keys
  BY <1>1
<1>3. /\ t \in Seq(Keys) /\ Len(t) = IF r + 1 <= n THEN n - (r + 1) + 1 ELSE 0
      /\ \A i \in 1 .. n - (r + 1) + 1 : t[i] = s[(r + 1) + i - 1]
  BY <1>1, <1>2, SubSeqProperties
<1> HIDE DEF t, n
<1>4. /\ n - (r + 1) + 1 = n - r /\ \A i \in 1 .. n - r : (r + 1) + i - 1 = r + i
      /\ (IF r + 1 <= n THEN n - (r + 1) + 1 ELSE 0) = n - r
  BY <1>1
<1>5. \A i \in 1 .. n - r : t[i] = s[r + i]
  BY <1>3, <1>4
<1>6. t \in Seq(Keys) /\ Len(t) = n - r
  BY <1>3, <1>4
<1> QED BY <1>5, <1>6 DEF t, n

LEMMA PressKeeps ==
  ASSUME InputInv, NEW key \in Keys, Press(key)
  PROVE  InputInv'
<1>1. torn' \in BOOLEAN /\ ui' = ui /\ torn' = torn
  BY DEF InputInv, Press
<1>2. ASSUME ~torn
      PROVE  InterfaceKnown(ui)' /\ ReadSoFar'
  <2>0. InterfaceKnown(ui)'
    BY <1>1, <1>2 DEF InputInv, InterfaceKnown
  <2> DEFINE r == Len(read)
             n == Len(pressed)
  <2>1. /\ pressed \in Seq(Keys) /\ read \in Seq(Keys) /\ sent \in Seq(Byte) /\ rawInput \in Seq(Byte)
        /\ escapeTimer \in {"off", "set"} /\ r <= n /\ read = SubSeq(pressed, 1, r)
        /\ (ui.active => Encodes(rawInput \o sent, Unread)) /\ (~ui.active => rawInput = <<>>)
    BY <1>2 DEF InputInv, ReadSoFar
  <2>2. /\ pressed' = Append(pressed, key) /\ sent' = sent \o Bytes(key)
        /\ UNCHANGED <<rawInput, escapeTimer, read, ui>>
    BY DEF Press
  <2>3. /\ pressed' \in Seq(Keys) /\ Len(pressed') = n + 1
        /\ (\A i \in 1 .. n : pressed'[i] = pressed[i]) /\ pressed'[n + 1] = key
    BY <2>1, <2>2, AppendProperties
  <2>4. sent' \in Seq(Byte) /\ Bytes(key) \in Seq(Byte)
    BY <2>1, <2>2, BytesTyped, ConcatProperties
  <2>5. r \in 0 .. n /\ r \in 0 .. Len(pressed') /\ n \in Nat
    BY <2>1, <2>3
  <2>6. read = SubSeq(pressed', 1, r)
    <3>1. \A x \in 1 .. r : pressed[x] \in Keys /\ pressed'[x] \in Keys /\ pressed'[x] = pressed[x]
      <4> TAKE x \in 1 .. r
      <4>1. x \in 1 .. n /\ x \in 1 .. Len(pressed')
        BY <2>3, <2>5
      <4>2. pressed[x] \in Keys /\ pressed'[x] \in Keys
        BY <2>1, <2>3, <4>1
      <4> QED BY <2>3, <4>1, <4>2
    <3>2. 1 \in Int /\ r \in Int
      BY <2>5
    <3> DEFINE t == SubSeq(pressed', 1, r)
    <3>3. t \in Seq(Keys) /\ (Len(t) = IF 1 <= r THEN r - 1 + 1 ELSE 0)
          /\ \A x \in 1 .. r - 1 + 1 : t[x] = pressed'[1 + x - 1]
      BY <3>1, <3>2, SubSeqProperties
    <3>4. /\ (Len(read) = IF 1 <= r THEN r - 1 + 1 ELSE 0)
          /\ \A x \in 1 .. r - 1 + 1 : read[x] = pressed[1 + x - 1]
      BY <2>1, <3>1, <3>2, SubSeqProperties
    <3> HIDE DEF t
    <3>5. r - 1 + 1 = r /\ \A x \in 1 .. r : 1 + x - 1 = x
      BY <2>5
    <3>6. \A x \in 1 .. r : t[x] = pressed'[x] /\ read[x] = pressed[x]
      BY <3>3, <3>4, <3>5
    <3>7. Len(t) = Len(read)
      BY <3>3, <3>4
    <3>8. \A x \in 1 .. Len(read) : t[x] = read[x]
      BY <3>1, <3>6
    <3>9. t = read
      BY <2>1, <3>3, <3>7, <3>8, SeqEqual
    <3> QED BY <3>9 DEF t
  <2>7. SubSeq(pressed', r + 1, n + 1) = Append(Unread, key)
    <3> DEFINE t == SubSeq(pressed', r + 1, n + 1)
               a == Append(Unread, key)
    <3>1. t \in Seq(Keys) /\ Len(t) = n + 1 - r /\ \A i \in 1 .. n + 1 - r : t[i] = pressed'[r + i]
      BY <2>3, <2>5, UnreadTyped
    <3>2. Unread \in Seq(Keys) /\ Len(Unread) = n - r /\ \A i \in 1 .. n - r : Unread[i] = pressed[r + i]
      BY <2>1, <2>5, UnreadTyped DEF Unread
    <3>3. /\ a \in Seq(Keys) /\ Len(a) = n - r + 1
          /\ (\A i \in 1 .. n - r : a[i] = Unread[i]) /\ a[n - r + 1] = key
      BY <3>2, AppendProperties
    <3> HIDE DEF t, a
    <3>4. ASSUME NEW i \in 1 .. n + 1 - r
          PROVE  t[i] = a[i]
      <4>1. CASE i = n - r + 1
        <5>1. r + i = n + 1
          BY <2>5, <4>1
        <5> QED BY <2>3, <3>1, <3>3, <4>1, <5>1
      <4>2. CASE i # n - r + 1
        <5>1. i \in 1 .. n - r /\ r + i \in 1 .. n
          BY <2>5, <4>2
        <5> QED BY <2>3, <3>1, <3>2, <3>3, <5>1
      <4> QED BY <4>1, <4>2
    <3>5. Len(t) = Len(a) /\ \A i \in 1 .. Len(t) : t[i] = a[i]
      <4>1. Len(t) = n + 1 - r /\ Len(a) = n - r + 1 /\ n + 1 - r = n - r + 1
        BY <2>5, <3>1, <3>3
      <4> QED BY <3>4, <4>1
    <3>6. t = a
      BY <3>1, <3>3, <3>5, SeqEqual
    <3> QED BY <3>6 DEF t, a
  <2>8. Unread' = Append(Unread, key)
    BY <2>2, <2>3, <2>7 DEF Unread
  <2>9. ui.active => Encodes(rawInput \o sent', Unread')
    <3> SUFFICES ASSUME ui.active PROVE Encodes(rawInput \o sent', Unread')
      OBVIOUS
    <3>1. rawInput \o sent \in Seq(Byte) /\ Unread \in Seq(Keys)
      BY <2>1, <2>5, UnreadTyped, ConcatProperties DEF Unread
    <3>2. rawInput \o sent' = (rawInput \o sent) \o Bytes(key)
      <4>1. rawInput \o (sent \o Bytes(key)) = (rawInput \o sent) \o Bytes(key)
        <5> DEFINE z == Bytes(key)
        <5>1. rawInput \in Seq(Byte) /\ sent \in Seq(Byte) /\ z \in Seq(Byte)
          BY <2>1, <2>4
        <5> HIDE DEF z
        <5>2. (rawInput \o sent) \o z = rawInput \o (sent \o z)
          BY ONLY <5>1, ConcatAssociative
        <5> QED BY <5>2 DEF z
      <4> QED BY <2>2, <4>1
    <3>3. Encodes((rawInput \o sent) \o Bytes(key), Append(Unread, key))
      BY <2>1, <3>1, MoreEncoded
    <3> QED BY <2>8, <3>2, <3>3
  <2>10. rawInput' = rawInput /\ read' = read /\ escapeTimer' = escapeTimer /\ ui' = ui
    BY <2>2
  <2>11. Len(read) <= Len(pressed')
    BY <2>3, <2>5
  <2> HIDE DEF r
  <2>12. read' = SubSeq(pressed', 1, Len(read'))
    BY <2>6, <2>10 DEF r
  <2> QED BY <2>0, <2>1, <2>3, <2>4, <2>9, <2>10, <2>11, <2>12 DEF ReadSoFar
<1> QED BY <1>1, <1>2 DEF InputInv

(* What TakeIn does with the buffer, as the keys and what is left of it.     *)
LEMMA Taken ==
  ASSUME NEW b, Len(Consumed(b).keys) \in Nat, TakeIn(b, "off"), InterfaceKnown(ui)
  PROVE  /\ InterfaceKnown(ui')
         /\ rawInput' = IF ui'.active THEN Consumed(b).rest ELSE <<>>
         /\ read' = read \o Consumed(b).keys
         /\ escapeTimer' \in {"off", "set"}
<1> DEFINE keys == Consumed(b).keys
           f == CHOOSE f : HandledUpTo(f, ui, keys, Len(keys))
<1>1. HandledUpTo(f, ui, keys, Len(keys))
  BY HandlingExists
<1>2. /\ ui' = f[Len(keys)]
      /\ rawInput' = IF f[Len(keys)].active THEN Consumed(b).rest ELSE <<>>
      /\ read' = read \o keys
      /\ escapeTimer' \in {"off", "set"}
  BY DEF TakeIn, HandledUpTo
<1> HIDE DEF f
<1>3. InterfaceKnown(f[Len(keys)])
  BY <1>1, AllHandledKnown
<1> QED BY <1>2, <1>3

LEMMA ArrivesKeeps ==
  ASSUME InputInv, NEW n \in Nat, n # 0, InputArrives(n)
  PROVE  InputInv'
<1> DEFINE chunk == SubSeq(sent, 1, n)
           later == SubSeq(sent, n + 1, Len(sent))
           b == rawInput \o chunk
           w == rawInput \o sent
<1>1. /\ ui.active /\ n <= Len(sent) /\ sent' = later /\ pressed' = pressed
      /\ torn' = (torn \/ EndsInside(n)) /\ TakeIn(b, "off")
  BY DEF InputArrives
<1>2. torn \in BOOLEAN /\ torn' \in BOOLEAN
  BY <1>1 DEF InputInv, EndsInside
<1>3. ASSUME torn' = FALSE
      PROVE  InterfaceKnown(ui)' /\ ReadSoFar'
  <2>1. torn = FALSE /\ ~EndsInside(n)
    BY <1>1, <1>2, <1>3
  <2>2. ReadSoFar /\ InterfaceKnown(ui)
    BY <2>1 DEF InputInv
  <2>3. /\ pressed \in Seq(Keys) /\ read \in Seq(Keys) /\ sent \in Seq(Byte) /\ rawInput \in Seq(Byte)
        /\ Len(read) <= Len(pressed) /\ read = SubSeq(pressed, 1, Len(read))
        /\ Encodes(w, Unread)
    BY <1>1, <2>2 DEF ReadSoFar
  <2>4. /\ Len(sent) \in Nat /\ Len(rawInput) \in Nat
        /\ Len(read) \in 0 .. Len(pressed) /\ n \in 1 .. Len(sent)
    BY <1>1, <2>3
  <2>5. /\ chunk \in Seq(Byte) /\ Len(chunk) = n /\ \A i \in 1 .. n : chunk[i] = sent[i]
        /\ later \in Seq(Byte) /\ chunk \o later = sent
    <3>1. \A x \in 1 .. Len(sent) : sent[x] \in Byte
      BY <2>3
    <3>2. /\ chunk \in Seq(Byte) /\ Len(chunk) = (IF 1 <= n THEN n - 1 + 1 ELSE 0)
          /\ \A i \in 1 .. n - 1 + 1 : chunk[i] = sent[1 + i - 1]
      <4>1. \A x \in 1 .. n : sent[x] \in Byte
        BY <2>4, <3>1
      <4>2. 1 \in Int /\ n \in Int
        OBVIOUS
      <4> QED BY <4>1, <4>2, SubSeqProperties
    <3>3. later \in Seq(Byte)
      <4>1. \A x \in n + 1 .. Len(sent) : sent[x] \in Byte
        BY <2>4, <3>1
      <4>2. n + 1 \in Int /\ Len(sent) \in Int
        BY <2>4
      <4> QED BY <4>1, <4>2, SubSeqProperties
    <3>4. chunk \o later = sent
      <4>1. 1 \in 1 .. Len(sent) + 1 /\ n \in 1 - 1 .. Len(sent) /\ Len(sent) \in n .. Len(sent)
        BY <2>4
      <4>2. chunk \o later = SubSeq(sent, 1, Len(sent))
        BY <2>3, <4>1, ConcatAdjacentSubSeq
      <4>3. SubSeq(sent, 1, Len(sent)) = sent
        BY <2>3, SubSeqFull
      <4> QED BY <4>2, <4>3
    <3> HIDE DEF chunk, later
    <3>5. Len(chunk) = n /\ n - 1 + 1 = n /\ \A i \in 1 .. n : 1 + i - 1 = i
      BY <2>4, <3>2
    <3>6. \A i \in 1 .. n : chunk[i] = sent[i]
      BY <3>2, <3>5
    <3> QED BY <3>2, <3>3, <3>4, <3>5, <3>6
  <2> HIDE DEF chunk, later
  <2>6. /\ b \in Seq(Byte) /\ Len(b) = Len(rawInput) + n
        /\ \A i \in 1 .. Len(rawInput) + n : b[i] = IF i <= Len(rawInput) THEN rawInput[i]
                                                   ELSE chunk[i - Len(rawInput)]
    <3>1. rawInput \in Seq(Byte) /\ chunk \in Seq(Byte) /\ Len(chunk) = n
      BY <2>3, <2>5
    <3> QED BY <3>1, ConcatProperties
  <2>7. /\ w \in Seq(Byte) /\ Len(w) = Len(rawInput) + Len(sent)
        /\ \A i \in 1 .. Len(rawInput) + Len(sent) : w[i] = IF i <= Len(rawInput) THEN rawInput[i]
                                                           ELSE sent[i - Len(rawInput)]
    BY <2>3, ConcatProperties
  <2>8. w = b \o later
    <3>1. rawInput \in Seq(Byte) /\ chunk \in Seq(Byte) /\ later \in Seq(Byte)
      BY <2>3, <2>5
    <3>2. (rawInput \o chunk) \o later = rawInput \o (chunk \o later)
      BY ONLY <3>1, ConcatAssociative
    <3> QED BY <2>5, <3>2
  <2> DEFINE q == Unread
  <2>9. q \in Seq(Keys) /\ Len(q) = Len(pressed) - Len(read)
        /\ \A i \in 1 .. Len(pressed) - Len(read) : q[i] = pressed[Len(read) + i]
    BY <2>3, <2>4, UnreadTyped DEF Unread
  <2>10. PICK c : Cuts(c, w, q)
    BY <2>3 DEF Encodes
  <2> HIDE DEF q, b, w
  <2>11. Arrived(b, w, q, c)
    <3>1. Len(b) <= Len(w)
      BY <2>4, <2>6, <2>7
    <3>2. ASSUME NEW i \in 1 .. Len(b)
          PROVE  b[i] = w[i]
      <4>1. i \in 1 .. Len(rawInput) + n /\ i \in 1 .. Len(rawInput) + Len(sent)
        BY <2>4, <2>6
      <4>2. CASE i <= Len(rawInput)
        BY <2>6, <2>7, <4>1, <4>2
      <4>3. CASE ~(i <= Len(rawInput))
        <5>1. i - Len(rawInput) \in 1 .. n
          BY <2>4, <4>1, <4>3
        <5> QED BY <2>5, <2>6, <2>7, <4>1, <4>3, <5>1
      <4> QED BY <4>2, <4>3
    <3> QED BY <2>6, <2>7, <2>9, <2>10, <3>1, <3>2 DEF Arrived
  <2>12. EndsBetween(b, w)
    <3> SUFFICES ASSUME Len(b) < Len(w), w[Len(b)] = "ESC", w[Len(b) + 1] = "["
                 PROVE  FALSE
      BY DEF EndsBetween
    <3>1. n < Len(sent)
      BY <2>4, <2>6, <2>7
    <3>2. /\ Len(b) \in 1 .. Len(rawInput) + Len(sent) /\ ~(Len(b) <= Len(rawInput))
          /\ Len(b) - Len(rawInput) = n
          /\ Len(b) + 1 \in 1 .. Len(rawInput) + Len(sent) /\ ~(Len(b) + 1 <= Len(rawInput))
          /\ Len(b) + 1 - Len(rawInput) = n + 1
      BY <2>4, <2>6, <3>1
    <3>3. sent[n] = "ESC" /\ sent[n + 1] = "["
      BY <2>7, <3>2
    <3> QED BY <2>1, <3>1, <3>3 DEF EndsInside
  <2>13. PICK J \in 0 .. Len(q) :
           /\ c[J] <= Len(b)
           /\ Consumed(b) = [keys |-> SubSeq(q, 1, J), rest |-> SubSeq(b, c[J] + 1, Len(b))]
    BY <2>11, <2>12, KeysRead
  <2> DEFINE taken == SubSeq(q, 1, J)
             left == SubSeq(b, c[J] + 1, Len(b))
             r == Len(read)
  <2>14. Consumed(b).keys = taken /\ Consumed(b).rest = left
    <3>1. Consumed(b) = [keys |-> taken, rest |-> left]
      BY <2>13
    <3> HIDE DEF taken, left
    <3> QED BY <3>1
  <2>15. /\ r \in Nat /\ J \in Nat /\ r + J <= Len(pressed) /\ Len(pressed) \in Nat
         /\ \A i \in 1 .. J : q[i] = pressed[r + i] /\ q[i] \in Keys /\ r + i \in 1 .. Len(pressed)
    <3>1. r \in Nat /\ Len(pressed) \in Nat /\ J \in Nat /\ J <= Len(pressed) - r
      BY <2>3, <2>4, <2>9
    <3>2. ASSUME NEW i \in 1 .. J
          PROVE  q[i] = pressed[r + i] /\ q[i] \in Keys /\ r + i \in 1 .. Len(pressed)
      <4>1. i \in 1 .. Len(pressed) - r /\ r + i \in 1 .. Len(pressed)
        BY <3>1
      <4> QED BY <2>3, <2>9, <4>1
    <3> HIDE DEF r
    <3> QED BY <3>1, <3>2
  <2>16. taken \in Seq(Keys) /\ Len(taken) = J /\ \A i \in 1 .. J : taken[i] = pressed[r + i]
    <3>1. 1 \in Int /\ J \in Int
      BY <2>15
    <3>2. /\ taken \in Seq(Keys) /\ Len(taken) = (IF 1 <= J THEN J - 1 + 1 ELSE 0)
          /\ \A i \in 1 .. J - 1 + 1 : taken[i] = q[1 + i - 1]
      BY <2>15, <3>1, SubSeqProperties
    <3> HIDE DEF taken, r
    <3>3. Len(taken) = J /\ J - 1 + 1 = J /\ \A i \in 1 .. J : 1 + i - 1 = i
      BY <2>15, <3>2
    <3>4. \A i \in 1 .. J : taken[i] = q[i]
      BY <3>2, <3>3
    <3> QED BY <2>15, <3>2, <3>3, <3>4
  <2> HIDE DEF taken
  <2>17. /\ InterfaceKnown(ui')
         /\ rawInput' = (IF ui'.active THEN left ELSE <<>>)
         /\ read' = read \o taken
         /\ escapeTimer' \in {"off", "set"}
    <3>1. Len(Consumed(b).keys) \in Nat
      BY <2>14, <2>15, <2>16
    <3>2. TakeIn(b, "off")
      BY <1>1
    <3> HIDE DEF left
    <3> QED BY <2>2, <2>14, <3>1, <3>2, Taken
  <2>18. /\ read' \in Seq(Keys) /\ Len(read') = r + J
         /\ \A i \in 1 .. r + J : read'[i] = pressed[i]
    <3>1. /\ read' \in Seq(Keys) /\ Len(read') = Len(read) + Len(taken)
          /\ \A i \in 1 .. Len(read) + Len(taken) :
               read'[i] = IF i <= Len(read) THEN read[i] ELSE taken[i - Len(read)]
      BY <2>3, <2>16, <2>17, ConcatProperties
    <3>2. Len(read) = r /\ Len(taken) = J
      BY <2>16
    <3>3. \A i \in 1 .. r : read[i] = pressed[i]
      <4>1. \A x \in 1 .. r : pressed[x] \in Keys
        BY <2>3, <2>4
      <4>2. 1 \in Int /\ r \in Int
        BY <2>15
      <4>3. \A x \in 1 .. r - 1 + 1 : SubSeq(pressed, 1, r)[x] = pressed[1 + x - 1]
        BY <4>1, <4>2, SubSeqProperties
      <4>4. r - 1 + 1 = r /\ \A x \in 1 .. r : 1 + x - 1 = x
        BY <2>15
      <4>5. read = SubSeq(pressed, 1, r)
        BY <2>3
      <4> HIDE DEF r
      <4>6. \A x \in 1 .. r : SubSeq(pressed, 1, r)[x] = pressed[x]
        BY <4>3, <4>4
      <4> QED BY <4>5, <4>6
    <3> HIDE DEF r
    <3>4. ASSUME NEW i \in 1 .. r + J
          PROVE  read'[i] = pressed[i]
      <4>1. CASE i <= r
        <5>1. i \in 1 .. r
          BY <2>15, <4>1
        <5> QED BY <3>1, <3>2, <3>3, <4>1, <5>1
      <4>2. CASE ~(i <= r)
        <5>1. i - r \in 1 .. J /\ r + (i - r) = i
          BY <2>15, <4>2
        <5>2. read'[i] = taken[i - r]
          BY <3>1, <3>2, <4>2
        <5>3. taken[i - r] = pressed[r + (i - r)]
          BY <2>16, <5>1
        <5> QED BY <5>1, <5>2, <5>3
      <4> QED BY <4>1, <4>2
    <3> QED BY <3>1, <3>2, <3>4
  <2>19. read' = SubSeq(pressed, 1, r + J)
    <3> DEFINE k == r + J
               t == SubSeq(pressed, 1, k)
    <3>1. k \in Nat /\ 1 \in Int /\ k \in Int /\ k <= Len(pressed)
      BY <2>15
    <3>2. \A x \in 1 .. k : pressed[x] \in Keys
      <4> HIDE DEF k
      <4> QED BY <2>3, <2>15, <3>1
    <3>3. /\ t \in Seq(Keys) /\ Len(t) = (IF 1 <= k THEN k - 1 + 1 ELSE 0)
          /\ \A x \in 1 .. k - 1 + 1 : t[x] = pressed[1 + x - 1]
      BY <3>1, <3>2, SubSeqProperties
    <3>4. Len(read') = k /\ \A i \in 1 .. k : read'[i] = pressed[i]
      BY <2>18
    <3> HIDE DEF k, t
    <3>5. Len(t) = k /\ k - 1 + 1 = k /\ \A x \in 1 .. k : 1 + x - 1 = x
      BY <3>1, <3>3
    <3>6. \A x \in 1 .. Len(read') : read'[x] = t[x]
      BY <3>3, <3>4, <3>5
    <3>7. read' = t
      BY <2>18, <3>3, <3>4, <3>5, <3>6, SeqEqual
    <3> QED BY <3>7 DEF t, k
  <2>20. Unread' = SubSeq(q, J + 1, Len(q))
    <3> DEFINE s == SubSeq(pressed, (r + J) + 1, Len(pressed))
               t == SubSeq(q, J + 1, Len(q))
    <3>1. r + J \in 0 .. Len(pressed) /\ J \in 0 .. Len(q)
      BY <2>13, <2>15
    <3>2. /\ s \in Seq(Keys) /\ Len(s) = Len(pressed) - (r + J)
          /\ \A i \in 1 .. Len(pressed) - (r + J) : s[i] = pressed[(r + J) + i]
      BY <2>3, <3>1, UnreadTyped
    <3>3. t \in Seq(Keys) /\ Len(t) = Len(q) - J /\ \A i \in 1 .. Len(q) - J : t[i] = q[J + i]
      BY <2>9, <3>1, UnreadTyped
    <3>4. Unread' = s
      BY <1>1, <2>18 DEF Unread
    <3> HIDE DEF s, t, r
    <3>5. Len(q) - J = Len(pressed) - (r + J)
      BY <2>9, <2>15 DEF r
    <3>6. ASSUME NEW i \in 1 .. Len(pressed) - (r + J)
          PROVE  s[i] = t[i]
      <4>1. J + i \in 1 .. Len(pressed) - r /\ r + (J + i) = (r + J) + i
        BY <2>15
      <4>2. q[J + i] = pressed[r + (J + i)]
        BY <2>9, <4>1 DEF r
      <4> QED BY <3>2, <3>3, <3>5, <4>1, <4>2
    <3>7. s = t
      <4>1. Len(s) = Len(t) /\ \A i \in 1 .. Len(s) : s[i] = t[i]
        BY <3>2, <3>3, <3>5, <3>6
      <4> QED BY <3>2, <3>3, <4>1, SeqEqual
    <3> QED BY <3>4, <3>7 DEF t
  <2>21. Encodes(left \o later, SubSeq(q, J + 1, Len(q)))
    BY <2>5, <2>8, <2>11, <2>13, RestEncodes
  <2>22. left \in Seq(Byte)
    <3>1. c[J] \in Nat /\ Len(b) \in Nat
      BY <2>6, <2>10 DEF Cuts
    <3>2. \A x \in c[J] + 1 .. Len(b) : b[x] \in Byte
      <4>1. \A x \in 1 .. Len(b) : b[x] \in Byte
        BY <2>6
      <4> QED BY <3>1, <4>1
    <3>3. c[J] + 1 \in Int /\ Len(b) \in Int
      BY <3>1
    <3> QED BY <3>2, <3>3, SubSeqProperties
  <2> HIDE DEF left, r
  <2>23. rawInput' \in Seq(Byte) /\ sent' \in Seq(Byte) /\ pressed' \in Seq(Keys)
    <3>1. <<>> \in Seq(Byte)
      OBVIOUS
    <3> QED BY <1>1, <2>3, <2>5, <2>17, <2>22, <3>1
  <2>24. Len(read') <= Len(pressed') /\ read' = SubSeq(pressed', 1, Len(read'))
    BY <1>1, <2>15, <2>18, <2>19
  <2>25. ui'.active => Encodes(rawInput' \o sent', Unread')
    BY <1>1, <2>17, <2>20, <2>21
  <2>26. ~ui'.active => rawInput' = <<>>
    BY <2>17
  <2> QED BY <2>17, <2>18, <2>23, <2>24, <2>25, <2>26 DEF ReadSoFar
<1> QED BY <1>2, <1>3 DEF InputInv


(* The flush tears the sequence in the buffer; nothing else changes it.      *)
LEMMA FlushKeeps ==
  ASSUME InputInv, EscapeFlush
  PROVE  InputInv'
<1>1. torn \in BOOLEAN /\ torn' \in BOOLEAN /\ (torn' = FALSE => torn = FALSE)
  BY DEF InputInv, EscapeFlush
<1>2. ASSUME torn' = FALSE
      PROVE  InterfaceKnown(ui)' /\ ReadSoFar'
  <2>1. ReadSoFar /\ InterfaceKnown(ui) /\ escapeTimer = "set"
    BY <1>1, <1>2 DEF InputInv, EscapeFlush, ReadSoFar
  <2>2. /\ UNCHANGED <<pressed, sent, rawInput, read, ui>>
        /\ escapeTimer' = "off"
    BY <1>1, <1>2, <2>1 DEF EscapeFlush
  <2>3. Unread' = Unread
    BY <2>2 DEF Unread
  <2> QED BY <2>1, <2>2, <2>3 DEF ReadSoFar
<1> QED BY <1>1, <1>2 DEF InputInv

LEMMA BytesLeftAlone ==
  ASSUME InputInv, UNCHANGED byteVars,
         InterfaceKnown(ui) => InterfaceKnown(ui') /\ ui'.active = ui.active
  PROVE  InputInv'
<1>1. UNCHANGED <<pressed, sent, rawInput, escapeTimer, read, torn>>
  BY DEF byteVars
<1>2. ASSUME torn' = FALSE
      PROVE  InterfaceKnown(ui)' /\ ReadSoFar'
  <2>1. ReadSoFar /\ InterfaceKnown(ui)
    BY <1>1, <1>2 DEF InputInv
  <2>2. InterfaceKnown(ui)' /\ ui'.active = ui.active
    BY <2>1
  <2>3. Unread' = Unread
    BY <1>1 DEF Unread
  <2> QED BY <1>1, <2>1, <2>2, <2>3 DEF ReadSoFar
<1> QED BY <1>1, <1>2 DEF InputInv

LEMMA InputStep == InputInv /\ [InputNext]_inputVars => InputInv'
<1> SUFFICES ASSUME InputInv, [InputNext]_inputVars PROVE InputInv'
  OBVIOUS
<1>1. CASE \E key \in Keys : Press(key)
  BY <1>1, PressKeeps
<1>2. CASE \E n \in 1 .. 5 * MaxKeys : InputArrives(n)
  <2>1. PICK n \in 1 .. 5 * MaxKeys : InputArrives(n)
    BY <1>2
  <2>2. n \in Nat /\ n # 0
    BY KeysAssumption
  <2> QED BY <2>1, <2>2, ArrivesKeeps
<1>3. CASE \E kind \in {"confirm", "question"} : PromptOpens(kind)
  <2>1. PICK kind \in {"confirm", "question"} : PromptOpens(kind)
    BY <1>3
  <2>2. UNCHANGED byteVars /\ ui' = [ui EXCEPT !.prompt = kind]
    BY <2>1 DEF PromptOpens
  <2>3. InterfaceKnown(ui) => InterfaceKnown(ui') /\ ui'.active = ui.active
    BY <2>2 DEF InterfaceKnown
  <2> QED BY <2>2, <2>3, BytesLeftAlone
<1>4. CASE PromptAborted
  <2>1. UNCHANGED byteVars /\ ui' = [ui EXCEPT !.prompt = "none"]
    BY <1>4 DEF PromptAborted
  <2>2. InterfaceKnown(ui) => InterfaceKnown(ui') /\ ui'.active = ui.active
    BY <2>1 DEF InterfaceKnown
  <2> QED BY <2>1, <2>2, BytesLeftAlone
<1>5. CASE TurnEnds
  <2>1. UNCHANGED byteVars /\ ui' = [ui EXCEPT !.submitting = FALSE, !.turns = @ + 1]
    BY <1>5 DEF TurnEnds
  <2>2. ASSUME InterfaceKnown(ui)
        PROVE  InterfaceKnown(ui') /\ ui'.active = ui.active
    <3>1. DOMAIN ui' = DOMAIN ui /\ ui'.active = ui.active /\ ui'.prompt = ui.prompt
      BY <2>1, <2>2 DEF InterfaceKnown
    <3> QED BY <2>2, <3>1 DEF InterfaceKnown
  <2> QED BY <2>1, <2>2, BytesLeftAlone
<1>6. CASE UNCHANGED inputVars
  <2>1. UNCHANGED byteVars /\ ui' = ui
    BY <1>6 DEF inputVars
  <2>2. InterfaceKnown(ui) => InterfaceKnown(ui') /\ ui'.active = ui.active
    BY <2>1
  <2> QED BY <2>1, <2>2, BytesLeftAlone
<1> QED BY <1>1, <1>2, <1>3, <1>4, <1>5, <1>6, FlushKeeps DEF InputNext

LEMMA ReadAsPressed == InputInv => KeysAsPressed
<1> SUFFICES ASSUME InputInv, ~torn
             PROVE  /\ IsPrefix(read, pressed)
                    /\ ui.active /\ sent = <<>> /\ rawInput = <<>> => read = pressed
  BY DEF KeysAsPressed
<1>1. ReadSoFar
  BY DEF InputInv
<1>2. /\ pressed \in Seq(Keys) /\ read \in Seq(Keys)
      /\ Len(read) <= Len(pressed) /\ read = SubSeq(pressed, 1, Len(read))
      /\ ui.active => Encodes(rawInput \o sent, Unread)
  BY <1>1 DEF ReadSoFar
<1>3. IsPrefix(read, pressed)
  <2>1. read = SubSeq(read, 1, Len(read))
    BY <1>2, SubSeqFull
  <2> QED BY <1>2, <2>1 DEF IsPrefix
<1>4. ASSUME ui.active, sent = <<>>, rawInput = <<>>
      PROVE  read = pressed
  <2>1. rawInput \o sent = <<>>
    BY <1>4, ConcatEmptySeq
  <2>2. Encodes(<<>>, Unread)
    BY <1>2, <1>4, <2>1
  <2>3. /\ Unread \in Seq(Keys) /\ Len(Unread) = Len(pressed) - Len(read)
        /\ Len(read) \in Nat /\ Len(pressed) \in Nat
    <3>1. Len(read) \in 0 .. Len(pressed)
      BY <1>2
    <3> QED BY <1>2, <3>1, UnreadTyped DEF Unread
  <2>4. Len(Unread) = 0
    BY <2>2, <2>3, NothingEncoded
  <2>5. Len(read) = Len(pressed)
    BY <2>3, <2>4
  <2> QED BY <1>2, <2>5, SubSeqFull
<1> QED BY <1>3, <1>4

(* However the bytes are cut into chunks and whatever a prompt or a turn     *)
(* does in between, they are taken for the keys that were pressed, one by    *)
(* one, for any keys but a bracket and any number of them (terminal-ui.ts    *)
(* 404-465, 499-510).                                                        *)
THEOREM KeysKept == InputSpec => []KeysAsPressed
BY InputInitHolds, InputStep, ReadAsPressed, PTL DEF InputSpec

-----------------------------------------------------------------------------
(* The parts together: they share no variable, so a behaviour of the whole   *)
(* is a behaviour of each of them.                                           *)
LEMMA OnePartMoves ==
  [Next]_platformVars =>
    /\ [StreamNext]_streamVars /\ [InputNext]_inputVars /\ [TypeNext]_typeVars
    /\ [JudgeNext]_judgeVars /\ [BuildNext]_buildVars /\ [SetupNext]_setupVars
    /\ [ReviewNext]_reviewVars /\ [EventsNext]_eventVars
<1> SUFFICES ASSUME [Next]_platformVars
             PROVE  /\ [StreamNext]_streamVars /\ [InputNext]_inputVars /\ [TypeNext]_typeVars
                    /\ [JudgeNext]_judgeVars /\ [BuildNext]_buildVars /\ [SetupNext]_setupVars
                    /\ [ReviewNext]_reviewVars /\ [EventsNext]_eventVars
  OBVIOUS
<1>1. CASE UNCHANGED platformVars
  BY <1>1 DEF platformVars, screenVars, harnessVars, pagesVars
<1>2. CASE Next
  BY <1>2 DEF Next, screenVars, harnessVars, pagesVars
<1> QED BY <1>1, <1>2

LEMMA PartsOfTheWhole ==
  Spec => /\ StreamSpec /\ InputSpec /\ TypeSpec /\ JudgeSpec
          /\ BuildSpec /\ SetupSpec /\ ReviewSpec /\ EventsSpec
<1>1. Init => /\ StreamInit /\ InputInit /\ TypeInit /\ JudgeInit
              /\ BuildInit /\ SetupInit /\ ReviewInit /\ EventsInit
  BY DEF Init
<1> QED
  BY <1>1, OnePartMoves, PTL
  DEF Spec, StreamSpec, InputSpec, TypeSpec, JudgeSpec, BuildSpec, SetupSpec, ReviewSpec,
      EventsSpec

(* What must not happen to a reply, a key, a submission, a slot and a root,  *)
(* or an event does not happen in the program as a whole.                    *)
THEOREM PlatformSafe ==
  Spec => [](/\ RepliesTakenWhole /\ GradedAsSubmitted /\ SlotsAndRootsExact
             /\ NothingSkipped)
BY PartsOfTheWhole, RepliesWhole, WorkGraded, SlotsAndRoots, StreamSkipsNothing, PTL

(* And what no step of it may do, none does: an environment whose image is   *)
(* not there is not found ready, a decision is not taken back.               *)
THEOREM PlatformStepsSafe == Spec => ReadyHasImage /\ DecisionsStand
BY PartsOfTheWhole, EnvironmentHasImage, DecisionsKept, PTL

(* What is typed and what is answered come through as they are, in the       *)
(* program as a whole: the keys however their bytes arrive, the replies      *)
(* however their pieces do (terminal-ui.ts 404-465, 499-510;                 *)
(* terminal-ui-event-sink.ts).                                               *)
THEOREM TerminalKept == Spec => []TerminalFaithful
BY PartsOfTheWhole, KeysKept, RepliesShown, PTL DEF TerminalFaithful

=============================================================================
