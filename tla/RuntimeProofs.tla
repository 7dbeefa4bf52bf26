--------------------------- MODULE RuntimeProofs ---------------------------
(***************************************************************************)
(* Proofs about the parts of the runtime around the agent loop, for any    *)
(* bounds and any set of calls: background tasks, subagent slots, MCP      *)
(* clients, sandboxed commands, folds of the conversation and the shell    *)
(* around the sessions.  Each has an inductive invariant of its own, and   *)
(* the specification that composes them keeps all six.                     *)
(***************************************************************************)
EXTENDS MCRuntime, FiniteSetTheorems, SequenceTheorems, TLAPS

-----------------------------------------------------------------------------
(* Background tasks: what a reader was told is all there was up to then,     *)
(* also while it waits or reads.                                             *)
TaskInv ==
    /\ total \in Nat /\ offset \in 0 .. total
    /\ total <= MaxOutput => seen = 1 .. offset

LEMMA TaskInitHolds == TaskInit => TaskInv
BY DEF TaskInit, TaskInv

LEMMA TaskStepKeeps == TaskInv /\ [TaskNext]_taskVars => TaskInv'
<1> SUFFICES ASSUME TaskInv, [TaskNext]_taskVars PROVE TaskInv'
  OBVIOUS
<1> USE OutputAssumption DEF TaskInv
<1>1. CASE FinishGet
  <2>1. total' = total /\ offset' = total /\ seen' = seen \cup Given(offset)
    BY <1>1 DEF FinishGet
  <2>2. ASSUME total <= MaxOutput
        PROVE  Given(offset) = (offset + 1) .. total /\ seen = 1 .. offset
    BY <2>2 DEF Given, Kept, Smaller
  <2> QED BY <2>1, <2>2
<1>2. CASE Output
  BY <1>2 DEF Output
<1>3. CASE \/ BeginStart \/ Spawn \/ ChildExits \/ Close \/ WaitEnds \/ SpawnError \/ Kill
           \/ TimeoutFires \/ UNCHANGED taskVars
  BY <1>3 DEF BeginStart, Spawn, ChildExits, Close, WaitEnds, SpawnError, Kill, TimeoutFires, taskVars
<1>4. ASSUME NEW wait \in BOOLEAN, BeginGet(wait)
      PROVE  TaskInv'
  BY <1>4 DEF BeginGet
<1> QED BY <1>1, <1>2, <1>3, <1>4 DEF TaskNext, TaskStep

-----------------------------------------------------------------------------
(* Subagent slots: who is queued is in the queue once, and nobody else.      *)
Taken == {c \in Calls : call[c] = "running"}

Queued ==
    /\ waiters \in Seq(Calls)
    /\ \A i \in DOMAIN waiters : call[waiters[i]] = "queued"
    /\ \A i, j \in DOMAIN waiters : waiters[i] = waiters[j] => i = j
    /\ \A c \in Calls : call[c] = "queued" => \E i \in DOMAIN waiters : waiters[i] = c

SlotsInv ==
    /\ call \in [Calls -> {"idle", "queued", "running", "ended"}]
    /\ active \in Nat
    /\ Queued
    /\ IsFiniteSet(Taken) /\ active = Cardinality(Taken)
    /\ active <= MaxConcurrent
    /\ waiters # <<>> => active = MaxConcurrent

LEMMA SlotsInitHolds == SlotsInit => SlotsInv
<1> SUFFICES ASSUME SlotsInit PROVE SlotsInv
  OBVIOUS
<1>1. Taken = {} BY DEF SlotsInit, Taken
<1>2. Queued BY DEF SlotsInit, Queued
<1> QED BY <1>1, <1>2, SlotsAssumption, FS_EmptySet DEF SlotsInit, SlotsInv

(* A call takes a slot, gives one back, or hands its own to another.         *)
LEMMA OneMore ==
  ASSUME SlotsInv, NEW c \in Calls, c \notin Taken
  PROVE  IsFiniteSet(Taken \cup {c}) /\ Cardinality(Taken \cup {c}) = active + 1
BY FS_AddElement DEF SlotsInv

LEMMA OneLess ==
  ASSUME SlotsInv, NEW c \in Taken
  PROVE  IsFiniteSet(Taken \ {c}) /\ Cardinality(Taken \ {c}) = active - 1
BY FS_RemoveElement DEF SlotsInv

LEMMA AcquireKeeps ==
  ASSUME SlotsInv, NEW c \in Calls, Acquire(c)
  PROVE  SlotsInv'
<1>1. call[c] = "idle" BY DEF Acquire
<1>2. CASE active < MaxConcurrent
  <2>1. active' = active + 1 /\ call' = [call EXCEPT ![c] = "running"] /\ UNCHANGED waiters
    BY <1>2 DEF Acquire
  <2>2. /\ call' \in [Calls -> {"idle", "queued", "running", "ended"}] /\ call'[c] = "running"
        /\ \A d \in Calls \ {c} : call'[d] = call[d]
    BY <2>1 DEF SlotsInv
  <2>3. c \notin Taken /\ Taken' = Taken \cup {c}
    BY <1>1, <2>2 DEF Taken
  <2>4. waiters = <<>>
    BY <1>2 DEF SlotsInv
  <2>5. Queued'
    BY <1>1, <2>1, <2>2, <2>4 DEF Queued, SlotsInv
  <2> QED BY <1>2, <2>1, <2>2, <2>3, <2>4, <2>5, OneMore, SlotsAssumption DEF SlotsInv
<1>3. CASE active >= MaxConcurrent
  <2>1. waiters' = Append(waiters, c) /\ call' = [call EXCEPT ![c] = "queued"] /\ UNCHANGED active
    BY <1>3, SlotsAssumption DEF Acquire, SlotsInv
  <2>2. /\ call' \in [Calls -> {"idle", "queued", "running", "ended"}] /\ call'[c] = "queued"
        /\ \A d \in Calls \ {c} : call'[d] = call[d]
    BY <2>1 DEF SlotsInv
  <2>3. Taken' = Taken
    BY <1>1, <2>2 DEF Taken
  <2>4. PICK n \in Nat : DOMAIN waiters = 1 .. n /\ Len(waiters) = n
    BY DEF SlotsInv, Queued
  <2>5. /\ waiters' \in Seq(Calls) /\ DOMAIN waiters' = 1 .. n + 1 /\ waiters'[n + 1] = c
        /\ \A i \in 1 .. n : waiters'[i] = waiters[i]
    BY <2>1, <2>4 DEF SlotsInv, Queued
  <2>6. \A i \in 1 .. n : waiters[i] # c /\ waiters[i] \in Calls
    BY <1>1, <2>4 DEF SlotsInv, Queued
  <2>7. Queued'
    <3>1. \A i \in 1 .. n + 1 : i \in 1 .. n \/ i = n + 1
      BY <2>4
    <3>2. \A i \in DOMAIN waiters' : call'[waiters'[i]] = "queued"
      BY <2>2, <2>4, <2>5, <2>6, <3>1 DEF SlotsInv, Queued
    <3>3. \A i, j \in DOMAIN waiters' : waiters'[i] = waiters'[j] => i = j
      BY <2>4, <2>5, <2>6, <3>1 DEF SlotsInv, Queued
    <3>4. \A d \in Calls : call'[d] = "queued" => \E i \in DOMAIN waiters' : waiters'[i] = d
      <4>1. ASSUME NEW d \in Calls, call'[d] = "queued", d # c
            PROVE  \E i \in DOMAIN waiters' : waiters'[i] = d
        <5>1. PICK i \in DOMAIN waiters : waiters[i] = d
          BY <2>2, <4>1 DEF SlotsInv, Queued
        <5>2. i \in DOMAIN waiters' /\ waiters'[i] = d
          BY <2>4, <2>5, <5>1
        <5> QED BY <5>2
      <4>2. n + 1 \in DOMAIN waiters' BY <2>5
      <4> QED BY <2>5, <4>1, <4>2
    <3> QED BY <2>5, <3>2, <3>3, <3>4 DEF Queued
  <2>8. active' = MaxConcurrent
    BY <1>3, <2>1, SlotsAssumption DEF SlotsInv
  <2> QED BY <2>1, <2>2, <2>3, <2>7, <2>8 DEF SlotsInv
<1> QED BY <1>2, <1>3, SlotsAssumption DEF SlotsInv

LEMMA RefuseKeeps ==
  ASSUME SlotsInv, NEW c \in Calls, Refuse(c)
  PROVE  SlotsInv'
<1>1. /\ call[c] = "idle" /\ call'[c] = "ended" /\ \A d \in Calls \ {c} : call'[d] = call[d]
      /\ UNCHANGED <<active, waiters>>
      /\ call' \in [Calls -> {"idle", "queued", "running", "ended"}]
  BY DEF Refuse, SlotsInv
<1>2. Taken' = Taken BY <1>1 DEF Taken
<1>3. \A i \in DOMAIN waiters : waiters[i] \in Calls \ {c}
  BY <1>1 DEF SlotsInv, Queued
<1>4. Queued' BY <1>1, <1>3 DEF SlotsInv, Queued
<1> QED BY <1>1, <1>2, <1>4 DEF SlotsInv

(* splice(): what was before the place stays, what was after it moves up.    *)
LEMMA WithoutOne ==
  ASSUME NEW S, NEW q \in Seq(S), NEW k \in DOMAIN q
  PROVE  /\ RemoveAt(q, k) \in Seq(S)
         /\ DOMAIN RemoveAt(q, k) = 1 .. Len(q) - 1
         /\ \A i \in 1 .. Len(q) - 1 : RemoveAt(q, k)[i] = IF i < k THEN q[i] ELSE q[i + 1]
<1>1. k \in 1 .. Len(q) /\ Len(q) \in Nat
  OBVIOUS
<1> DEFINE before == SubSeq(q, 1, k - 1)
           after == SubSeq(q, k + 1, Len(q))
<1>2. /\ before \in Seq(S) /\ Len(before) = k - 1
      /\ \A i \in 1 .. k - 1 : before[i] = q[i]
  BY <1>1
<1>3. /\ after \in Seq(S) /\ Len(after) = Len(q) - k
      /\ \A i \in 1 .. Len(q) - k : after[i] = q[k + i]
  BY <1>1
<1> HIDE DEF before, after
<1>4. /\ before \o after \in Seq(S) /\ Len(before \o after) = Len(q) - 1
      /\ \A i \in 1 .. Len(q) - 1 : (before \o after)[i] = IF i < k THEN q[i] ELSE q[i + 1]
  <2>1. /\ before \o after \in Seq(S) /\ Len(before \o after) = Len(q) - 1
        /\ \A i \in 1 .. Len(q) - 1 :
              (before \o after)[i] = IF i <= k - 1 THEN before[i] ELSE after[i - (k - 1)]
    BY <1>1, <1>2, <1>3
  <2>2. ASSUME NEW i \in 1 .. Len(q) - 1
        PROVE  (before \o after)[i] = IF i < k THEN q[i] ELSE q[i + 1]
    <3>1. CASE i < k
      BY <1>1, <1>2, <2>1, <3>1
    <3>2. CASE ~(i < k)
      <4>1. i - (k - 1) \in 1 .. Len(q) - k /\ k + (i - (k - 1)) = i + 1 /\ ~(i <= k - 1)
        BY <1>1, <3>2
      <4> QED BY <1>3, <2>1, <3>2, <4>1
    <3> QED BY <3>1, <3>2
  <2> QED BY <2>1, <2>2
<1>5. RemoveAt(q, k) = before \o after
  BY DEF RemoveAt, before, after
<1>6. DOMAIN (before \o after) = 1 .. Len(q) - 1
  BY <1>4
<1> QED BY <1>4, <1>5, <1>6

LEMMA AbortQueuedKeeps ==
  ASSUME SlotsInv, NEW c \in Calls, AbortQueued(c)
  PROVE  SlotsInv'
<1>1. /\ call[c] = "queued" /\ call'[c] = "ended" /\ \A d \in Calls \ {c} : call'[d] = call[d]
      /\ UNCHANGED active /\ call' \in [Calls -> {"idle", "queued", "running", "ended"}]
  BY DEF AbortQueued, SlotsInv
<1>2. PICK k \in DOMAIN waiters : waiters[k] = c /\ waiters' = RemoveAt(waiters, k)
  BY DEF AbortQueued
<1>3. /\ waiters' \in Seq(Calls)
      /\ DOMAIN waiters' = 1 .. Len(waiters) - 1
      /\ \A i \in 1 .. Len(waiters) - 1 : waiters'[i] = IF i < k THEN waiters[i] ELSE waiters[i + 1]
  BY <1>2, WithoutOne DEF SlotsInv, Queued
<1>4. Len(waiters) \in Nat /\ DOMAIN waiters = 1 .. Len(waiters) /\ waiters # <<>>
  BY <1>2 DEF SlotsInv, Queued
<1>5. \A i \in DOMAIN waiters' :
          waiters'[i] # c /\ call[waiters'[i]] = "queued" /\ waiters'[i] \in Calls
  BY <1>2, <1>3, <1>4 DEF SlotsInv, Queued
<1>6. \A i, j \in DOMAIN waiters' : waiters'[i] = waiters'[j] => i = j
  <2> DEFINE pos(i) == IF i < k THEN i ELSE i + 1
  <2>1. \A i \in DOMAIN waiters' : pos(i) \in DOMAIN waiters /\ waiters'[i] = waiters[pos(i)]
    BY <1>2, <1>3, <1>4
  <2>2. \A i, j \in DOMAIN waiters' : pos(i) = pos(j) => i = j
    BY <1>2, <1>3, <1>4
  <2> HIDE DEF pos
  <2> QED BY <2>1, <2>2 DEF SlotsInv, Queued
<1>7. ASSUME NEW d \in Calls, call'[d] = "queued"
      PROVE  \E i \in DOMAIN waiters' : waiters'[i] = d
  <2>1. d # c /\ call[d] = "queued"
    BY <1>1, <1>7
  <2>2. PICK j \in DOMAIN waiters : waiters[j] = d
    BY <2>1 DEF SlotsInv, Queued
  <2>3. CASE j < k
    BY <1>2, <1>3, <1>4, <2>2, <2>3
  <2>4. CASE j > k
    <3>1. j - 1 \in 1 .. Len(waiters) - 1 /\ ~(j - 1 < k) /\ (j - 1) + 1 = j
      BY <1>2, <1>4, <2>2, <2>4
    <3> QED BY <1>3, <2>2, <3>1
  <2> QED BY <1>2, <1>4, <2>1, <2>2, <2>3, <2>4
<1>8. Queued'
  BY <1>1, <1>3, <1>5, <1>6, <1>7 DEF Queued
<1>9. Taken' = Taken
  BY <1>1 DEF Taken
<1> QED BY <1>1, <1>4, <1>8, <1>9 DEF SlotsInv

LEMMA SlotReleaseKeeps ==
  ASSUME SlotsInv, NEW c \in Calls, Release(c)
  PROVE  SlotsInv'
<1>1. call[c] = "running" /\ c \in Taken
  BY DEF Release, Taken
<1>2. CASE waiters = <<>>
  <2>1. /\ active' = active - 1 /\ call'[c] = "ended" /\ \A d \in Calls \ {c} : call'[d] = call[d]
        /\ UNCHANGED waiters /\ call' \in [Calls -> {"idle", "queued", "running", "ended"}]
    BY <1>2 DEF Release, SlotsInv
  <2>2. Taken' = Taken \ {c}
    BY <2>1 DEF Taken
  <2>3. active - 1 \in Nat /\ active - 1 <= MaxConcurrent
    <3>1. PICK left : left = Taken \ {c} OBVIOUS
    <3>2. IsFiniteSet(left) /\ Cardinality(left) = active - 1 BY <1>1, <3>1, OneLess
    <3>3. Cardinality(left) \in Nat BY <3>2, FS_CardinalityType
    <3> QED BY <3>2, <3>3, SlotsAssumption DEF SlotsInv
  <2>4. Queued'
    BY <1>2, <2>1 DEF SlotsInv, Queued
  <2> QED BY <1>1, <1>2, <2>1, <2>2, <2>3, <2>4, OneLess DEF SlotsInv
<1>3. CASE waiters # <<>>
  <2>1. PICK w \in Calls : w = Head(waiters) /\ call[w] = "queued" /\ waiters[1] = w
    BY <1>3 DEF SlotsInv, Queued
  <2>2. /\ waiters' = Tail(waiters) /\ UNCHANGED active
        /\ call' = [call EXCEPT ![c] = "ended", ![w] = "running"]
    BY <1>3, <2>1 DEF Release
  <2>3. /\ w # c /\ call'[c] = "ended" /\ call'[w] = "running"
        /\ \A d \in Calls \ {c, w} : call'[d] = call[d]
        /\ call' \in [Calls -> {"idle", "queued", "running", "ended"}]
    BY <1>1, <2>1, <2>2 DEF SlotsInv
  <2>4. PICK n \in Nat : DOMAIN waiters = 1 .. n + 1 /\ Len(waiters) = n + 1
    BY <1>3 DEF SlotsInv, Queued
  <2>5. /\ waiters' \in Seq(Calls) /\ DOMAIN waiters' = 1 .. n
        /\ \A i \in 1 .. n : waiters'[i] = waiters[i + 1]
    BY <1>3, <2>2, <2>4 DEF SlotsInv, Queued
  <2>6. \A i \in 1 .. n : i + 1 \in DOMAIN waiters /\ waiters[i + 1] # w /\ waiters[i + 1] # c
                           /\ waiters[i + 1] \in Calls /\ call[waiters[i + 1]] = "queued"
    BY <1>1, <2>1, <2>4 DEF SlotsInv, Queued
  <2>7. Queued'
    <3>1. \A i \in DOMAIN waiters' : call'[waiters'[i]] = "queued"
      BY <2>3, <2>5, <2>6
    <3>2. \A i, j \in DOMAIN waiters' : waiters'[i] = waiters'[j] => i = j
      <4>1. ASSUME NEW i \in 1 .. n, NEW j \in 1 .. n, waiters[i + 1] = waiters[j + 1]
            PROVE  i = j
        <5>1. i + 1 = j + 1 BY <2>6, <4>1 DEF SlotsInv, Queued
        <5> QED BY <5>1
      <4> QED BY <2>5, <4>1
    <3>3. ASSUME NEW d \in Calls, call'[d] = "queued"
          PROVE  \E i \in DOMAIN waiters' : waiters'[i] = d
      <4>1. d # w /\ d # c /\ call[d] = "queued"
        BY <2>3, <3>3
      <4>2. PICK j \in DOMAIN waiters : waiters[j] = d
        BY <4>1 DEF SlotsInv, Queued
      <4>3. j # 1
        BY <2>1, <4>1, <4>2
      <4>4. j - 1 \in 1 .. n /\ (j - 1) + 1 = j
        BY <2>4, <4>2, <4>3
      <4>5. waiters'[j - 1] = d /\ j - 1 \in DOMAIN waiters'
        BY <2>5, <4>2, <4>4
      <4> QED BY <4>5
    <3> QED BY <2>5, <3>1, <3>2, <3>3 DEF Queued
  <2>8. Taken' = (Taken \ {c}) \cup {w} /\ w \notin Taken \ {c}
    BY <2>1, <2>3 DEF Taken
  <2>9. IsFiniteSet(Taken') /\ Cardinality(Taken') = (active - 1) + 1
    <3>1. PICK left : left = Taken \ {c} OBVIOUS
    <3>2. IsFiniteSet(left) /\ Cardinality(left) = active - 1 BY <1>1, <3>1, OneLess
    <3>3. IsFiniteSet(left \cup {w}) /\ Cardinality(left \cup {w}) = Cardinality(left) + 1
      BY <2>8, <3>1, <3>2, FS_AddElement
    <3> QED BY <2>8, <3>1, <3>2, <3>3
  <2>10. active \in Nat /\ active = MaxConcurrent
    BY <1>3 DEF SlotsInv
  <2> QED BY <2>2, <2>3, <2>7, <2>9, <2>10 DEF SlotsInv
<1> QED BY <1>2, <1>3

LEMMA SlotsStepKeeps == SlotsInv /\ [SlotsNext]_slotVars => SlotsInv'
<1> SUFFICES ASSUME SlotsInv, [SlotsNext]_slotVars PROVE SlotsInv'
  OBVIOUS
<1>1. ASSUME NEW c \in Calls, Acquire(c) \/ Refuse(c) \/ AbortQueued(c) \/ Release(c)
      PROVE  SlotsInv'
  BY <1>1, AcquireKeeps, RefuseKeeps, AbortQueuedKeeps, SlotReleaseKeeps
<1>2. CASE UNCHANGED slotVars
  BY <1>2 DEF slotVars, SlotsInv, Queued, Taken
<1> QED BY <1>1, <1>2 DEF SlotsNext

LEMMA SlotsInvMeans == SlotsInv => SlotsExact
<1> SUFFICES ASSUME SlotsInv PROVE SlotsExact
  OBVIOUS
<1>1. ASSUME NEW c \in Calls, call[c] = "queued"
      PROVE  active = MaxConcurrent
  BY <1>1 DEF SlotsInv, Queued
<1> QED BY <1>1 DEF SlotsInv, Taken, SlotsExact

-----------------------------------------------------------------------------
(* MCP clients.  While the client connects and an earlier stop() is still    *)
(* under way, a failed start closes nothing, so it must not leave a request: *)
(* the new server has been sent one at most, and none before its endpoint.   *)
McpTypes ==
    /\ transport \in {"stdio", "sse"}
    /\ servers \in Nat /\ server \in {0, servers} /\ live \subseteq 1 .. servers
    /\ stopping \in 0 .. servers /\ endpoint \in 0 .. servers
    /\ request \in [Requests -> {"unsent", "pending", "stray", "answered", "failed", "timed_out"}]
    /\ owner \in [Requests -> 0 .. servers]
    /\ \A i \in Requests : owner[i] # 0 <=> request[i] # "unsent"

OneRequest ==
    connecting /\ stopping # 0 /\ server # 0 =>
        /\ \A i, k \in Requests : owner[i] = server /\ owner[k] = server => i = k
        /\ transport = "sse" /\ endpoint # server =>
               /\ Pending = {}
               /\ server \in live => \A i \in Requests : owner[i] # server

McpInv ==
    /\ McpTypes
    /\ connecting => ~initialized
    /\ ~initialized /\ ~connecting => Pending = {}
    /\ server = 0 => Pending = {}
    /\ stopping # 0 => stopping # server
    /\ OneRequest
    /\ NoOrphanRequest

LEMMA McpInitHolds == McpInit => McpInv
BY DEF McpInit, McpInv, McpTypes, OneRequest, NoOrphanRequest, Pending, Requests

(* What Send does to the requests, as facts about each of them.              *)
LEMMA SendMeans ==
  ASSUME McpTypes, NEW s \in Nat, s # 0, NEW how \in {"pending", "stray"}, Send(s, how),
         servers' \in Nat, servers' >= servers, s <= servers'
  PROVE  \E i \in Requests :
            /\ request[i] = "unsent" /\ request'[i] = how /\ owner[i] = 0 /\ owner'[i] = s
            /\ \A k \in Requests \ {i} : request'[k] = request[k] /\ owner'[k] = owner[k]
            /\ request' \in [Requests -> {"unsent", "pending", "stray", "answered", "failed", "timed_out"}]
            /\ owner' \in [Requests -> 0 .. servers']
            /\ \A k \in Requests : owner'[k] # 0 <=> request'[k] # "unsent"
<1>1. PICK i \in Requests \ Sent : /\ request' = [request EXCEPT ![i] = how]
                                   /\ owner' = [owner EXCEPT ![i] = s]
  BY DEF Send
<1>2. i \in Requests /\ request[i] = "unsent"
  BY <1>1 DEF Sent
<1>3. /\ request'[i] = how /\ owner'[i] = s
      /\ \A k \in Requests \ {i} : request'[k] = request[k] /\ owner'[k] = owner[k]
  BY <1>1, <1>2 DEF McpTypes
<1>4. 0 .. servers \subseteq 0 .. servers' /\ s \in 0 .. servers'
  BY DEF McpTypes
<1>5. /\ request' \in [Requests -> {"unsent", "pending", "stray", "answered", "failed", "timed_out"}]
      /\ owner' \in [Requests -> 0 .. servers']
  BY <1>1, <1>2, <1>4 DEF McpTypes
<1>6. \A k \in Requests : owner'[k] # 0 <=> request'[k] # "unsent"
  BY <1>2, <1>3 DEF McpTypes
<1> QED BY <1>2, <1>3, <1>5, <1>6 DEF McpTypes

LEMMA FailPendingMeans ==
  ASSUME McpTypes, FailPending
  PROVE  /\ Pending' = {}
         /\ request' \in [Requests -> {"unsent", "pending", "stray", "answered", "failed", "timed_out"}]
         /\ \A k \in Requests : request'[k] # "unsent" <=> request[k] # "unsent"
BY DEF McpTypes, FailPending, Pending, Waiting

LEMMA ConnectKeeps ==
  ASSUME McpInv, Connect
  PROVE  McpInv'
<1>1. /\ servers' = servers + 1 /\ server' = servers + 1 /\ connecting' = TRUE
      /\ live' = live \cup {servers + 1} /\ Pending = {}
      /\ UNCHANGED <<transport, initialized, stopping, endpoint>> /\ ~initialized
  BY DEF Connect, McpInv
<1>2. /\ servers \in Nat /\ stopping \in 0 .. servers' /\ endpoint \in 0 .. servers' /\ servers' # endpoint
      /\ \A i \in Requests : owner[i] # servers'
      /\ stopping # servers'
  BY <1>1 DEF McpInv, McpTypes
<1>3. CASE transport = "stdio"
  <2>1. Send(servers + 1, "pending") BY <1>3 DEF Connect
  <2>2. PICK i \in Requests :
            /\ request[i] = "unsent" /\ request'[i] = "pending" /\ owner[i] = 0 /\ owner'[i] = servers + 1
            /\ \A k \in Requests \ {i} : request'[k] = request[k] /\ owner'[k] = owner[k]
            /\ request' \in [Requests -> {"unsent", "pending", "stray", "answered", "failed", "timed_out"}]
            /\ owner' \in [Requests -> 0 .. servers']
            /\ \A k \in Requests : owner'[k] # 0 <=> request'[k] # "unsent"
    <3>1. servers + 1 \in Nat /\ servers + 1 # 0 /\ servers' \in Nat /\ servers' >= servers
          /\ servers + 1 <= servers'
      BY <1>1, <1>2
    <3> QED BY <2>1, <3>1, SendMeans DEF McpInv
  <2>3. McpTypes' BY <1>1, <1>2, <2>2 DEF McpTypes, McpInv
  <2>4. Pending' = {i} BY <1>1, <2>2 DEF Pending
  <2> QED BY <1>1, <1>2, <1>3, <2>2, <2>3, <2>4 DEF McpInv, OneRequest, NoOrphanRequest
<1>4. CASE transport # "stdio"
  <2>1. UNCHANGED <<request, owner>> BY <1>4 DEF Connect
  <2>2. 0 .. servers \subseteq 0 .. servers' BY <1>1, <1>2
  <2>3. McpTypes' BY <1>1, <1>2, <2>1, <2>2 DEF McpTypes, McpInv
  <2>4. Pending' = {} BY <1>1, <2>1 DEF Pending
  <2> QED BY <1>1, <1>2, <2>1, <2>3, <2>4 DEF McpInv, OneRequest, NoOrphanRequest
<1> QED BY <1>3, <1>4

LEMMA EndpointKeeps ==
  ASSUME McpInv, EndpointEvent
  PROVE  McpInv'
<1>1. /\ endpoint' = server /\ server \in live /\ endpoint # server /\ transport = "sse"
      /\ UNCHANGED <<transport, server, servers, live, initialized, connecting, stopping>>
  BY DEF EndpointEvent
<1>2. CASE connecting /\ server # 0 /\ \A k \in Requests : owner[k] # server
  <2>1. Send(server, "pending") BY <1>2 DEF EndpointEvent
  <2>2. PICK i \in Requests :
            /\ request[i] = "unsent" /\ request'[i] = "pending" /\ owner[i] = 0 /\ owner'[i] = server
            /\ \A k \in Requests \ {i} : request'[k] = request[k] /\ owner'[k] = owner[k]
            /\ request' \in [Requests -> {"unsent", "pending", "stray", "answered", "failed", "timed_out"}]
            /\ owner' \in [Requests -> 0 .. servers']
            /\ \A k \in Requests : owner'[k] # 0 <=> request'[k] # "unsent"
    <3>1. server \in Nat /\ server # 0 /\ servers' \in Nat /\ servers' >= servers /\ server <= servers'
      BY <1>1, <1>2 DEF McpInv, McpTypes
    <3> QED BY <2>1, <3>1, SendMeans DEF McpInv
  <2>3. McpTypes' BY <1>1, <2>2 DEF McpTypes, McpInv
  <2>4. Pending' = Pending \cup {i} BY <2>2 DEF Pending
  <2>5. NoOrphanRequest'
    BY <1>1, <2>2, <2>4 DEF McpInv, NoOrphanRequest, Pending
  <2>6. OneRequest'
    BY <1>1, <1>2, <2>2 DEF McpInv, OneRequest
  <2> QED BY <1>1, <1>2, <2>3, <2>5, <2>6 DEF McpInv
<1>3. CASE ~(connecting /\ \A k \in Requests : owner[k] # server)
  <2>1. UNCHANGED <<request, owner>> BY <1>3 DEF EndpointEvent
  <2>2. Pending' = Pending BY <2>1 DEF Pending
  <2>3. McpTypes' BY <1>1, <2>1 DEF McpInv, McpTypes
  <2> QED BY <1>1, <2>1, <2>2, <2>3 DEF McpInv, OneRequest, NoOrphanRequest
<1> QED BY <1>1, <1>2, <1>3 DEF McpInv, McpTypes

(* What a connection that ends or is left has in common.                     *)
LEMMA NothingPendingKeeps ==
  ASSUME McpInv, Pending' = {}, UNCHANGED <<transport, servers, owner>>,
         server' \in {0, server}, live' \subseteq live, connecting' => connecting /\ ~initialized',
         stopping' \in 0 .. servers, endpoint' \in {0, endpoint},
         request' \in [Requests -> {"unsent", "pending", "stray", "answered", "failed", "timed_out"}],
         \A k \in Requests : request'[k] # "unsent" <=> request[k] # "unsent",
         OneRequest', stopping' # 0 => stopping' # server'
  PROVE  McpInv'
<1>1. McpTypes' BY DEF McpInv, McpTypes
<1>2. NoOrphanRequest' BY DEF NoOrphanRequest
<1> QED BY <1>1, <1>2 DEF McpInv

LEMMA StopKeeps ==
  ASSUME McpInv, Stop, UNCHANGED <<transport, servers, live, endpoint, owner>>,
         connecting' => connecting,
         stopping # 0 => UNCHANGED connecting \/ Pending = {}
  PROVE  McpInv'
<1>1. CASE stopping # 0
  <2>1. UNCHANGED <<server, initialized, stopping, request>> BY <1>1 DEF Stop
  <2>2. McpTypes' BY <2>1 DEF McpInv, McpTypes
  <2>3. Pending' = Pending BY <2>1 DEF Pending
  <2> QED BY <1>1, <2>1, <2>2, <2>3 DEF McpInv, OneRequest, NoOrphanRequest
<1>2. CASE stopping = 0
  <2>1. /\ ~initialized' /\ server' = 0 /\ stopping' = (IF server \in live THEN server ELSE 0)
        /\ FailPending
    BY <1>2 DEF Stop
  <2>2. stopping' \in 0 .. servers BY <2>1 DEF McpInv, McpTypes
  <2>3. OneRequest' BY <2>1 DEF OneRequest
  <2>4. McpTypes BY DEF McpInv
  <2> QED BY <2>1, <2>2, <2>3, <2>4, FailPendingMeans, NothingPendingKeeps
<1> QED BY <1>1, <1>2

LEMMA StartFailsKeeps ==
  ASSUME McpInv, StartFails
  PROVE  McpInv'
<1>1. connecting /\ connecting' = FALSE /\ Stop /\ UNCHANGED <<transport, servers, live, endpoint, owner>>
  BY DEF StartFails
<1>2. ASSUME stopping # 0 PROVE Pending = {}
  <2>1. CASE server = 0
    BY <2>1 DEF McpInv
  <2>2. CASE server # 0 /\ transport = "sse" /\ endpoint # server
    BY <1>1, <1>2, <2>2 DEF McpInv, OneRequest
  <2>3. CASE server # 0 /\ \E i \in Sent : owner[i] = servers /\ request[i] \in {"failed", "timed_out"}
    <3> PICK i \in Sent : owner[i] = servers /\ request[i] \in {"failed", "timed_out"}
      BY <2>3
    <3>1. i \in Requests /\ i \notin Pending /\ server = servers
      BY <2>3 DEF Sent, Pending, McpInv, McpTypes
    <3>2. ASSUME NEW k \in Pending PROVE FALSE
      <4>1. k \in Requests /\ owner[k] = server BY <3>2 DEF McpInv, NoOrphanRequest, Pending
      <4>2. k = i BY <1>1, <1>2, <2>3, <3>1, <4>1 DEF McpInv, OneRequest
      <4> QED BY <3>1, <3>2, <4>2
    <3> QED BY <3>2
  <2> QED BY <2>1, <2>2, <2>3 DEF StartFails
<1> QED BY <1>1, <1>2, StopKeeps

LEMMA ServerGoneKeeps ==
  ASSUME McpInv, NEW s \in 1 .. MaxServers, ServerExits(s) \/ StreamEnds(s)
  PROVE  McpInv'
<1>1. CASE ServerExits(s)
  <2>1. /\ transport = "stdio" /\ live' = live \ {s} /\ FailPending
        /\ server' = (IF server = s THEN 0 ELSE server) /\ initialized' = (initialized /\ server # s)
        /\ UNCHANGED <<transport, servers, connecting, stopping, endpoint, owner>>
    BY <1>1 DEF ServerExits
  <2>2. OneRequest' BY <2>1 DEF OneRequest, McpInv
  <2>3. McpTypes /\ stopping' \in 0 .. servers BY <2>1 DEF McpInv, McpTypes
  <2>4. connecting' => connecting /\ ~initialized' BY <2>1 DEF McpInv
  <2>5. stopping' # 0 => stopping' # server' BY <2>1 DEF McpInv
  <2> QED BY <2>1, <2>2, <2>3, <2>4, <2>5, FailPendingMeans, NothingPendingKeeps
<1>2. CASE StreamEnds(s) /\ s = server
  <2>1. /\ live' = live \ {s} /\ ~initialized' /\ endpoint' = 0 /\ FailPending
        /\ UNCHANGED <<transport, server, servers, connecting, stopping, owner>>
    BY <1>2 DEF StreamEnds
  <2>2. McpTypes /\ stopping' \in 0 .. servers BY <2>1 DEF McpInv, McpTypes
  <2>3. Pending' = {} BY <2>1, <2>2, FailPendingMeans
  <2>4. OneRequest' BY <1>2, <2>1, <2>3 DEF OneRequest, McpInv
  <2>5. stopping' # 0 => stopping' # server' BY <2>1 DEF McpInv
  <2> QED BY <2>1, <2>2, <2>4, <2>5, FailPendingMeans, NothingPendingKeeps
<1>3. CASE StreamEnds(s) /\ s # server
  <2>1. /\ live' = live \ {s}
        /\ UNCHANGED <<transport, server, servers, connecting, stopping, owner, initialized, endpoint,
                       request>>
    BY <1>3 DEF StreamEnds
  <2>2. Pending' = Pending BY <2>1 DEF Pending
  <2>3. McpTypes' BY <2>1 DEF McpInv, McpTypes
  <2> QED BY <1>3, <2>1, <2>2, <2>3 DEF McpInv, OneRequest, NoOrphanRequest
<1> QED BY <1>1, <1>2, <1>3

(* A request is answered, or fails, or is too late.                          *)
LEMMA SettleKeeps ==
  ASSUME McpInv, NEW i \in Waiting, NEW how \in {"answered", "failed", "timed_out"}, Settle(i, how),
         UNCHANGED <<transport, server, servers, live, initialized, connecting, stopping, endpoint,
                     owner>>
  PROVE  McpInv'
<1>1. /\ i \in Requests /\ request[i] \in {"pending", "stray"} /\ request'[i] = how
      /\ \A k \in Requests \ {i} : request'[k] = request[k]
  BY DEF Waiting, Settle, McpInv, McpTypes
<1>2. Pending' \subseteq Pending
  BY <1>1 DEF Pending
<1>3. request' \in [Requests -> {"unsent", "pending", "stray", "answered", "failed", "timed_out"}]
  BY <1>1 DEF Settle, McpInv, McpTypes
<1>4. McpTypes'
  BY <1>1, <1>3 DEF McpInv, McpTypes
<1> QED BY <1>2, <1>4 DEF McpInv, OneRequest, NoOrphanRequest

LEMMA McpStepKeeps == McpInv /\ [McpNext]_mcpVars => McpInv'
<1> SUFFICES ASSUME McpInv, [McpNext]_mcpVars PROVE McpInv'
  OBVIOUS
<1>1. CASE Initialized
  <2>1. UNCHANGED <<transport, server, servers, live, stopping, endpoint, request, owner>>
        /\ connecting' = FALSE /\ initialized' = TRUE
    BY <1>1 DEF Initialized
  <2>2. Pending' = Pending /\ McpTypes' BY <2>1 DEF Pending, McpInv, McpTypes
  <2> QED BY <2>1, <2>2 DEF McpInv, OneRequest, NoOrphanRequest
<1>2. CASE CloseClient
  BY <1>2, StopKeeps DEF CloseClient
<1>3. CASE StopEnds
  <2>1. /\ stopping' = 0 /\ endpoint' \in {0, endpoint} /\ live' \subseteq live
        /\ UNCHANGED <<transport, server, servers, initialized, connecting, request, owner>>
    BY <1>3 DEF StopEnds
  <2>2. Pending' = Pending BY <2>1 DEF Pending
  <2>3. McpTypes' BY <2>1 DEF McpInv, McpTypes
  <2> QED BY <2>1, <2>2, <2>3 DEF McpInv, OneRequest, NoOrphanRequest
<1>4. CASE CallTool
  <2>1. /\ initialized /\ server # 0 /\ Send(server, "pending")
        /\ UNCHANGED <<transport, server, servers, live, initialized, connecting, stopping, endpoint>>
    BY <1>4 DEF CallTool
  <2>2. PICK i \in Requests :
            /\ request[i] = "unsent" /\ request'[i] = "pending" /\ owner[i] = 0 /\ owner'[i] = server
            /\ \A k \in Requests \ {i} : request'[k] = request[k] /\ owner'[k] = owner[k]
            /\ request' \in [Requests -> {"unsent", "pending", "stray", "answered", "failed", "timed_out"}]
            /\ owner' \in [Requests -> 0 .. servers']
            /\ \A k \in Requests : owner'[k] # 0 <=> request'[k] # "unsent"
    <3>1. server \in Nat /\ server # 0 /\ servers' \in Nat /\ servers' >= servers /\ server <= servers'
      BY <2>1 DEF McpInv, McpTypes
    <3> QED BY <2>1, <3>1, SendMeans DEF McpInv
  <2>3. McpTypes' BY <2>1, <2>2 DEF McpTypes, McpInv
  <2>4. Pending' = Pending \cup {i} BY <2>2 DEF Pending
  <2>5. NoOrphanRequest'
    BY <2>1, <2>2, <2>4 DEF McpInv, NoOrphanRequest, Pending
  <2> QED BY <2>1, <2>3, <2>5 DEF McpInv, OneRequest
<1>8. CASE CallSentLate
  <2>1. /\ stopping # 0 /\ Send(stopping, "stray")
        /\ UNCHANGED <<transport, server, servers, live, initialized, connecting, stopping, endpoint>>
    BY <1>8 DEF CallSentLate
  <2>2. PICK i \in Requests :
            /\ request[i] = "unsent" /\ request'[i] = "stray" /\ owner[i] = 0 /\ owner'[i] = stopping
            /\ \A k \in Requests \ {i} : request'[k] = request[k] /\ owner'[k] = owner[k]
            /\ request' \in [Requests -> {"unsent", "pending", "stray", "answered", "failed", "timed_out"}]
            /\ owner' \in [Requests -> 0 .. servers']
            /\ \A k \in Requests : owner'[k] # 0 <=> request'[k] # "unsent"
    <3>1. stopping \in Nat /\ servers' \in Nat /\ servers' >= servers /\ stopping <= servers'
      BY <2>1 DEF McpInv, McpTypes
    <3> QED BY <2>1, <3>1, SendMeans DEF McpInv
  <2>3. McpTypes' BY <2>1, <2>2 DEF McpTypes, McpInv
  <2>4. Pending' = Pending BY <2>2 DEF Pending
  <2>5. NoOrphanRequest'
    BY <2>1, <2>2, <2>4 DEF McpInv, NoOrphanRequest, Pending
  <2>6. OneRequest'
    BY <2>1, <2>2, <2>4 DEF McpInv, OneRequest
  <2> QED BY <2>1, <2>3, <2>4, <2>5, <2>6 DEF McpInv
<1>5. ASSUME NEW s \in 1 .. MaxServers, ServerExits(s) \/ StreamEnds(s)
      PROVE  McpInv'
  BY <1>5, ServerGoneKeeps
<1>6. ASSUME NEW i \in Requests, Answer(i) \/ RequestFails(i)
      PROVE  McpInv'
  <2>1. i \in Waiting /\ \E how \in {"answered", "failed", "timed_out"} : Settle(i, how)
    BY <1>6 DEF Answer, RequestFails
  <2>2. UNCHANGED <<transport, server, servers, live, initialized, connecting, stopping, endpoint,
                    owner>>
    BY <1>6 DEF Answer, RequestFails
  <2> QED BY <2>1, <2>2, SettleKeeps
<1>7. CASE UNCHANGED mcpVars
  <2>1. Pending' = Pending /\ McpTypes' BY <1>7 DEF mcpVars, Pending, McpInv, McpTypes
  <2> QED BY <1>7, <2>1 DEF mcpVars, McpInv, OneRequest, NoOrphanRequest
<1> QED
  BY <1>1, <1>2, <1>3, <1>4, <1>5, <1>6, <1>7, <1>8, ConnectKeeps, EndpointKeeps, StartFailsKeeps DEF McpNext

-----------------------------------------------------------------------------
(* Sandboxes: a process that ends while nobody has asked the container to go *)
(* has taken it along.                                                       *)
SandboxInv ==
    /\ runner \in {"host", "docker"}
    /\ run \in {"none", "preparing", "running", "settled"}
    /\ run # "settled" => outcome = "none"
    /\ terminating # "exit"
    /\ run \in {"none", "preparing"} => process = "none"
    /\ runner = "host" => container = "none" /\ terminating = "none"
    /\ process = "dying" /\ terminating = "none" => container # "alive"
    /\ CutOffReported

LEMMA SandboxInitHolds == SandboxInit => SandboxInv
BY DEF SandboxInit, SandboxInv, CutOffReported

LEMMA SandboxStepKeeps == SandboxInv /\ [SandboxNext]_sandboxVars => SandboxInv'
<1> SUFFICES ASSUME SandboxInv, [SandboxNext]_sandboxVars PROVE SandboxInv'
  OBVIOUS
<1> USE DEF SandboxInv, CutOffReported, Settled, Terminate
<1>1. CASE PrepareRun
  BY <1>1 DEF PrepareRun
<1>2. CASE StartHost
  BY <1>2 DEF StartHost
<1>3. CASE SandboxError
  BY <1>3 DEF SandboxError
<1>4. CASE TimesOut
  BY <1>4 DEF TimesOut
<1>5. CASE SignalAborts
  BY <1>5 DEF SignalAborts
<1>6. CASE Removed
  BY <1>6 DEF Removed
<1>7. CASE CommandEnds
  BY <1>7 DEF CommandEnds
<1>8. CASE ProcessCloses
  BY <1>8 DEF ProcessCloses
<1>9. CASE UNCHANGED sandboxVars
  BY <1>9 DEF sandboxVars
<1> QED
  BY <1>1, <1>2, <1>3, <1>4, <1>5, <1>6, <1>7, <1>8, <1>9 DEF SandboxNext

-----------------------------------------------------------------------------
(* Folds.  As long as none overlaps another, a fold under way still finds    *)
(* what it froze at the head of the context, or has cut it off, and a turn   *)
(* that runs is in none of it, so that its end adds nothing twice.           *)
Folding(p) == thread[p].at \in Folds

Before(n, turns) == \A i \in DOMAIN turns : turns[i] < n
Distinct(turns) == \A i, k \in DOMAIN turns : turns[i] = turns[k] => i = k
Absent(t, turns) == \A i \in DOMAIN turns : turns[i] # t
Apart(s, t) == \A i \in DOMAIN s, k \in DOMAIN t : s[i] # t[k]
Begins(s, t) == Len(s) <= Len(t) /\ \A i \in DOMAIN s : s[i] = t[i]

Turns(n, turns) == turns \in Seq(Nat) /\ Distinct(turns) /\ Before(n, turns)

(* The locals of a fold.                                                     *)
Frozen(local) ==
    /\ Turns(nextTurn, local.removed)
    /\ local.at \in {"summarizing", "saving"} =>
           note = local.note /\ Begins(local.removed, context)
    /\ local.at = "saving" => folding /\ local.next.about = TurnsOf(local.removed)
    /\ local.at = "persisting" =>
           /\ Apart(local.removed, context)
           /\ folding => TurnsOf(local.removed) \subseteq note.about

OneFold ==
    \A p \in Threads : Folding(p) =>
        /\ foldEvent = NoEvent
        /\ \A q \in Threads : Folding(q) => q = p
        /\ Frozen(thread[p])

NewTurns ==
    \A p \in Threads : thread[p].at = "running" =>
        LET t == thread[p].turn IN
        /\ t \in Nat /\ t < nextTurn
        /\ Absent(t, context) /\ Absent(t, foldEvent.removed)
        /\ \A q \in Threads : /\ Folding(q) => Absent(t, thread[q].removed)
                              /\ thread[q].at = "running" /\ thread[q].turn = t => q = p

EventOK ==
    /\ Turns(nextTurn, foldEvent.removed)
    /\ foldEvent.how = "failed" => note = foldEvent.note /\ Begins(foldEvent.removed, context)
    /\ foldEvent.how = "ok" =>
           /\ Apart(foldEvent.removed, context)
           /\ folding => TurnsOf(foldEvent.removed) \subseteq note.about

ApartInv ==
    /\ nextTurn \in Nat /\ Turns(nextTurn, context)
    /\ disk.nextTurn \in Nat /\ Turns(disk.nextTurn, disk.context)
    /\ OneFold /\ NewTurns /\ EventOK

IsLocal(r) == r = [at |-> r.at, auto |-> r.auto, removed |-> r.removed, note |-> r.note,
                   next |-> r.next, turn |-> r.turn]

ThreadsOK == thread = [p \in Threads |-> thread[p]] /\ \A p \in Threads : IsLocal(thread[p])

FoldInv ==
    /\ ThreadsOK
    /\ ConversationIsContext /\ disk.conversation = Rebuilt(disk.note, disk.context)
    /\ ~overlap => ApartInv

(* Sequences of turns: what a fold takes, cuts off and puts back.            *)
LEMMA HeadTaken ==
  ASSUME NEW n \in Nat, NEW c, Turns(n, c), NEW k \in Int, k <= Len(c)
  PROVE  Turns(n, SubSeq(c, 1, k)) /\ Begins(SubSeq(c, 1, k), c)
<1>1. PICK s : s = SubSeq(c, 1, k) OBVIOUS
<1>2. /\ s \in Seq(Nat) /\ Len(s) = (IF 1 <= k THEN k ELSE 0)
      /\ \A i \in 1 .. k : s[i] = c[i]
  BY <1>1 DEF Turns
<1>3. DOMAIN s = 1 .. Len(s) /\ DOMAIN c = 1 .. Len(c) /\ Len(c) \in Nat
  BY <1>2 DEF Turns
<1>4. \A i \in DOMAIN s : i \in DOMAIN c /\ s[i] = c[i]
  BY <1>2, <1>3
<1>5. Len(s) <= Len(c)
  BY <1>2, <1>3
<1> QED BY <1>1, <1>2, <1>4, <1>5 DEF Turns, Begins, Distinct, Before

LEMMA BeginsAbsent ==
  ASSUME NEW s \in Seq(Nat), NEW c \in Seq(Nat), Begins(s, c), NEW t, Absent(t, c)
  PROVE  Absent(t, s)
<1>1. PICK n \in Nat, m \in Nat : DOMAIN s = 1 .. n /\ DOMAIN c = 1 .. m /\ n = Len(s) /\ m = Len(c)
  OBVIOUS
<1>2. \A i \in 1 .. n : i \in 1 .. m
  BY <1>1 DEF Begins
<1> QED BY <1>1, <1>2 DEF Begins, Absent

LEMMA BeginsPrefix ==
  ASSUME NEW s \in Seq(Nat), NEW c \in Seq(Nat), Begins(s, c)
  PROVE  IsPrefix(s, c)
<1>1. PICK n \in Nat : n = Len(s) /\ DOMAIN s = 1 .. n OBVIOUS
<1>2. PICK a : a = SubSeq(s, 1, n) OBVIOUS
<1>3. PICK b : b = SubSeq(c, 1, n) OBVIOUS
<1>4. n <= Len(c) /\ \A i \in 1 .. n : s[i] = c[i]
  BY <1>1 DEF Begins
<1>5. a \in Seq(Nat) /\ Len(a) = n /\ \A i \in 1 .. n : a[i] = s[i]
  BY <1>1, <1>2
<1>6. b \in Seq(Nat) /\ Len(b) = n /\ \A i \in 1 .. n : b[i] = c[i]
  BY <1>3, <1>4
<1>7. \A i \in 1 .. n : a[i] = b[i]
  BY <1>4, <1>5, <1>6
<1>8. a = b
  BY <1>5, <1>6, <1>7, SeqEqual
<1> QED BY <1>1, <1>2, <1>3, <1>4, <1>8 DEF IsPrefix

LEMMA HeadCut ==
  ASSUME NEW n \in Nat, NEW c, Turns(n, c), NEW r \in Seq(Nat), Begins(r, c)
  PROVE  /\ Turns(n, SubSeq(c, Len(r) + 1, Len(c))) /\ Apart(r, SubSeq(c, Len(r) + 1, Len(c)))
         /\ \A t : Absent(t, c) => Absent(t, SubSeq(c, Len(r) + 1, Len(c)))
<1>1. PICK l \in Nat : l = Len(r) /\ DOMAIN r = 1 .. l OBVIOUS
<1>2. PICK m \in Nat : m = Len(c) /\ c \in Seq(Nat) /\ DOMAIN c = 1 .. m BY DEF Turns
<1>3. PICK s : s = SubSeq(c, l + 1, m) OBVIOUS
<1>4. l <= m /\ DOMAIN r = 1 .. l /\ DOMAIN c = 1 .. m /\ \A i \in 1 .. l : r[i] = c[i]
  BY <1>1, <1>2 DEF Begins
<1>5. s \in Seq(Nat) /\ Len(s) = m - l /\ \A i \in 1 .. m - l : s[i] = c[l + i]
  <2>1. l + 1 \in 1 .. m + 1
    BY <1>4
  <2>2. /\ s \in Seq(Nat) /\ Len(s) = (IF l + 1 <= m THEN m - (l + 1) + 1 ELSE 0)
        /\ \A i \in 1 .. m - (l + 1) + 1 : s[i] = c[l + 1 + i - 1]
    BY <1>2, <1>3, <2>1, SubSeqProperties
  <2>3. m - (l + 1) + 1 = m - l /\ \A i \in 1 .. m - l : l + 1 + i - 1 = l + i
    OBVIOUS
  <2>4. Len(s) = m - l
    BY <1>4, <2>2
  <2> QED BY <2>2, <2>3, <2>4
<1>6. DOMAIN s = 1 .. m - l
  BY <1>5
<1>7. \A i \in DOMAIN s : l + i \in DOMAIN c /\ s[i] = c[l + i] /\ i \in Nat
  <2>1. \A i \in 1 .. m - l : l + i \in 1 .. m /\ i \in Nat OBVIOUS
  <2> QED BY <1>4, <1>5, <1>6, <2>1
<1>8. Before(n, s) /\ \A t : Absent(t, c) => Absent(t, s)
  BY <1>7 DEF Turns, Before, Absent
<1>9. Distinct(s)
  <2>1. ASSUME NEW i \in DOMAIN s, NEW k \in DOMAIN s, s[i] = s[k]
        PROVE  i = k
    <3>1. l + i = l + k BY <1>7, <2>1 DEF Turns, Distinct
    <3>2. i \in Nat /\ k \in Nat BY <1>7
    <3> QED BY <3>1, <3>2
  <2> QED BY <2>1 DEF Distinct
<1>10. Apart(r, s)
  <2>1. ASSUME NEW i \in DOMAIN r, NEW k \in DOMAIN s, r[i] = s[k]
        PROVE  FALSE
    <3>1. i \in DOMAIN c /\ r[i] = c[i] /\ i <= l /\ i \in Nat BY <1>4
    <3>2. i = l + k BY <1>7, <2>1, <3>1 DEF Turns, Distinct
    <3>3. k \in 1 .. m - l BY <1>6
    <3> QED BY <3>1, <3>2, <3>3
  <2> QED BY <2>1 DEF Apart
<1> QED BY <1>1, <1>2, <1>3, <1>5, <1>8, <1>9, <1>10 DEF Turns

LEMMA PutBack ==
  ASSUME NEW n \in Nat, NEW c, Turns(n, c), NEW r, Turns(n, r), Apart(r, c)
  PROVE  /\ Turns(n, r \o c) /\ Begins(r, r \o c)
         /\ \A t : Absent(t, c) /\ Absent(t, r) => Absent(t, r \o c)
<1>1. PICK l \in Nat : l = Len(r) /\ r \in Seq(Nat) /\ DOMAIN r = 1 .. l BY DEF Turns
<1>2. PICK m \in Nat : m = Len(c) /\ c \in Seq(Nat) /\ DOMAIN c = 1 .. m BY DEF Turns
<1>3. PICK s : s = r \o c OBVIOUS
<1>4. s \in Seq(Nat) /\ Len(s) = l + m
      /\ \A i \in 1 .. l + m : s[i] = IF i <= l THEN r[i] ELSE c[i - l]
  BY <1>1, <1>2, <1>3
<1>5. DOMAIN s = 1 .. l + m
  BY <1>4
<1>6. \A i \in DOMAIN s : \/ i \in DOMAIN r /\ s[i] = r[i]
                          \/ i - l \in DOMAIN c /\ s[i] = c[i - l]
  <2>1. ASSUME NEW i \in 1 .. l + m PROVE i \in 1 .. l \/ (i - l \in 1 .. m /\ ~(i <= l))
    OBVIOUS
  <2>2. \A i \in 1 .. l : i <= l /\ i \in 1 .. l + m
    OBVIOUS
  <2> QED BY <1>1, <1>2, <1>4, <1>5, <2>1, <2>2
<1>7. Before(n, s) /\ \A t : Absent(t, c) /\ Absent(t, r) => Absent(t, s)
  BY <1>6 DEF Turns, Before, Absent
<1>8. Distinct(s)
  <2>1. ASSUME NEW i \in DOMAIN s, NEW k \in DOMAIN s, s[i] = s[k]
        PROVE  i = k
    <3>1. CASE i \in DOMAIN r /\ s[i] = r[i] /\ k \in DOMAIN r /\ s[k] = r[k]
      BY <2>1, <3>1 DEF Turns, Distinct
    <3>2. CASE i \in DOMAIN r /\ s[i] = r[i] /\ k - l \in DOMAIN c /\ s[k] = c[k - l]
      BY <2>1, <3>2 DEF Apart
    <3>3. CASE i - l \in DOMAIN c /\ s[i] = c[i - l] /\ k \in DOMAIN r /\ s[k] = r[k]
      BY <2>1, <3>3 DEF Apart
    <3>4. CASE i - l \in DOMAIN c /\ s[i] = c[i - l] /\ k - l \in DOMAIN c /\ s[k] = c[k - l]
      <4>1. i - l = k - l BY <2>1, <3>4 DEF Turns, Distinct
      <4>2. i \in Nat /\ k \in Nat BY <1>5
      <4> QED BY <4>1, <4>2
    <3> QED BY <1>6, <3>1, <3>2, <3>3, <3>4
  <2> QED BY <2>1 DEF Distinct
<1>9. Begins(r, s)
  <2>1. l <= l + m /\ \A i \in 1 .. l : i <= l /\ i \in 1 .. l + m OBVIOUS
  <2> QED BY <1>1, <1>4, <2>1 DEF Begins
<1> QED BY <1>3, <1>4, <1>7, <1>8, <1>9 DEF Turns

LEMMA TurnAdded ==
  ASSUME NEW n \in Nat, NEW c, Turns(n, c), NEW t \in Nat, t < n, Absent(t, c)
  PROVE  /\ Turns(n, Append(c, t))
         /\ \A r \in Seq(Nat) : Begins(r, c) => Begins(r, Append(c, t))
         /\ \A r \in Seq(Nat) : Apart(r, c) /\ Absent(t, r) => Apart(r, Append(c, t))
         /\ \A u : u # t /\ Absent(u, c) => Absent(u, Append(c, t))
<1>1. PICK m \in Nat : m = Len(c) /\ c \in Seq(Nat) /\ DOMAIN c = 1 .. m BY DEF Turns
<1>2. PICK s : s = Append(c, t) OBVIOUS
<1>3. s \in Seq(Nat) /\ Len(s) = m + 1 /\ s[m + 1] = t /\ \A i \in 1 .. m : s[i] = c[i]
  BY <1>1, <1>2
<1>4. DOMAIN s = 1 .. m + 1 /\ \A i \in 1 .. m + 1 : i \in 1 .. m \/ i = m + 1
  BY <1>3
<1>5. \A i \in DOMAIN s : (i \in DOMAIN c /\ s[i] = c[i]) \/ (i = m + 1 /\ s[i] = t)
  BY <1>1, <1>3, <1>4
<1>6. Turns(n, s)
  BY <1>3, <1>5 DEF Turns, Distinct, Before, Absent
<1>7. ASSUME NEW r \in Seq(Nat), Begins(r, c) PROVE Begins(r, s)
  <2>1. Len(r) \in Nat /\ Len(r) <= m /\ \A i \in DOMAIN r : i \in 1 .. m /\ r[i] = c[i]
    BY <1>1, <1>7 DEF Begins
  <2> QED BY <1>3, <2>1 DEF Begins
<1>8. \A r \in Seq(Nat) : Apart(r, c) /\ Absent(t, r) => Apart(r, s)
  BY <1>5 DEF Apart, Absent
<1>9. \A u : u # t /\ Absent(u, c) => Absent(u, s)
  BY <1>5 DEF Absent
<1> QED BY <1>2, <1>6, <1>7, <1>8, <1>9

LEMMA NoTurns ==
  ASSUME NEW n
  PROVE  /\ Turns(n, <<>>)
         /\ \A t : Absent(t, <<>>)
BY DEF Turns, Distinct, Before, Absent

LEMMA FoldInitHolds == FoldInit => FoldInv
<1> SUFFICES ASSUME FoldInit PROVE FoldInv
  OBVIOUS
<1>1. /\ \A p \in Threads : thread[p] = AtRest
      /\ nextTurn = 1 /\ context = <<>> /\ disk.nextTurn = 1 /\ disk.context = <<>>
      /\ foldEvent = NoEvent /\ foldEvent.how = "none" /\ foldEvent.removed = <<>>
  BY DEF FoldInit, NoEvent
<1>2. ThreadsOK
  BY <1>1 DEF FoldInit, ThreadsOK, IsLocal, AtRest
<1>3. OneFold /\ NewTurns
  BY <1>1 DEF OneFold, NewTurns, Folding, Folds, AtRest
<1>4. ApartInv
  BY <1>1, <1>3, NoTurns DEF ApartInv, EventOK
<1> QED BY <1>2, <1>4 DEF FoldInit, FoldInv, ConversationIsContext, Rebuilt

(* One thread moves, and the other stays where it is.                        *)
LEMMA ThreadMoves ==
  ASSUME ThreadsOK, NEW p \in Threads, NEW r, IsLocal(r), thread' = [thread EXCEPT ![p] = r]
  PROVE  ThreadsOK' /\ thread'[p] = r /\ \A q \in Threads \ {p} : thread'[q] = thread[q]
<1>1. thread'[p] = r /\ \A q \in Threads \ {p} : thread'[q] = thread[q]
  BY DEF ThreadsOK
<1>2. thread' = [q \in Threads |-> thread'[q]]
  BY DEF ThreadsOK
<1> QED BY <1>1, <1>2 DEF ThreadsOK

LEMMA MoveToMeans ==
  ASSUME ThreadsOK, NEW p \in Threads, NEW s, MoveTo(p, s)
  PROVE  /\ ThreadsOK' /\ \A q \in Threads \ {p} : thread'[q] = thread[q]
         /\ thread'[p].at = s /\ thread'[p].auto = thread[p].auto
         /\ thread'[p].removed = thread[p].removed /\ thread'[p].note = thread[p].note
         /\ thread'[p].next = thread[p].next /\ thread'[p].turn = thread[p].turn
<1> DEFINE r == [at |-> s, auto |-> thread[p].auto, removed |-> thread[p].removed,
                 note |-> thread[p].note, next |-> thread[p].next, turn |-> thread[p].turn]
<1>1. IsLocal(thread[p]) BY DEF ThreadsOK
<1>2. [thread[p] EXCEPT !.at = s] = r BY <1>1 DEF IsLocal
<1>3. thread' = [thread EXCEPT ![p] = r] BY <1>2 DEF MoveTo
<1>4. IsLocal(r) BY DEF IsLocal
<1>5. thread'[p] = r /\ ThreadsOK' /\ \A q \in Threads \ {p} : thread'[q] = thread[q]
  BY <1>3, <1>4, ThreadMoves
<1> QED BY <1>5

LEMMA LocalsBegun ==
  ASSUME NEW a, NEW r, NEW n
  PROVE  [AtRest EXCEPT !.auto = a, !.removed = r, !.note = n] =
             [at |-> "idle", auto |-> a, removed |-> r, note |-> n, next |-> NoNote, turn |-> 0]
<1>1. PICK q : q = AtRest
  OBVIOUS
<1>2. [q EXCEPT !.auto = a, !.removed = r, !.note = n]
          = [[[q EXCEPT !.auto = a] EXCEPT !.removed = r] EXCEPT !.note = n]
  OBVIOUS
<1>3. PICK q1 : q1 = [at |-> "idle", auto |-> a, removed |-> <<>>, note |-> NoNote, next |-> NoNote,
                      turn |-> 0]
  OBVIOUS
<1>4. PICK q2 : q2 = [at |-> "idle", auto |-> a, removed |-> r, note |-> NoNote, next |-> NoNote,
                      turn |-> 0]
  OBVIOUS
<1>5. [q EXCEPT !.auto = a] = q1 BY <1>1, <1>3 DEF AtRest
<1>6. [q1 EXCEPT !.removed = r] = q2 BY <1>3, <1>4
<1>7. [q2 EXCEPT !.note = n] = [at |-> "idle", auto |-> a, removed |-> r, note |-> n, next |-> NoNote,
                                turn |-> 0]
  BY <1>4
<1> QED BY <1>1, <1>2, <1>5, <1>6, <1>7

LEMMA FailsMeans ==
  ASSUME ThreadsOK, NEW p \in Threads, NEW local, IsLocal(local), FoldFails(p, local)
  PROVE  /\ ThreadsOK' /\ \A q \in Threads \ {p} : thread'[q] = thread[q]
         /\ thread'[p].at \in {"starting", "idle"}
         /\ foldEvent'.how = "failed" /\ foldEvent'.removed = local.removed
         /\ foldEvent'.note = local.note
<1> DEFINE s == IF folding THEN After(local.auto) ELSE "idle"
           r == [at |-> s, auto |-> local.auto, removed |-> local.removed, note |-> local.note,
                 next |-> local.next, turn |-> local.turn]
<1>1. [local EXCEPT !.at = s] = r BY DEF IsLocal
<1>2. thread' = [thread EXCEPT ![p] = r] BY <1>1 DEF FoldFails
<1>3. IsLocal(r) /\ r.at = s BY DEF IsLocal
<1>5. s \in {"starting", "idle"} BY DEF After
<1> HIDE DEF s, r
<1>4. thread'[p] = r /\ ThreadsOK' /\ \A q \in Threads \ {p} : thread'[q] = thread[q]
  BY <1>2, <1>3, ThreadMoves
<1>6. foldEvent' = [how |-> "failed", removed |-> local.removed, note |-> local.note]
  BY DEF FoldFails
<1> QED BY <1>3, <1>4, <1>5, <1>6

(* A fold begins, goes on or ends, and no other is under way.                *)
LEMMA FoldMoves ==
  ASSUME ApartInv, NEW p \in Threads,
         \A q \in Threads \ {p} : thread'[q] = thread[q] /\ ~Folding(q),
         thread'[p].at # "running",
         UNCHANGED <<folding, nextTurn>>,
         Turns(nextTurn, context'), disk'.nextTurn \in Nat, Turns(disk'.nextTurn, disk'.context),
         EventOK',
         thread'[p].at \in Folds => foldEvent' = NoEvent /\ Frozen(thread[p])',
         \A q \in Threads \ {p} : thread[q].at = "running" =>
             /\ Absent(thread[q].turn, context') /\ Absent(thread[q].turn, foldEvent'.removed)
             /\ thread'[p].at \in Folds => Absent(thread[q].turn, thread'[p].removed)
  PROVE  ApartInv'
<1>1. OneFold'
  BY DEF OneFold, Folding
<1>2. NewTurns'
  <2>1. ASSUME NEW q \in Threads, thread'[q].at = "running"
        PROVE  /\ q # p /\ thread[q].at = "running" /\ thread'[q].turn = thread[q].turn
               /\ thread[q].turn \in Nat /\ thread[q].turn < nextTurn'
    BY <2>1 DEF ApartInv, NewTurns
  <2>2. ASSUME NEW q \in Threads, thread'[q].at = "running", NEW o \in Threads
        PROVE  /\ thread'[o].at \in Folds => Absent(thread[q].turn, thread'[o].removed)
               /\ thread'[o].at = "running" /\ thread'[o].turn = thread[q].turn => o = q
    BY <2>1, <2>2 DEF ApartInv, NewTurns, Folding
  <2> QED BY <2>1, <2>2 DEF NewTurns, Folding
<1> QED BY <1>1, <1>2 DEF ApartInv

(* A thread that neither folds nor runs, and a history nobody changes.       *)
LEMMA RestKeeps ==
  ASSUME ApartInv, NEW p \in Threads, \A q \in Threads \ {p} : thread'[q] = thread[q],
         thread'[p].at \notin Folds \cup {"running"},
         UNCHANGED <<folding, nextTurn, context, note>>, foldEvent' \in {foldEvent, NoEvent},
         disk'.nextTurn \in Nat, Turns(disk'.nextTurn, disk'.context)
  PROVE  ApartInv'
<1>1. EventOK'
  <2>1. CASE foldEvent' = foldEvent BY <2>1 DEF ApartInv, EventOK
  <2>2. CASE foldEvent' = NoEvent
    <3>1. foldEvent'.how = "none" /\ foldEvent'.removed = <<>> BY <2>2 DEF NoEvent
    <3> QED BY <3>1, NoTurns DEF EventOK
  <2> QED BY <2>1, <2>2
<1>2. OneFold'
  BY DEF ApartInv, OneFold, Folding, Frozen
<1>3. NewTurns'
  <2>1. \A t : Absent(t, foldEvent.removed) => Absent(t, foldEvent'.removed)
    BY NoTurns DEF NoEvent
  <2> QED BY <2>1 DEF ApartInv, NewTurns, Folding
<1> QED BY <1>1, <1>2, <1>3 DEF ApartInv

(* A snapshot of a history that is apart is one to come back to.             *)
LEMMA SnapshotKept ==
  ASSUME ApartInv, NEW ok \in BOOLEAN, Persist(ok)
  PROVE  disk'.nextTurn \in Nat /\ Turns(disk'.nextTurn, disk'.context)
<1>1. disk' = disk \/ disk' = Snapshot BY DEF Persist
<1>2. Snapshot.nextTurn = nextTurn /\ Snapshot.context = context BY DEF Snapshot
<1> QED BY <1>1, <1>2 DEF ApartInv

LEMMA RemovableTaken ==
  ASSUME ApartInv
  PROVE  /\ Turns(nextTurn, Removable) /\ Begins(Removable, context)
         /\ \A t : Absent(t, context) => Absent(t, Removable)
<1>1. /\ Len(context) - KeepTurns \in Int /\ Len(context) - KeepTurns <= Len(context)
      /\ nextTurn \in Nat /\ Turns(nextTurn, context)
  BY FoldAssumption DEF ApartInv, Turns
<1>2. Turns(nextTurn, Removable) /\ Begins(Removable, context)
  BY <1>1, HeadTaken DEF Removable
<1>3. Removable \in Seq(Nat) /\ context \in Seq(Nat)
  BY <1>1, <1>2 DEF Turns
<1> QED BY <1>2, <1>3, BeginsAbsent

(* Whose fold it is, when one is under way.                                  *)
LEMMA Alone ==
  ASSUME ApartInv, NEW p \in Threads, thread[p].at \in Folds
  PROVE  /\ foldEvent = NoEvent /\ Frozen(thread[p])
         /\ \A q \in Threads \ {p} : ~Folding(q)
         /\ \A q \in Threads : thread[q].at = "running" =>
                Absent(thread[q].turn, context) /\ Absent(thread[q].turn, thread[p].removed)
BY DEF ApartInv, OneFold, NewTurns, Folding

LEMMA BeginFoldKeeps ==
  ASSUME FoldInv, ~overlap', NEW p \in Threads, NEW auto, up, BeginFold(p, auto),
         thread[p].at \in {"idle", "submitted"}
  PROVE  ThreadsOK' /\ ApartInv'
<1> DEFINE local == [at |-> "idle", auto |-> auto, removed |-> Removable, note |-> note,
                     next |-> NoNote, turn |-> 0]
           begun == [local EXCEPT !.at = "summarizing"]
<1>0. local = [AtRest EXCEPT !.auto = auto, !.removed = Removable, !.note = note]
  BY LocalsBegun
<1>1. ~overlap /\ \A q \in Threads \ {p} : ~Folding(q)
  BY DEF BeginFold, At, Folding
<1>2. ApartInv /\ ThreadsOK
  BY <1>1 DEF FoldInv
<1>3. UNCHANGED <<folding, nextTurn, context, note, disk>>
  BY DEF BeginFold, memory
<1>4. IsLocal(local) /\ local.removed = Removable /\ local.note = note
  BY DEF IsLocal
<1>5. IsLocal(begun) /\ begun.at = "summarizing" /\ begun.removed = Removable /\ begun.note = note
  BY DEF IsLocal
<1>6. CASE FoldFails(p, local)
  <2> HIDE DEF local, begun
  <2>1. /\ ThreadsOK' /\ \A q \in Threads \ {p} : thread'[q] = thread[q]
        /\ thread'[p].at \in {"starting", "idle"}
        /\ foldEvent'.how = "failed" /\ foldEvent'.removed = Removable /\ foldEvent'.note = note
    BY <1>2, <1>4, <1>6, FailsMeans
  <2>2. EventOK'
    BY <1>2, <1>3, <2>1, RemovableTaken DEF EventOK
  <2>3. thread'[p].at # "running" /\ thread'[p].at \notin Folds
    BY <2>1 DEF Folds
  <2>4. \A q \in Threads : thread[q].at = "running" =>
            Absent(thread[q].turn, context') /\ Absent(thread[q].turn, foldEvent'.removed)
    BY <1>2, <1>3, <2>1, RemovableTaken DEF ApartInv, NewTurns
  <2> QED BY <1>1, <1>2, <1>3, <2>1, <2>2, <2>3, <2>4, FoldMoves DEF ApartInv
<1>7. CASE thread' = [thread EXCEPT ![p] = begun] /\ foldEvent' = NoEvent
  <2> HIDE DEF local, begun
  <2>1. ThreadsOK' /\ thread'[p] = begun /\ \A q \in Threads \ {p} : thread'[q] = thread[q]
    BY <1>2, <1>5, <1>7, ThreadMoves
  <2>2. EventOK'
    <3>1. foldEvent'.how = "none" /\ foldEvent'.removed = <<>> BY <1>7 DEF NoEvent
    <3> QED BY <3>1, NoTurns DEF EventOK
  <2>3. Frozen(thread[p])'
    BY <1>2, <1>3, <1>5, <2>1, RemovableTaken DEF Frozen
  <2>4. \A q \in Threads : thread[q].at = "running" =>
            /\ Absent(thread[q].turn, context') /\ Absent(thread[q].turn, foldEvent'.removed)
            /\ Absent(thread[q].turn, thread'[p].removed)
    <3>1. foldEvent'.removed = <<>> BY <1>7 DEF NoEvent
    <3> QED BY <1>2, <1>3, <1>5, <2>1, <3>1, RemovableTaken, NoTurns DEF ApartInv, NewTurns
  <2> QED BY <1>1, <1>2, <1>3, <1>5, <1>7, <2>1, <2>2, <2>3, <2>4, FoldMoves DEF ApartInv
<1> HIDE DEF local, begun
<1> QED
  <2>1. FoldFails(p, local) \/ (thread' = [thread EXCEPT ![p] = begun] /\ foldEvent' = NoEvent)
    BY <1>0 DEF BeginFold, begun
  <2> QED BY <2>1, <1>6, <1>7

LEMMA SummarizeKeeps ==
  ASSUME FoldInv, NEW p \in Threads, Summarize(p)
  PROVE  ThreadsOK' /\ (~overlap' => ApartInv')
<1>1. PICK next \in Memories(thread[p].removed) :
          thread' = [thread EXCEPT ![p].next = next, ![p].at = "saving"]
  BY DEF Summarize
<1>2. thread[p].at = "summarizing" /\ folding
      /\ UNCHANGED <<folding, nextTurn, context, note, foldEvent, overlap, disk>>
  BY DEF Summarize, At, memory
<1>3. next.about = TurnsOf(thread[p].removed)
  BY DEF Memories
<1> DEFINE r == [at |-> "saving", auto |-> thread[p].auto, removed |-> thread[p].removed,
                 note |-> thread[p].note, next |-> next, turn |-> thread[p].turn]
<1>4. thread' = [thread EXCEPT ![p] = r]
  <2>1. PICK x : x = thread[p] OBVIOUS
  <2>2. x = [at |-> x.at, auto |-> x.auto, removed |-> x.removed, note |-> x.note, next |-> x.next,
             turn |-> x.turn]
    BY <2>1 DEF FoldInv, ThreadsOK, IsLocal
  <2>3. PICK x1 : x1 = [at |-> x.at, auto |-> x.auto, removed |-> x.removed, note |-> x.note,
                        next |-> next, turn |-> x.turn]
    OBVIOUS
  <2>4. [x EXCEPT !.next = next] = x1 BY <2>2, <2>3
  <2>5. [x1 EXCEPT !.at = "saving"] = r BY <2>1, <2>3
  <2>6. thread' = [thread EXCEPT ![p] = [[x EXCEPT !.next = next] EXCEPT !.at = "saving"]]
    BY <1>1, <2>1 DEF FoldInv, ThreadsOK
  <2> QED BY <2>4, <2>5, <2>6
<1>5. IsLocal(r) /\ r.at = "saving" /\ r.removed = thread[p].removed /\ r.note = thread[p].note
      /\ r.next = next
  BY DEF IsLocal
<1> HIDE DEF r
<1>6. ThreadsOK' /\ thread'[p] = r /\ \A q \in Threads \ {p} : thread'[q] = thread[q]
  BY <1>4, <1>5, ThreadMoves DEF FoldInv
<1>7. ASSUME ~overlap' PROVE ApartInv'
  <2>1. ApartInv BY <1>2, <1>7 DEF FoldInv
  <2>2. thread[p].at \in Folds BY <1>2 DEF Folds
  <2>3. Frozen(thread[p])'
    BY <1>2, <1>3, <1>5, <1>6, <2>1, <2>2, Alone DEF Frozen
  <2>4. EventOK' BY <1>2, <2>1 DEF ApartInv, EventOK
  <2>5. foldEvent' = NoEvent /\ foldEvent'.removed = <<>> /\ \A q \in Threads \ {p} : ~Folding(q)
    BY <1>2, <2>1, <2>2, Alone DEF NoEvent
  <2>6. \A q \in Threads : thread[q].at = "running" =>
            /\ Absent(thread[q].turn, context') /\ Absent(thread[q].turn, foldEvent'.removed)
            /\ Absent(thread[q].turn, thread'[p].removed)
    BY <1>2, <1>5, <1>6, <2>1, <2>2, <2>5, Alone, NoTurns
  <2>7. disk'.nextTurn \in Nat /\ Turns(disk'.nextTurn, disk'.context)
        /\ Turns(nextTurn, context') /\ thread'[p].at # "running"
    BY <1>2, <1>5, <1>6, <2>1 DEF ApartInv
  <2> QED BY <1>2, <1>6, <2>1, <2>3, <2>4, <2>5, <2>6, <2>7, FoldMoves
<1> QED BY <1>6, <1>7

(* What is put in the place of the turns that were frozen.                   *)
LEMMA SwitchKeeps ==
  ASSUME FoldInv, NEW p \in Threads, thread[p].at \in {"summarizing", "saving"},
         NEW next, folding => next.about = TurnsOf(thread[p].removed), Switch(p, next),
         UNCHANGED <<folding, nextTurn, overlap, disk>>
  PROVE  ThreadsOK' /\ (~overlap' => ApartInv')
<1>1. /\ note' = next /\ context' = SubSeq(context, Len(thread[p].removed) + 1, Len(context))
      /\ MoveTo(p, "persisting") /\ foldEvent' = foldEvent
  BY DEF Switch
<1>2. /\ ThreadsOK' /\ \A q \in Threads \ {p} : thread'[q] = thread[q]
      /\ thread'[p].at = "persisting" /\ thread'[p].removed = thread[p].removed
  BY <1>1, MoveToMeans DEF FoldInv
<1>3. ASSUME ~overlap' PROVE ApartInv'
  <2>1. ApartInv BY <1>3 DEF FoldInv
  <2>2. thread[p].at \in Folds BY DEF Folds
  <2>3. foldEvent = NoEvent /\ Frozen(thread[p]) /\ \A q \in Threads \ {p} : ~Folding(q)
    BY <2>1, <2>2, Alone
  <2>4. /\ nextTurn \in Nat /\ Turns(nextTurn, context) /\ Turns(nextTurn, thread[p].removed)
        /\ thread[p].removed \in Seq(Nat) /\ Begins(thread[p].removed, context)
    BY <2>1, <2>3 DEF ApartInv, Frozen, Turns
  <2>5. /\ Turns(nextTurn, context') /\ Apart(thread[p].removed, context')
        /\ \A t : Absent(t, context) => Absent(t, context')
    BY <1>1, <2>4, HeadCut
  <2>6. Frozen(thread[p])'
    BY <1>1, <1>2, <2>4, <2>5 DEF Frozen
  <2>7. foldEvent' = NoEvent /\ foldEvent'.removed = <<>> /\ foldEvent'.how = "none"
    BY <1>1, <2>3 DEF NoEvent
  <2>8. EventOK'
    BY <2>7, NoTurns DEF EventOK
  <2>9. \A q \in Threads : thread[q].at = "running" =>
            /\ Absent(thread[q].turn, context') /\ Absent(thread[q].turn, foldEvent'.removed)
            /\ Absent(thread[q].turn, thread'[p].removed)
    BY <1>2, <2>1, <2>2, <2>5, <2>7, Alone, NoTurns
  <2>10. disk'.nextTurn \in Nat /\ Turns(disk'.nextTurn, disk'.context) /\ thread'[p].at # "running"
    BY <1>2, <2>1 DEF ApartInv
  <2> QED BY <1>2, <2>1, <2>3, <2>5, <2>6, <2>7, <2>8, <2>9, <2>10, FoldMoves
<1> QED BY <1>2, <1>3

(* A fold that fails with the history as it was, or put back.                *)
LEMMA FailureKeeps ==
  ASSUME FoldInv, NEW p \in Threads, thread[p].at \in Folds, FoldFails(p, thread[p]),
         UNCHANGED <<folding, nextTurn, overlap>>,
         \/ thread[p].at # "persisting" /\ UNCHANGED <<context, note, disk>>
         \/ thread[p].at = "persisting" /\ Restore(thread[p]) /\ Persist(FALSE)
  PROVE  ThreadsOK' /\ (~overlap' => ApartInv')
<1>1. /\ ThreadsOK' /\ \A q \in Threads \ {p} : thread'[q] = thread[q]
      /\ thread'[p].at \in {"starting", "idle"}
      /\ foldEvent'.how = "failed" /\ foldEvent'.removed = thread[p].removed
      /\ foldEvent'.note = thread[p].note
  BY FailsMeans DEF FoldInv, ThreadsOK
<1>2. ASSUME ~overlap' PROVE ApartInv'
  <2>1. ApartInv BY <1>2 DEF FoldInv
  <2>2. Frozen(thread[p]) /\ \A q \in Threads \ {p} : ~Folding(q)
    BY <2>1, Alone
  <2>3. nextTurn \in Nat /\ Turns(nextTurn, context) /\ Turns(nextTurn, thread[p].removed)
    BY <2>1, <2>2 DEF ApartInv, Frozen
  <2>4. /\ Turns(nextTurn, context') /\ note' = thread[p].note
        /\ Begins(thread[p].removed, context')
        /\ \A t : Absent(t, context) /\ Absent(t, thread[p].removed) => Absent(t, context')
        /\ disk'.nextTurn \in Nat /\ Turns(disk'.nextTurn, disk'.context)
    <3>1. CASE thread[p].at # "persisting" /\ UNCHANGED <<context, note, disk>>
      BY <2>1, <2>2, <2>3, <3>1 DEF Frozen, Folds, ApartInv
    <3>2. CASE thread[p].at = "persisting" /\ Restore(thread[p]) /\ Persist(FALSE)
      <4>1. context' = thread[p].removed \o context /\ note' = thread[p].note
        BY <3>2 DEF Restore
      <4>2. Apart(thread[p].removed, context)
        BY <2>2, <3>2 DEF Frozen
      <4>3. disk'.nextTurn \in Nat /\ Turns(disk'.nextTurn, disk'.context)
        BY <2>1, <3>2, SnapshotKept
      <4> QED BY <2>3, <4>1, <4>2, <4>3, PutBack
    <3> QED BY <3>1, <3>2
  <2>5. EventOK'
    BY <1>1, <2>3, <2>4 DEF EventOK
  <2>6. thread'[p].at # "running" /\ thread'[p].at \notin Folds
    BY <1>1 DEF Folds
  <2>7. \A q \in Threads : thread[q].at = "running" =>
            Absent(thread[q].turn, context') /\ Absent(thread[q].turn, foldEvent'.removed)
    BY <1>1, <2>1, <2>4, Alone
  <2> QED BY <1>1, <2>1, <2>2, <2>4, <2>5, <2>6, <2>7, FoldMoves
<1> QED BY <1>1, <1>2

LEMMA FoldStepKeeps ==
  ASSUME FoldInv, NEW p \in Threads, FoldStep(p)
  PROVE  ThreadsOK' /\ (~overlap' => ApartInv')
<1>1. CASE Summarize(p)
  BY <1>1, SummarizeKeeps
<1>2. CASE SaveProjection(p)
  <2>1. thread[p].at = "saving" /\ UNCHANGED <<folding, nextTurn, overlap, disk>>
    BY <1>2 DEF SaveProjection, At
  <2>2. CASE Switch(p, thread[p].next)
    <3>1. ASSUME ~overlap' PROVE folding /\ thread[p].next.about = TurnsOf(thread[p].removed)
      <4>1. ApartInv /\ thread[p].at \in Folds BY <2>1, <3>1 DEF FoldInv, Folds
      <4> QED BY <2>1, <4>1, Alone DEF Frozen
    <3>2. CASE ~overlap'
      BY <2>1, <2>2, <3>1, <3>2, SwitchKeeps
    <3>3. CASE overlap'
      BY <2>2, <3>3, MoveToMeans DEF Switch, FoldInv
    <3> QED BY <3>2, <3>3
  <2>3. CASE FoldFails(p, thread[p]) /\ UNCHANGED <<context, note>>
    BY <2>1, <2>3, FailureKeeps DEF Folds
  <2> QED BY <1>2, <2>2, <2>3 DEF SaveProjection
<1>3. CASE Compact(p)
  <2>1. thread[p].at = "summarizing" /\ ~folding /\ UNCHANGED <<folding, nextTurn, overlap, disk>>
    BY <1>3 DEF Compact, At
  <2>2. ASSUME NEW summary, Switch(p, summary)
        PROVE  ThreadsOK' /\ (~overlap' => ApartInv')
    BY <2>1, <2>2, SwitchKeeps
  <2>3. CASE FoldFails(p, thread[p]) /\ UNCHANGED <<context, note>>
    BY <2>1, <2>3, FailureKeeps DEF Folds
  <2> QED BY <1>3, <2>2, <2>3 DEF Compact
<1>4. CASE PersistFold(p)
  <2>1. thread[p].at = "persisting" /\ thread[p].at \in Folds /\ UNCHANGED <<folding, nextTurn, overlap>>
    BY <1>4 DEF PersistFold, At, Folds
  <2>2. CASE /\ Persist(TRUE) /\ MoveTo(p, After(thread[p].auto)) /\ UNCHANGED <<context, note>>
             /\ foldEvent' = [how |-> "ok", removed |-> thread[p].removed, note |-> thread[p].note]
    <3>1. /\ ThreadsOK' /\ \A q \in Threads \ {p} : thread'[q] = thread[q]
          /\ thread'[p].at \in {"starting", "idle"}
      BY <2>2, MoveToMeans DEF FoldInv, After
    <3>2. ASSUME ~overlap' PROVE ApartInv'
      <4>1. ApartInv BY <2>1, <3>2 DEF FoldInv
      <4>2. Frozen(thread[p]) /\ \A q \in Threads \ {p} : ~Folding(q)
        BY <2>1, <4>1, Alone
      <4>3. foldEvent'.how = "ok" /\ foldEvent'.removed = thread[p].removed BY <2>2
      <4>4. EventOK'
        BY <2>1, <2>2, <4>2, <4>3 DEF EventOK, Frozen
      <4>5. thread'[p].at # "running" /\ thread'[p].at \notin Folds
        BY <3>1 DEF Folds
      <4>6. disk'.nextTurn \in Nat /\ Turns(disk'.nextTurn, disk'.context) /\ Turns(nextTurn, context')
        BY <2>2, <4>1, SnapshotKept DEF ApartInv
      <4>7. \A q \in Threads : thread[q].at = "running" =>
                Absent(thread[q].turn, context') /\ Absent(thread[q].turn, foldEvent'.removed)
        BY <2>1, <2>2, <4>1, <4>3, Alone
      <4> QED BY <2>1, <3>1, <4>1, <4>2, <4>4, <4>5, <4>6, <4>7, FoldMoves
    <3> QED BY <3>1, <3>2
  <2>3. CASE Persist(FALSE) /\ Restore(thread[p]) /\ FoldFails(p, thread[p])
    BY <2>1, <2>3, FailureKeeps
  <2> QED BY <1>4, <2>2, <2>3 DEF PersistFold
<1> QED BY <1>1, <1>2, <1>3, <1>4 DEF FoldStep

LEMMA RestMeans ==
  ASSUME NEW s
  PROVE  /\ [AtRest EXCEPT !.at = s].at = s /\ IsLocal([AtRest EXCEPT !.at = s])
         /\ AtRest.at = "idle" /\ IsLocal(AtRest)
<1>1. [AtRest EXCEPT !.at = s] = [at |-> s, auto |-> FALSE, removed |-> <<>>, note |-> NoNote,
                                  next |-> NoNote, turn |-> 0]
  <2>1. PICK a : a = FALSE OBVIOUS
  <2>2. AtRest = [at |-> "idle", auto |-> a, removed |-> <<>>, note |-> NoNote, next |-> NoNote,
                  turn |-> 0]
    BY <2>1 DEF AtRest
  <2>3. [AtRest EXCEPT !.at = s] = [at |-> s, auto |-> a, removed |-> <<>>, note |-> NoNote,
                                    next |-> NoNote, turn |-> 0]
    BY <2>2
  <2> QED BY <2>1, <2>3
<1>2. IsLocal(AtRest) /\ AtRest.at = "idle" BY DEF AtRest, IsLocal
<1> QED BY <1>1, <1>2 DEF IsLocal

LEMMA BeginFoldMoves ==
  ASSUME ThreadsOK, NEW p \in Threads, NEW auto, BeginFold(p, auto)
  PROVE  ThreadsOK'
<1> DEFINE local == [at |-> "idle", auto |-> auto, removed |-> Removable, note |-> note,
                     next |-> NoNote, turn |-> 0]
           begun == [local EXCEPT !.at = "summarizing"]
<1>1. local = [AtRest EXCEPT !.auto = auto, !.removed = Removable, !.note = note]
  BY LocalsBegun
<1>2. IsLocal(local) /\ IsLocal(begun)
  BY DEF IsLocal
<1>3. FoldFails(p, local) \/ thread' = [thread EXCEPT ![p] = begun]
  BY <1>1 DEF BeginFold, begun
<1> HIDE DEF local, begun
<1> QED BY <1>2, <1>3, FailsMeans, ThreadMoves

LEMMA SubmitKeeps ==
  ASSUME FoldInv, NEW p \in Threads, Submit(p)
  PROVE  ThreadsOK' /\ (~overlap' => ApartInv')
<1>1. up /\ thread[p].at \in {"idle", "submitted"}
  <2>1. CASE p = "prompt" BY <2>1 DEF Submit, At
  <2>2. CASE p = "command" BY <2>2 DEF Submit, ReadsCommand, At
  <2> QED BY <2>1, <2>2 DEF Threads
<1>2. CASE BeginFold(p, TRUE)
  BY <1>1, <1>2, BeginFoldKeeps, BeginFoldMoves DEF FoldInv
<1>3. CASE /\ thread' = [thread EXCEPT ![p] = [AtRest EXCEPT !.at = "starting"]]
           /\ foldEvent' = NoEvent
           /\ UNCHANGED <<folding, memory, nextTurn, overlap, projection, up, disk>>
  <2>1. PICK r : r = [AtRest EXCEPT !.at = "starting"] OBVIOUS
  <2>2. IsLocal(r) /\ r.at = "starting" BY <2>1, RestMeans
  <2>3. ThreadsOK' /\ thread'[p] = r /\ \A q \in Threads \ {p} : thread'[q] = thread[q]
    BY <1>3, <2>1, <2>2, ThreadMoves DEF FoldInv
  <2>4. UNCHANGED <<folding, nextTurn, context, note, overlap, disk>> BY <1>3 DEF memory
  <2>5. thread'[p].at \notin Folds \cup {"running"} BY <2>2, <2>3 DEF Folds
  <2>6. ASSUME ~overlap' PROVE ApartInv'
    BY <1>3, <2>3, <2>4, <2>5, <2>6, RestKeeps DEF FoldInv, ApartInv
  <2> QED BY <2>3, <2>6
<1> QED BY <1>2, <1>3 DEF Submit

LEMMA FoldCommandKeeps ==
  ASSUME FoldInv, FoldCommand
  PROVE  ThreadsOK' /\ (~overlap' => ApartInv')
<1>1. "command" \in Threads /\ up /\ thread["command"].at \in {"idle", "submitted"}
  BY DEF FoldCommand, ReadsCommand, At, Threads
<1> QED BY <1>1, BeginFoldKeeps, BeginFoldMoves DEF FoldInv, FoldCommand

LEMMA TurnsMore ==
  ASSUME NEW n \in Nat, NEW s, Turns(n, s)
  PROVE  Turns(n + 1, s) /\ Absent(n, s)
<1>1. PICK m \in Nat : s \in Seq(Nat) /\ DOMAIN s = 1 .. m BY DEF Turns
<1>2. \A i \in DOMAIN s : s[i] \in Nat /\ s[i] < n BY <1>1 DEF Turns, Before
<1>3. \A i \in DOMAIN s : s[i] < n + 1 /\ s[i] # n BY <1>2
<1> QED BY <1>3 DEF Turns, Before, Absent

(* A turn that starts has a number nothing has seen yet.                     *)
LEMMA StartTurnKeeps ==
  ASSUME FoldInv, NEW p \in Threads, StartTurn(p)
  PROVE  ThreadsOK' /\ (~overlap' => ApartInv')
<1> DEFINE r == [at |-> "running", auto |-> FALSE, removed |-> <<>>, note |-> NoNote,
                 next |-> NoNote, turn |-> nextTurn]
<1>1. [AtRest EXCEPT !.at = "running", !.turn = nextTurn] = r
  <2>0. PICK a : a = FALSE OBVIOUS
  <2>1. PICK x : x = AtRest OBVIOUS
  <2>2. PICK x1 : x1 = [at |-> "running", auto |-> a, removed |-> <<>>, note |-> NoNote,
                        next |-> NoNote, turn |-> 0]
    OBVIOUS
  <2>3. [x EXCEPT !.at = "running"] = x1
    <3>1. x = [at |-> "idle", auto |-> a, removed |-> <<>>, note |-> NoNote, next |-> NoNote,
               turn |-> 0]
      BY <2>0, <2>1 DEF AtRest
    <3> QED BY <2>2, <3>1
  <2>4. [x1 EXCEPT !.turn = nextTurn] = r
    <3>1. r = [at |-> "running", auto |-> a, removed |-> <<>>, note |-> NoNote, next |-> NoNote,
               turn |-> nextTurn]
      BY <2>0
    <3> QED BY <2>2, <3>1
  <2>5. [x EXCEPT !.at = "running", !.turn = nextTurn] = [[x EXCEPT !.at = "running"] EXCEPT !.turn = nextTurn]
    OBVIOUS
  <2> QED BY <2>1, <2>3, <2>4, <2>5
<1>2. IsLocal(r) /\ r.at = "running" /\ r.turn = nextTurn
  BY DEF IsLocal
<1> HIDE DEF r
<1>3. ThreadsOK' /\ thread'[p] = r /\ \A q \in Threads \ {p} : thread'[q] = thread[q]
  BY <1>1, <1>2, ThreadMoves DEF FoldInv, StartTurn
<1>4. nextTurn' = nextTurn + 1 /\ UNCHANGED <<folding, context, note, foldEvent, overlap>>
  BY DEF StartTurn, memory
<1>5. ASSUME ~overlap' PROVE ApartInv'
  <2>1. ApartInv BY <1>4, <1>5 DEF FoldInv
  <2>2. nextTurn \in Nat /\ nextTurn' \in Nat BY <1>4, <2>1 DEF ApartInv
  <2>3. \A s : Turns(nextTurn, s) => Turns(nextTurn', s) /\ Absent(nextTurn, s)
    BY <1>4, <2>2, TurnsMore
  <2>4. Turns(nextTurn', context') /\ Absent(nextTurn, context')
        /\ Turns(nextTurn', foldEvent'.removed) /\ Absent(nextTurn, foldEvent'.removed)
    BY <1>4, <2>1, <2>3 DEF ApartInv, EventOK
  <2>5. disk'.nextTurn \in Nat /\ Turns(disk'.nextTurn, disk'.context)
    <3>1. CASE disk' = disk BY <2>1, <3>1 DEF ApartInv
    <3>2. CASE disk' = [Snapshot EXCEPT !.nextTurn = nextTurn + 1]
      <4>1. disk'.nextTurn = nextTurn + 1 /\ disk'.context = context BY <3>2 DEF Snapshot
      <4> QED BY <1>4, <2>2, <2>4, <4>1
    <3> QED BY <3>1, <3>2 DEF StartTurn
  <2>6. EventOK' BY <1>4, <2>1, <2>4 DEF ApartInv, EventOK
  <2>7. \A q \in Threads : Folding(q)' => q # p /\ Folding(q) /\ thread'[q] = thread[q]
    BY <1>2, <1>3 DEF Folding, Folds
  <2>8. OneFold'
    <3>1. \A q \in Threads : Folding(q)' => Frozen(thread[q])'
      BY <1>4, <2>1, <2>3, <2>7 DEF ApartInv, OneFold, Frozen
    <3>2. \A q \in Threads : Folding(q)' => foldEvent' = NoEvent
      BY <1>4, <2>1, <2>7 DEF ApartInv, OneFold
    <3>3. \A q, o \in Threads : Folding(q)' /\ Folding(o)' => q = o
      BY <2>1, <2>7 DEF ApartInv, OneFold
    <3> QED BY <3>1, <3>2, <3>3 DEF OneFold
  <2>9. NewTurns'
    <3>1. ASSUME NEW q \in Threads, thread'[q].at = "running", q # p
          PROVE  /\ thread'[q].turn \in Nat /\ thread'[q].turn < nextTurn
                 /\ thread'[q].turn = thread[q].turn /\ thread[q].at = "running"
      BY <1>3, <2>1, <3>1 DEF ApartInv, NewTurns
    <3>2. thread'[p].turn = nextTurn BY <1>2, <1>3
    <3>3. \A q \in Threads : Folding(q)' => Absent(nextTurn, thread'[q].removed)
      BY <2>1, <2>3, <2>7 DEF ApartInv, OneFold, Frozen
    <3>4. \A q \in Threads \ {p} : thread'[q].at = "running" =>
              thread'[q].turn < nextTurn' /\ thread'[q].turn # nextTurn
      BY <1>4, <2>2, <3>1
    <3>5. ASSUME NEW q \in Threads \ {p}, thread'[q].at = "running", NEW o \in Threads
          PROVE  /\ Folding(o)' => Absent(thread'[q].turn, thread'[o].removed)
                 /\ thread'[o].at = "running" /\ thread'[o].turn = thread'[q].turn => o = q
      BY <1>3, <2>1, <2>7, <3>1, <3>2, <3>4, <3>5 DEF ApartInv, NewTurns
    <3>6. \A q \in Threads \ {p} : thread'[q].at = "running" =>
              Absent(thread'[q].turn, context') /\ Absent(thread'[q].turn, foldEvent'.removed)
      BY <1>4, <2>1, <3>1 DEF ApartInv, NewTurns
    <3>7. nextTurn < nextTurn' BY <1>4, <2>2
    <3> QED BY <2>2, <2>4, <3>1, <3>2, <3>3, <3>4, <3>5, <3>6, <3>7 DEF NewTurns
  <2> QED BY <2>2, <2>4, <2>5, <2>6, <2>8, <2>9 DEF ApartInv
<1> QED BY <1>3, <1>5

(* A turn that has run is added to a history it is absent from.              *)
LEMMA TurnEndsKeeps ==
  ASSUME FoldInv, NEW p \in Threads, TurnEnds(p)
  PROVE  ThreadsOK' /\ (~overlap' => ApartInv')
<1>1. thread[p].at = "running" /\ UNCHANGED <<folding, note, nextTurn, foldEvent, overlap, disk>>
  BY DEF TurnEnds, At
<1>2. CASE context' = Append(context, thread[p].turn) /\ MoveTo(p, "recording")
  <2>1. /\ ThreadsOK' /\ \A q \in Threads \ {p} : thread'[q] = thread[q]
        /\ thread'[p].at = "recording"
    BY <1>2, MoveToMeans DEF FoldInv
  <2>2. ASSUME ~overlap' PROVE ApartInv'
    <3>1. ApartInv BY <1>1, <2>2 DEF FoldInv
    <3>2. PICK t \in Nat : t = thread[p].turn
      BY <1>1, <3>1 DEF ApartInv, NewTurns
    <3>3. /\ t < nextTurn /\ Absent(t, context) /\ Absent(t, foldEvent.removed)
          /\ \A q \in Threads : Folding(q) => Absent(t, thread[q].removed)
          /\ \A q \in Threads : thread[q].at = "running" /\ thread[q].turn = t => q = p
      BY <1>1, <3>1, <3>2 DEF ApartInv, NewTurns
    <3>4. nextTurn \in Nat /\ Turns(nextTurn, context) BY <3>1 DEF ApartInv
    <3>5. /\ Turns(nextTurn, context')
          /\ \A r \in Seq(Nat) : Begins(r, context) => Begins(r, context')
          /\ \A r \in Seq(Nat) : Apart(r, context) /\ Absent(t, r) => Apart(r, context')
          /\ \A u : u # t /\ Absent(u, context) => Absent(u, context')
      BY <1>2, <3>2, <3>3, <3>4, TurnAdded
    <3>6. foldEvent.removed \in Seq(Nat) BY <3>1 DEF ApartInv, EventOK, Turns
    <3>7. EventOK'
      BY <1>1, <3>1, <3>3, <3>5, <3>6 DEF ApartInv, EventOK
    <3>8. \A q \in Threads : Folding(q)' => q # p /\ Folding(q) /\ thread'[q] = thread[q]
      BY <2>1 DEF Folding, Folds
    <3>9. ASSUME NEW q \in Threads, Folding(q)' PROVE Frozen(thread[q])'
      <4>1. Folding(q) /\ thread'[q] = thread[q] /\ Frozen(thread[q])
        BY <3>1, <3>8, <3>9 DEF ApartInv, OneFold
      <4>2. thread[q].removed \in Seq(Nat) BY <4>1 DEF Frozen, Turns
      <4> QED BY <1>1, <3>3, <3>5, <4>1, <4>2 DEF Frozen
    <3>10. OneFold'
      <4>1. \A q \in Threads : Folding(q)' => foldEvent' = NoEvent
        BY <1>1, <3>1, <3>8 DEF ApartInv, OneFold
      <4>2. \A q, o \in Threads : Folding(q)' /\ Folding(o)' => q = o
        BY <3>1, <3>8 DEF ApartInv, OneFold
      <4> QED BY <3>9, <4>1, <4>2 DEF OneFold
    <3>11. NewTurns'
      <4>1. ASSUME NEW q \in Threads, thread'[q].at = "running"
            PROVE  /\ q # p /\ thread[q].at = "running" /\ thread'[q] = thread[q]
                   /\ thread[q].turn # t
        BY <2>1, <3>3, <4>1
      <4>2. ASSUME NEW q \in Threads, thread'[q].at = "running"
            PROVE  /\ thread'[q].turn \in Nat /\ thread'[q].turn < nextTurn'
                   /\ Absent(thread'[q].turn, context') /\ Absent(thread'[q].turn, foldEvent'.removed)
        BY <1>1, <3>1, <3>5, <4>1, <4>2 DEF ApartInv, NewTurns
      <4>3. ASSUME NEW q \in Threads, thread'[q].at = "running", NEW o \in Threads
            PROVE  /\ Folding(o)' => Absent(thread'[q].turn, thread'[o].removed)
                   /\ thread'[o].at = "running" /\ thread'[o].turn = thread'[q].turn => o = q
        BY <3>1, <3>8, <4>1, <4>3 DEF ApartInv, NewTurns
      <4> QED BY <4>2, <4>3 DEF NewTurns
    <3>12. disk'.nextTurn \in Nat /\ Turns(disk'.nextTurn, disk'.context) /\ nextTurn' \in Nat
           /\ Turns(nextTurn', context')
      BY <1>1, <3>1, <3>5 DEF ApartInv
    <3> QED BY <3>7, <3>10, <3>11, <3>12 DEF ApartInv
  <2> QED BY <2>1, <2>2
<1>3. CASE thread' = [thread EXCEPT ![p] = AtRest] /\ UNCHANGED context
  <2>1. ThreadsOK' /\ thread'[p] = AtRest /\ \A q \in Threads \ {p} : thread'[q] = thread[q]
    BY <1>3, RestMeans, ThreadMoves DEF FoldInv
  <2>2. thread'[p].at \notin Folds \cup {"running"} BY <2>1, RestMeans DEF Folds
  <2>3. ASSUME ~overlap' PROVE ApartInv'
    <3>1. ApartInv BY <1>1, <2>3 DEF FoldInv
    <3>2. disk'.nextTurn \in Nat /\ Turns(disk'.nextTurn, disk'.context)
      BY <1>1, <3>1 DEF ApartInv
    <3> QED BY <1>1, <1>3, <2>1, <2>2, <3>1, <3>2, RestKeeps
  <2> QED BY <2>1, <2>3
<1> QED BY <1>2, <1>3 DEF TurnEnds

LEMMA RecordTurnKeeps ==
  ASSUME FoldInv, NEW p \in Threads, RecordTurn(p)
  PROVE  ThreadsOK' /\ (~overlap' => ApartInv')
<1>1. thread' = [thread EXCEPT ![p] = AtRest]
      /\ UNCHANGED <<folding, context, note, nextTurn, foldEvent, overlap>>
  BY DEF RecordTurn, memory
<1>2. ThreadsOK' /\ thread'[p] = AtRest /\ \A q \in Threads \ {p} : thread'[q] = thread[q]
  BY <1>1, RestMeans, ThreadMoves DEF FoldInv
<1>3. thread'[p].at \notin Folds \cup {"running"} BY <1>2, RestMeans DEF Folds
<1>4. ASSUME ~overlap' PROVE ApartInv'
  <2>1. ApartInv BY <1>1, <1>4 DEF FoldInv
  <2>2. disk'.nextTurn \in Nat /\ Turns(disk'.nextTurn, disk'.context)
    BY <2>1, SnapshotKept DEF RecordTurn
  <2> QED BY <1>1, <1>2, <1>3, <2>1, <2>2, RestKeeps
<1> QED BY <1>2, <1>4

LEMMA ClearKeeps ==
  ASSUME FoldInv, Clear
  PROVE  ThreadsOK' /\ (~overlap' => ApartInv')
<1>1. /\ context' = <<>> /\ foldEvent' = NoEvent /\ MoveTo("command", "recording")
      /\ UNCHANGED <<folding, nextTurn, disk>> /\ up /\ "command" \in Threads
      /\ overlap' = (overlap \/ At("prompt", Folds))
  BY DEF Clear, ReadsCommand, At, Threads
<1>2. /\ ThreadsOK' /\ \A q \in Threads \ {"command"} : thread'[q] = thread[q]
      /\ thread'["command"].at = "recording"
  BY <1>1, MoveToMeans DEF FoldInv
<1>3. ASSUME ~overlap' PROVE ApartInv'
  <2>1. ApartInv BY <1>1, <1>3 DEF FoldInv
  <2>2. \A q \in Threads \ {"command"} : ~Folding(q)
    BY <1>1, <1>3 DEF At, Folding, Threads
  <2>3. foldEvent'.how = "none" /\ foldEvent'.removed = <<>> BY <1>1 DEF NoEvent
  <2>4. EventOK' BY <2>3, NoTurns DEF EventOK
  <2>5. \A t : Absent(t, context') /\ Absent(t, foldEvent'.removed) BY <1>1, <2>3, NoTurns
  <2>6. Turns(nextTurn, context') BY <1>1, NoTurns
  <2>7. disk'.nextTurn \in Nat /\ Turns(disk'.nextTurn, disk'.context) BY <1>1, <2>1 DEF ApartInv
  <2>8. thread'["command"].at \notin Folds \cup {"running"} BY <1>2 DEF Folds
  <2> QED BY <1>1, <1>2, <2>1, <2>2, <2>4, <2>5, <2>6, <2>7, <2>8, FoldMoves
<1> QED BY <1>2, <1>3

LEMMA ResumeKeeps ==
  ASSUME FoldInv, Resume
  PROVE  ThreadsOK' /\ (~overlap' => ApartInv')
<1>1. PICK first_ : thread' = [p \in Threads |->
                                  [AtRest EXCEPT !.at = IF p = "prompt" THEN first_ ELSE @]]
                    /\ first_ \in {"idle", "submitted"}
  BY DEF Resume
<1>2. \A p \in Threads : IsLocal(thread'[p]) /\ thread'[p].at \in {"idle", "submitted"}
  <2>1. ASSUME NEW p \in Threads
        PROVE  thread'[p] = [AtRest EXCEPT !.at = IF p = "prompt" THEN first_ ELSE "idle"]
    BY <1>1 DEF AtRest
  <2>2. ASSUME NEW p \in Threads
        PROVE  IsLocal(thread'[p]) /\ thread'[p].at = IF p = "prompt" THEN first_ ELSE "idle"
    <3>1. PICK s : s = IF p = "prompt" THEN first_ ELSE "idle" OBVIOUS
    <3> QED BY <2>1, <3>1, RestMeans
  <2> QED BY <1>1, <2>2
<1>3. ThreadsOK'
  <2>1. thread' = [p \in Threads |-> thread'[p]] BY <1>1
  <2> QED BY <1>2, <2>1 DEF ThreadsOK
<1>4. ASSUME ~overlap' PROVE ApartInv'
  <2>1. /\ ApartInv /\ foldEvent' = NoEvent /\ disk' = disk
        /\ context' = disk.context /\ nextTurn' = disk.nextTurn
    BY <1>4 DEF FoldInv, Resume
  <2>2. \A p \in Threads : thread'[p].at \notin Folds \cup {"running"}
    BY <1>2 DEF Folds
  <2>3. foldEvent'.how = "none" /\ foldEvent'.removed = <<>> BY <2>1 DEF NoEvent
  <2>4. EventOK' BY <2>3, NoTurns DEF EventOK
  <2>5. OneFold' /\ NewTurns' BY <2>2 DEF OneFold, NewTurns, Folding
  <2> QED BY <2>1, <2>4, <2>5 DEF ApartInv
<1> QED BY <1>3, <1>4

(* What the model replays is rebuilt wherever the history changes, and a     *)
(* snapshot takes all of it.                                                 *)
Replayed == ConversationIsContext /\ disk.conversation = Rebuilt(disk.note, disk.context)

LEMMA ReplayedStays ==
  ASSUME Replayed,
         \/ UNCHANGED <<context, note, conversation>>
         \/ conversation' = Rebuilt(note', context'),
         \/ disk' = disk
         \/ disk' = Snapshot
         \/ disk' = [Snapshot EXCEPT !.nextTurn = nextTurn + 1]
  PROVE  Replayed'
<1>1. ConversationIsContext' BY DEF Replayed, ConversationIsContext, Rebuilt
<1>2. /\ disk' # disk => disk'.conversation = conversation /\ disk'.note = note
                         /\ disk'.context = context
      /\ conversation = Rebuilt(note, context)
  BY DEF Snapshot, Replayed, ConversationIsContext
<1> QED BY <1>1, <1>2 DEF Replayed, Rebuilt

LEMMA ReplayedKept == Replayed /\ [FoldNext]_foldVars => Replayed'
<1> SUFFICES ASSUME Replayed, [FoldNext]_foldVars PROVE Replayed'
  OBVIOUS
<1>1. CASE UNCHANGED foldVars
  BY <1>1, ReplayedStays DEF foldVars, memory
<1>2. ASSUME NEW p \in Threads, NEW auto, BeginFold(p, auto) PROVE Replayed'
  BY <1>2, ReplayedStays DEF BeginFold, memory
<1>3. CASE FoldCommand BY <1>2, <1>3 DEF FoldCommand, Threads
<1>4. CASE Clear
  <2>1. conversation' = Rebuilt(note', context') /\ disk' = disk BY <1>4 DEF Clear
  <2> QED BY <2>1, ReplayedStays
<1>5. CASE Crash BY <1>5, ReplayedStays DEF Crash, memory
<1>6. CASE Resume
  BY <1>6 DEF Resume, Replayed, ConversationIsContext, Rebuilt
<1>7. ASSUME NEW p \in Threads, Submit(p) PROVE Replayed'
  BY <1>2, <1>7, ReplayedStays DEF Submit, memory
<1>8. ASSUME NEW p \in Threads, StartTurn(p) PROVE Replayed'
  BY <1>8, ReplayedStays DEF StartTurn, memory
<1>9. ASSUME NEW p \in Threads, TurnEnds(p) PROVE Replayed'
  <2>1. disk' = disk /\ note' = note BY <1>9 DEF TurnEnds
  <2>2. CASE UNCHANGED <<conversation, context>> BY <2>1, <2>2, ReplayedStays
  <2>3. CASE /\ conversation' = [conversation EXCEPT !.turns = Append(@, thread[p].turn)]
             /\ context' = Append(context, thread[p].turn)
    <3>1. conversation = Rebuilt(note, context) BY DEF Replayed, ConversationIsContext
    <3>2. conversation.turns = context BY <3>1 DEF Rebuilt
    <3>3. conversation' = [conversation EXCEPT !.turns = context'] BY <2>3, <3>2
    <3>4. conversation' = Rebuilt(note', context') BY <2>1, <3>1, <3>3 DEF Rebuilt
    <3> QED BY <2>1, <3>4, ReplayedStays
  <2> QED BY <1>9, <2>2, <2>3 DEF TurnEnds
<1>10. ASSUME NEW p \in Threads, RecordTurn(p) PROVE Replayed'
  BY <1>10, ReplayedStays DEF RecordTurn, memory, Persist
<1>11. ASSUME NEW p \in Threads, FoldStep(p) PROVE Replayed'
  <2>1. CASE Summarize(p) BY <2>1, ReplayedStays DEF Summarize, memory
  <2>2. ASSUME NEW next, Switch(p, next) PROVE conversation' = Rebuilt(note', context')
    BY <2>2 DEF Switch
  <2>3. CASE SaveProjection(p)
    <3>1. UNCHANGED <<context, note, conversation>> \/ conversation' = Rebuilt(note', context')
      BY <2>2, <2>3 DEF SaveProjection
    <3> QED BY <2>3, <3>1, ReplayedStays DEF SaveProjection
  <2>4. CASE Compact(p)
    <3>1. UNCHANGED <<context, note, conversation>> \/ conversation' = Rebuilt(note', context')
      BY <2>2, <2>4 DEF Compact
    <3> QED BY <2>4, <3>1, ReplayedStays DEF Compact
  <2>5. CASE PersistFold(p)
    <3>1. UNCHANGED <<context, note, conversation>> \/ conversation' = Rebuilt(note', context')
      BY <2>5 DEF PersistFold, Restore
    <3> QED BY <2>5, <3>1, ReplayedStays DEF PersistFold, Persist
  <2> QED BY <1>11, <2>1, <2>3, <2>4, <2>5 DEF FoldStep
<1> QED BY <1>1, <1>3, <1>4, <1>5, <1>6, <1>7, <1>8, <1>9, <1>10, <1>11 DEF FoldNext

LEMMA FoldNextKeeps == FoldInv /\ [FoldNext]_foldVars => FoldInv'
<1> SUFFICES ASSUME FoldInv, [FoldNext]_foldVars PROVE FoldInv'
  OBVIOUS
<1>1. Replayed' BY ReplayedKept DEF FoldInv, Replayed
<1>2. ThreadsOK' /\ (~overlap' => ApartInv')
  <2>1. CASE UNCHANGED foldVars \/ Crash
    <3>1. UNCHANGED <<folding, context, note, nextTurn, thread, foldEvent, overlap, disk>>
      BY <2>1 DEF foldVars, memory, Crash
    <3> QED BY <3>1 DEF FoldInv, ThreadsOK, ApartInv, OneFold, NewTurns, EventOK, Folding, Frozen
  <2>2. ASSUME NEW p \in Threads,
               Submit(p) \/ FoldStep(p) \/ StartTurn(p) \/ TurnEnds(p) \/ RecordTurn(p)
        PROVE  ThreadsOK' /\ (~overlap' => ApartInv')
    BY <2>2, SubmitKeeps, FoldStepKeeps, StartTurnKeeps, TurnEndsKeeps, RecordTurnKeeps
  <2> QED BY <2>1, <2>2, FoldCommandKeeps, ClearKeeps, ResumeKeeps DEF FoldNext
<1> QED BY <1>1, <1>2 DEF FoldInv, Replayed

LEMMA FoldInvMeans == FoldInv => ConversationIsContext /\ FoldSwitchesWhole
<1> SUFFICES ASSUME FoldInv, ~overlap PROVE FoldSwitchesWhole
  BY DEF FoldInv, FoldSwitchesWhole
<1>1. EventOK /\ Turns(nextTurn, context) BY DEF FoldInv, ApartInv
<1>2. foldEvent.removed \in Seq(Nat) /\ context \in Seq(Nat) BY <1>1 DEF EventOK, Turns
<1>3. foldEvent.how = "failed" =>
          note = foldEvent.note /\ IsPrefix(foldEvent.removed, context)
  BY <1>1, <1>2, BeginsPrefix DEF EventOK
<1>4. foldEvent.how = "ok" => TurnsOf(foldEvent.removed) \cap TurnsOf(context) = {}
  BY <1>1 DEF EventOK, Apart, TurnsOf
<1> QED BY <1>1, <1>3, <1>4 DEF FoldSwitchesWhole, EventOK

-----------------------------------------------------------------------------
(* The shell.  A switch of the session goes on only while no turn does.      *)
Switching == command.at \in {"confirming", "flushing", "deleting", "killing", "clearing"}

ShellTypes ==
    /\ made \in Sessions /\ shown \in 1 .. made /\ manager \in 1 .. made
    /\ sid \in [Sessions -> 0 .. made]
    /\ turn \in [Sessions -> {"none", "housekeeping", "running", "asking"}]
    /\ tasks \in [Sessions -> {"none", "starting", "given", "late"}]
    /\ stored \subseteq 1 .. made /\ deleted \subseteq 1 .. made
    /\ sid[shown] # 0
    /\ command = [at |-> command.at, kind |-> command.kind, old |-> command.old, next |-> command.next]
    /\ command.at \in {"idle", "submitted", "turn", "confirming", "flushing", "deleting", "killing",
                       "clearing"}
    /\ command.at = "killing" => command.old \in 1 .. made /\ command.next \in 1 .. made
                                 /\ sid[command.next] # 0
    /\ command.at \in {"confirming", "flushing", "deleting"} => made < MaxSessions

OneTurn ==
    /\ \A s \in Sessions : turn[s] # "none" => s = shown /\ ~Switching
    /\ \A s \in Sessions : turn[s] = "asking" => asker = s

OneQuestion ==
    /\ waiting = IF asker = NoOne THEN {} ELSE {asker}
    /\ asker \in Sessions \cup {TheCommand, NoOne}
    /\ asker \in Sessions => turn[asker] = "asking"
    /\ asker = TheCommand <=> command.at = "confirming"

OneSession ==
    IF command.at = "killing"
    THEN /\ \A s \in Sessions : tasks[s] = "given" => s = command.old
         /\ manager = command.next
         /\ sid[command.next] \notin deleted
    ELSE /\ \A s \in Sessions : tasks[s] = "given" => s = shown
         /\ manager = shown /\ snapshot \in {0, shown}

ShellBody ==
    /\ ShellTypes /\ OneTurn /\ OneQuestion /\ OneSession
    /\ sid[shown] \notin deleted
    /\ deleted \cap stored = {}

ShellInv == ~gap => ShellBody

LEMMA ShellInitHolds == ShellInit => ShellInv
<1> SUFFICES ASSUME ShellInit PROVE ShellBody
  BY DEF ShellInv
<1>1. 1 \in Sessions BY SessionsAssumption DEF Sessions
<1>2. /\ sid[1] = 1 /\ \A s \in Sessions : turn[s] # "none" => s = 1
      /\ \A s \in Sessions : turn[s] # "asking" /\ tasks[s] = "none"
  BY <1>1 DEF ShellInit
<1>3. command.at = "idle" /\ NoCommand = [at |-> command.at, kind |-> command.kind,
                                          old |-> command.old, next |-> command.next]
  BY DEF ShellInit, NoCommand
<1>4. ShellTypes
  <2>1. sid \in [Sessions -> 0 .. made] /\ turn \in [Sessions -> {"none", "housekeeping", "running", "asking"}]
        /\ tasks \in [Sessions -> {"none", "starting", "given", "late"}]
    BY DEF ShellInit
  <2> QED BY <1>1, <1>2, <1>3, <2>1 DEF ShellInit, ShellTypes
<1>5. OneTurn
  BY <1>2, <1>3 DEF ShellInit, OneTurn, Switching
<1>6. OneQuestion
  BY <1>3 DEF ShellInit, OneQuestion, NoOne, TheCommand, Sessions
<1>7. OneSession
  BY <1>2, <1>3 DEF ShellInit, OneSession
<1> QED BY <1>2, <1>4, <1>5, <1>6, <1>7 DEF ShellInit, ShellBody

(* The turn that is under way is one of the session that is shown.           *)
LEMMA TurnOfShown ==
  ASSUME ShellBody, NEW s \in Sessions, turn[s] # "none"
  PROVE  s = shown /\ ~Switching /\ \A r \in Sessions : turn[r] # "none" => r = s
BY DEF ShellBody, OneTurn

(* A save of the session that is shown stores no session that was deleted.   *)
LEMMA SaveKeeps ==
  ASSUME ShellBody, Save(shown), UNCHANGED <<deleted, made>>
  PROVE  stored' \subseteq 1 .. made' /\ deleted' \cap stored' = {}
<1>1. shown \in Sessions
  BY SessionsAssumption DEF ShellBody, ShellTypes, Sessions
<1>2. sid[shown] \in 0 .. made /\ sid[shown] # 0 /\ made \in Nat
  BY <1>1 DEF ShellBody, ShellTypes, Sessions
<1>3. sid[shown] \in 1 .. made
  BY <1>2
<1> QED BY <1>3 DEF Save, ShellBody, ShellTypes

LEMMA TurnRunsKeeps ==
  ASSUME ShellBody, NEW s \in Sessions, TurnRuns(s)
  PROVE  ShellBody'
<1>1. /\ s = shown /\ ~Switching /\ \A r \in Sessions : turn[r] # "none" => r = s
      /\ turn[s] = "housekeeping"
  BY TurnOfShown DEF TurnRuns
<1>2. UNCHANGED <<made, sid, shown, manager, tasks, deleted, command, waiting, asker, snapshot>>
  BY DEF TurnRuns
<1>3. stored' \subseteq 1 .. made' /\ deleted' \cap stored' = {}
  BY <1>1, SaveKeeps DEF TurnRuns
<1>4. /\ turn' \in [Sessions -> {"none", "housekeeping", "running", "asking"}]
      /\ turn'[s] = "running" /\ \A r \in Sessions \ {s} : turn'[r] = turn[r]
  BY DEF TurnRuns, ShellBody, ShellTypes
<1>5. ShellTypes' BY <1>2, <1>3, <1>4 DEF ShellBody, ShellTypes
<1>6. OneTurn' BY <1>1, <1>2, <1>4 DEF ShellBody, OneTurn, Switching
<1>7. OneQuestion' BY <1>1, <1>2, <1>4 DEF ShellBody, OneQuestion
<1>8. OneSession' BY <1>2 DEF ShellBody, OneSession
<1> QED BY <1>2, <1>3, <1>5, <1>6, <1>7, <1>8 DEF ShellBody

LEMMA NoCommandIs ==
  /\ NoCommand.at = "idle"
  /\ NoCommand = [at |-> NoCommand.at, kind |-> NoCommand.kind, old |-> NoCommand.old,
                  next |-> NoCommand.next]
BY DEF NoCommand

LEMMA TurnReturnsKeeps ==
  ASSUME ShellBody, NEW s \in Sessions, TurnReturns(s)
  PROVE  ShellBody'
<1>1. /\ s = shown /\ ~Switching /\ \A r \in Sessions : turn[r] # "none" => r = s
      /\ turn[s] = "running"
  BY TurnOfShown DEF TurnReturns
<1>2. UNCHANGED <<made, sid, shown, manager, tasks, deleted, waiting, asker>>
  BY DEF TurnReturns
<1>3. stored' \subseteq 1 .. made' /\ deleted' \cap stored' = {}
      /\ snapshot' \in {snapshot, 0, shown}
  <2>1. CASE Save(s) /\ snapshot' \in {s, 0} BY <1>1, <1>2, <2>1, SaveKeeps
  <2>2. CASE UNCHANGED <<stored, snapshot>> BY <1>2, <2>2 DEF ShellBody, ShellTypes
  <2> QED BY <2>1, <2>2 DEF TurnReturns
<1>4. /\ turn' \in [Sessions -> {"none", "housekeeping", "running", "asking"}]
      /\ \A r \in Sessions : turn'[r] = "none"
  BY <1>1 DEF TurnReturns, ShellBody, ShellTypes
<1>5. command' \in {command, NoCommand}
  BY DEF TurnReturns
<1>6. ~Switching' /\ command'.at # "killing" /\ command.at # "killing"
      /\ command.at # "confirming" /\ command'.at # "confirming"
  BY <1>1, <1>5, NoCommandIs DEF Switching
<1>7. ShellTypes'
  <2>1. CASE command' = command BY <1>2, <1>3, <1>4, <2>1 DEF ShellBody, ShellTypes
  <2>2. CASE command' = NoCommand
    BY <1>2, <1>3, <1>4, <2>2, NoCommandIs DEF ShellBody, ShellTypes
  <2> QED BY <1>5, <2>1, <2>2
<1>8. OneTurn' BY <1>4 DEF OneTurn
<1>9. OneQuestion' BY <1>1, <1>2, <1>6 DEF ShellBody, OneQuestion, OneTurn
<1>10. OneSession' BY <1>2, <1>3, <1>6 DEF ShellBody, OneSession
<1> QED BY <1>2, <1>3, <1>7, <1>8, <1>9, <1>10 DEF ShellBody

LEMMA TasksKeep ==
  ASSUME ShellBody, NEW s \in Sessions, StartTask(s) \/ TaskStarts(s)
  PROVE  ShellBody'
<1>1. /\ UNCHANGED <<made, sid, shown, manager, turn, stored, deleted, command, waiting, asker, snapshot>>
      /\ tasks' \in [Sessions -> {"none", "starting", "given", "late"}]
      /\ \A r \in Sessions : tasks'[r] = "given" => tasks[r] = "given" \/ (r = s /\ turn[s] = "running")
  BY DEF StartTask, TaskStarts, ShellBody, ShellTypes
<1>2. turn[s] = "running" => s = shown /\ ~Switching BY TurnOfShown
<1>3. ShellTypes' BY <1>1 DEF ShellBody, ShellTypes
<1>4. OneTurn' BY <1>1 DEF ShellBody, OneTurn, Switching
<1>5. OneQuestion' BY <1>1 DEF ShellBody, OneQuestion
<1>6. OneSession' BY <1>1, <1>2 DEF ShellBody, OneSession, Switching
<1> QED BY <1>1, <1>3, <1>4, <1>5, <1>6 DEF ShellBody

LEMMA AskKeeps ==
  ASSUME ShellBody, NEW s \in Sessions, Ask(s)
  PROVE  ShellBody'
<1>1. /\ s = shown /\ ~Switching /\ \A r \in Sessions : turn[r] # "none" => r = s
      /\ turn[s] = "running"
  BY TurnOfShown DEF Ask
<1>2. UNCHANGED <<made, sid, shown, manager, tasks, stored, deleted, command, snapshot>>
  BY DEF Ask
<1>3. /\ turn' \in [Sessions -> {"none", "housekeeping", "running", "asking"}]
      /\ turn'[s] = "asking" /\ \A r \in Sessions \ {s} : turn'[r] = turn[r]
  BY DEF Ask, ShellBody, ShellTypes
<1>4. s # NoOne /\ s # TheCommand BY SessionsAssumption DEF Sessions, NoOne, TheCommand
<1>5. asker = NoOne
  <2>1. asker # TheCommand BY <1>1 DEF ShellBody, OneQuestion, Switching
  <2>2. ASSUME asker \in Sessions PROVE FALSE
    <3>1. turn[asker] = "asking" BY <2>2 DEF ShellBody, OneQuestion
    <3> QED BY <1>1, <2>2, <3>1
  <2> QED BY <2>1, <2>2 DEF ShellBody, OneQuestion
<1>6. waiting' = {s} /\ asker' = s BY <1>5 DEF Ask, ShellBody, OneQuestion
<1>7. ShellTypes' BY <1>2, <1>3 DEF ShellBody, ShellTypes
<1>8. OneTurn' BY <1>1, <1>2, <1>3, <1>6 DEF ShellBody, OneTurn, Switching
<1>9. OneQuestion' BY <1>1, <1>2, <1>3, <1>4, <1>6 DEF OneQuestion, Switching
<1>10. OneSession' BY <1>2 DEF ShellBody, OneSession
<1> QED BY <1>2, <1>7, <1>8, <1>9, <1>10 DEF ShellBody

LEMMA CommandAt ==
  ASSUME command = [at |-> command.at, kind |-> command.kind, old |-> command.old,
                    next |-> command.next],
         NEW s
  PROVE  [command EXCEPT !.at = s] = [at |-> s, kind |-> command.kind, old |-> command.old,
                                      next |-> command.next]
<1>1. PICK q : q = command OBVIOUS
<1>2. q = [at |-> q.at, kind |-> q.kind, old |-> q.old, next |-> q.next] BY <1>1
<1>3. [q EXCEPT !.at = s] = [at |-> s, kind |-> q.kind, old |-> q.old, next |-> q.next] BY <1>2
<1> QED BY <1>1, <1>3

LEMMA AnswerKeeps ==
  ASSUME ShellBody, NEW allowed, AnswerPrompt(allowed)
  PROVE  ShellBody'
<1>1. /\ asker # NoOne /\ asker' = NoOne /\ waiting = {asker} /\ waiting' = {}
      /\ UNCHANGED <<made, sid, shown, manager, tasks, stored, deleted, snapshot>>
  BY DEF AnswerPrompt, ShellBody, OneQuestion
<1>2. NoOne \notin Sessions /\ NoOne # TheCommand /\ TheCommand \notin Sessions
  BY SessionsAssumption DEF Sessions, NoOne, TheCommand
<1>3. CASE asker = TheCommand
  <2>1. command.at = "confirming" /\ Switching
    BY <1>3 DEF ShellBody, OneQuestion, Switching
  <2>2. command' = (IF allowed THEN [command EXCEPT !.at = "deleting"] ELSE NoCommand)
        /\ turn' = turn
    BY <1>3 DEF AnswerPrompt
  <2>3. command' = [at |-> command'.at, kind |-> command'.kind, old |-> command'.old,
                    next |-> command'.next]
        /\ command'.at \in {"deleting", "idle"}
    <3>1. CASE allowed
      <4>1. command' = [at |-> "deleting", kind |-> command.kind, old |-> command.old,
                        next |-> command.next]
        BY <2>2, <3>1, CommandAt DEF ShellBody, ShellTypes
      <4> QED BY <4>1
    <3>2. CASE ~allowed
      BY <2>2, <3>2, NoCommandIs
    <3> QED BY <3>1, <3>2
  <2>4. \A s \in Sessions : turn[s] = "none" BY <2>1 DEF ShellBody, OneTurn
  <2>5. ShellTypes' BY <1>1, <2>1, <2>2, <2>3 DEF ShellBody, ShellTypes
  <2>6. OneTurn' BY <2>2, <2>4 DEF OneTurn
  <2>7. OneQuestion' BY <1>1, <1>2, <2>3 DEF OneQuestion
  <2>8. OneSession' BY <1>1, <2>1, <2>3 DEF ShellBody, OneSession
  <2> QED BY <1>1, <2>5, <2>6, <2>7, <2>8 DEF ShellBody
<1>4. CASE asker # TheCommand
  <2>1. asker \in Sessions /\ turn[asker] = "asking" /\ command.at # "confirming"
    BY <1>1, <1>4 DEF ShellBody, OneQuestion
  <2>2. /\ asker = shown /\ ~Switching /\ \A r \in Sessions : turn[r] # "none" => r = asker
    BY <2>1, TurnOfShown
  <2>3. command' = command /\ turn' = [turn EXCEPT ![asker] = "running"]
    BY <1>4 DEF AnswerPrompt
  <2>4. /\ turn' \in [Sessions -> {"none", "housekeeping", "running", "asking"}]
        /\ turn'[asker] = "running" /\ \A r \in Sessions \ {asker} : turn'[r] = turn[r]
    BY <2>1, <2>3 DEF ShellBody, ShellTypes
  <2>5. ShellTypes' BY <1>1, <2>3, <2>4 DEF ShellBody, ShellTypes
  <2>6. OneTurn' BY <1>1, <2>2, <2>3, <2>4 DEF ShellBody, OneTurn, Switching
  <2>7. OneQuestion' BY <1>1, <1>2, <2>1, <2>3 DEF OneQuestion
  <2>8. OneSession' BY <1>1, <2>3 DEF ShellBody, OneSession
  <2> QED BY <1>1, <2>5, <2>6, <2>7, <2>8 DEF ShellBody
<1> QED BY <1>3, <1>4

(* A turn begins when no other is under way and no switch is.                *)
LEMMA InputKeeps ==
  ASSUME ShellBody, SubmitInput \/ BeginTurn
  PROVE  ShellBody'
<1>1. UNCHANGED <<made, sid, shown, manager, tasks, stored, deleted, waiting, asker, snapshot>>
      /\ ~Switching
  BY DEF SubmitInput, BeginTurn, Reading, Switching
<1>2. /\ command' = [at |-> command'.at, kind |-> command'.kind, old |-> command'.old,
                     next |-> command'.next]
      /\ command'.at \in {"submitted", "turn"}
  <2>1. CASE SubmitInput
    <3>1. command' = [at |-> "submitted", kind |-> "none", old |-> 0, next |-> 0]
      BY <2>1 DEF SubmitInput, NoCommand
    <3> QED BY <3>1
  <2>2. CASE BeginTurn
    <3>1. command' = [at |-> "turn", kind |-> command.kind, old |-> command.old, next |-> command.next]
      BY <2>2, CommandAt DEF ShellBody, ShellTypes, BeginTurn
    <3> QED BY <3>1
  <2> QED BY <2>1, <2>2
<1>3. turn' \in [Sessions -> {"none", "housekeeping", "running", "asking"}]
      /\ \A s \in Sessions : /\ turn'[s] # "none" => turn[s] # "none" \/ s = shown
                             /\ turn'[s] = "asking" <=> turn[s] = "asking"
  <2>1. CASE turn' = turn BY <2>1 DEF ShellBody, ShellTypes
  <2>2. CASE turn[shown] = "none" /\ turn' = [turn EXCEPT ![shown] = "housekeeping"]
    BY <2>2 DEF ShellBody, ShellTypes
  <2> QED BY <2>1, <2>2 DEF SubmitInput, BeginTurn
<1>4. ShellTypes' BY <1>1, <1>2, <1>3 DEF ShellBody, ShellTypes
<1>5. OneTurn' BY <1>1, <1>2, <1>3 DEF ShellBody, OneTurn, Switching
<1>6. OneQuestion' BY <1>1, <1>2, <1>3 DEF ShellBody, OneQuestion, Switching
<1>7. OneSession' BY <1>1, <1>2 DEF ShellBody, OneSession, Switching
<1> QED BY <1>1, <1>4, <1>5, <1>6, <1>7 DEF ShellBody

(* A switch begins when no turn is under way, if the command was not let in  *)
(* at the housekeeping of one.                                               *)
LEMMA BeginSwitchKeeps ==
  ASSUME ShellBody, NEW kind_, BeginSwitch(kind_), ~gap'
  PROVE  ShellBody'
<1>1. /\ UNCHANGED <<made, sid, shown, manager, turn, tasks, stored, deleted, snapshot>>
      /\ command.at = "idle" /\ asker = NoOne /\ made < MaxSessions
  BY DEF BeginSwitch, Reading
<1>2. shown \in Sessions BY SessionsAssumption DEF ShellBody, ShellTypes, Sessions
<1>3. \A s \in Sessions : turn[s] = "none"
  <2>1. turn[shown] \notin {"housekeeping", "running", "asking"}
    BY DEF BeginSwitch, IsRunning
  <2>2. turn[shown] = "none" BY <1>2, <2>1 DEF ShellBody, ShellTypes
  <2> QED BY <2>2 DEF ShellBody, OneTurn
<1>4. NoOne \notin Sessions /\ NoOne # TheCommand /\ TheCommand \notin Sessions
  BY SessionsAssumption DEF Sessions, NoOne, TheCommand
<1>5. CASE kind_ = "delete"
  <2>1. command' = [NoCommand EXCEPT !.at = "confirming", !.kind = kind_]
        /\ waiting' = waiting \cup {TheCommand} /\ asker' = TheCommand
    BY <1>5 DEF BeginSwitch
  <2>2. waiting' = {TheCommand} BY <1>1, <2>1 DEF ShellBody, OneQuestion
  <2>3. command' = [at |-> "confirming", kind |-> kind_, old |-> 0, next |-> 0]
    BY <2>1 DEF NoCommand
  <2>4. command' = [at |-> command'.at, kind |-> command'.kind, old |-> command'.old,
                    next |-> command'.next] /\ command'.at = "confirming"
    BY <2>3
  <2>5. ShellTypes' BY <1>1, <2>4 DEF ShellBody, ShellTypes
  <2>6. OneTurn' BY <1>1, <1>3 DEF OneTurn
  <2>7. OneQuestion' BY <1>4, <2>1, <2>2, <2>4 DEF OneQuestion
  <2>8. OneSession' BY <1>1, <2>4 DEF ShellBody, OneSession
  <2> QED BY <1>1, <2>5, <2>6, <2>7, <2>8 DEF ShellBody
<1>6. CASE kind_ # "delete"
  <2>1. command' = [NoCommand EXCEPT !.at = "flushing", !.kind = kind_]
        /\ UNCHANGED <<waiting, asker>>
    BY <1>6 DEF BeginSwitch
  <2>3. command' = [at |-> "flushing", kind |-> kind_, old |-> 0, next |-> 0]
    BY <2>1 DEF NoCommand
  <2>4. command' = [at |-> command'.at, kind |-> command'.kind, old |-> command'.old,
                    next |-> command'.next] /\ command'.at = "flushing"
    BY <2>3
  <2>5. ShellTypes' BY <1>1, <2>4 DEF ShellBody, ShellTypes
  <2>6. OneTurn' BY <1>1, <1>3 DEF OneTurn
  <2>7. OneQuestion' BY <1>1, <1>4, <2>1, <2>4 DEF ShellBody, OneQuestion
  <2>8. OneSession' BY <1>1, <2>4 DEF ShellBody, OneSession
  <2> QED BY <1>1, <2>5, <2>6, <2>7, <2>8 DEF ShellBody
<1> QED BY <1>5, <1>6

(* The session that a switch creates: its id is one that was not deleted.    *)
LEMMA CreatedKeeps ==
  ASSUME ShellBody, NEW id, CreateSession(id), made < MaxSessions,
         command.at \in {"flushing", "deleting"},
         id \in 1 .. made + 1, id \notin deleted', deleted' \subseteq 1 .. made,
         shown' \in {shown, made + 1}, sid'[shown'] \notin deleted',
         stored' \subseteq 1 .. made, deleted' \cap stored' = {},
         UNCHANGED <<turn, tasks, waiting, asker>>
  PROVE  ShellBody'
<1>1. /\ made' = made + 1 /\ sid' = [sid EXCEPT ![made + 1] = id] /\ manager' = made + 1
      /\ command' = [command EXCEPT !.at = "killing", !.old = manager, !.next = made + 1]
  BY DEF CreateSession
<1>2. command' = [at |-> "killing", kind |-> command.kind, old |-> manager, next |-> made + 1]
  <2>1. PICK q : q = command OBVIOUS
  <2>2. PICK q1 : q1 = [at |-> "killing", kind |-> q.kind, old |-> q.old, next |-> q.next]
    OBVIOUS
  <2>3. PICK q2 : q2 = [at |-> "killing", kind |-> q.kind, old |-> manager, next |-> q.next]
    OBVIOUS
  <2>4. q = [at |-> q.at, kind |-> q.kind, old |-> q.old, next |-> q.next]
    BY <2>1 DEF ShellBody, ShellTypes
  <2>5. [q EXCEPT !.at = "killing"] = q1 BY <2>2, <2>4
  <2>6. [q1 EXCEPT !.old = manager] = q2 BY <2>2, <2>3
  <2>7. [q2 EXCEPT !.next = made + 1] = [at |-> "killing", kind |-> q.kind, old |-> manager,
                                         next |-> made + 1]
    BY <2>3
  <2>8. [q EXCEPT !.at = "killing", !.old = manager, !.next = made + 1]
            = [[[q EXCEPT !.at = "killing"] EXCEPT !.old = manager] EXCEPT !.next = made + 1]
    OBVIOUS
  <2> QED BY <1>1, <2>1, <2>5, <2>6, <2>7, <2>8
<1>3. /\ command'.at = "killing" /\ command'.old = manager /\ command'.next = made + 1
      /\ command' = [at |-> command'.at, kind |-> command'.kind, old |-> command'.old,
                     next |-> command'.next]
  BY <1>2
<1>4. /\ made \in Nat /\ made \in Sessions /\ made + 1 \in Sessions /\ made' \in Sessions
      /\ shown \in 1 .. made /\ manager \in 1 .. made
  BY <1>1, SessionsAssumption DEF ShellBody, ShellTypes, Sessions
<1>5. \A i : i \in 0 .. made => i \in 0 .. made + 1
  BY <1>4
<1>6. \A i \in 1 .. made : i \in 1 .. made + 1 /\ i \in Sessions /\ i # made + 1
  BY <1>4, SessionsAssumption DEF Sessions
<1>7. made + 1 \in 1 .. made + 1 BY <1>4
<1>8. /\ sid' \in [Sessions -> 0 .. made']
      /\ sid'[made + 1] = id /\ \A s \in Sessions \ {made + 1} : sid'[s] = sid[s]
  <2>1. sid \in [Sessions -> 0 .. made] BY DEF ShellBody, ShellTypes
  <2>2. id \in 0 .. made + 1 BY <1>4
  <2>3. sid \in [Sessions -> 0 .. made + 1] BY <1>5, <2>1
  <2> QED BY <1>1, <1>4, <2>2, <2>3
<1>9. id # 0 BY <1>4
<1>10. sid'[shown'] # 0
  <2>1. CASE shown' = shown BY <1>4, <1>6, <1>8, <2>1 DEF ShellBody, ShellTypes
  <2>2. CASE shown' = made + 1 BY <1>8, <1>9, <2>2
  <2> QED BY <2>1, <2>2
<1>11. /\ shown' \in 1 .. made' /\ manager' \in 1 .. made' /\ command'.old \in 1 .. made'
       /\ command'.next \in 1 .. made' /\ stored' \subseteq 1 .. made' /\ deleted' \subseteq 1 .. made'
  BY <1>1, <1>3, <1>4, <1>6, <1>7
<1>12. ShellTypes'
  BY <1>3, <1>4, <1>8, <1>9, <1>10, <1>11 DEF ShellBody, ShellTypes
<1>13. OneTurn' BY DEF ShellBody, OneTurn, Switching
<1>14. OneQuestion' BY <1>3 DEF ShellBody, OneQuestion
<1>15. OneSession'
  <2>1. \A s \in Sessions : tasks[s] = "given" => s = manager
    BY DEF ShellBody, OneSession
  <2> QED BY <1>1, <1>3, <1>8, <2>1 DEF OneSession
<1> QED BY <1>12, <1>13, <1>14, <1>15 DEF ShellBody

LEMMA FlushedKeeps ==
  ASSUME ShellBody, Flushed
  PROVE  ShellBody'
<1>1. UNCHANGED <<shown, turn, tasks, stored, deleted, waiting, asker, snapshot>>
      /\ command.at = "flushing" /\ Switching
  BY DEF Flushed, Switching
<1>2. ASSUME NEW id \in IF command.kind = "new" THEN {made + 1} ELSE stored, CreateSession(id)
      PROVE  ShellBody'
  <2>1. made \in Nat /\ made + 1 \in 1 .. made + 1 /\ made + 1 \notin 1 .. made
        /\ shown \in 1 .. made /\ made < MaxSessions
        /\ \A i \in 1 .. made : i \in 1 .. made + 1
    BY <1>1, SessionsAssumption DEF ShellBody, ShellTypes, Sessions
  <2>2. /\ stored \subseteq 1 .. made /\ deleted \subseteq 1 .. made
        /\ deleted \cap stored = {} /\ sid[shown] \notin deleted
    BY DEF ShellBody, ShellTypes
  <2>3. id \in 1 .. made + 1 /\ id \notin deleted
    BY <1>2, <2>1, <2>2
  <2>4. sid'[shown] = sid[shown]
    <3>1. sid \in [Sessions -> 0 .. made] /\ shown \in Sessions /\ shown # made + 1
      BY <2>1, SessionsAssumption DEF ShellBody, ShellTypes, Sessions
    <3> QED BY <1>2, <3>1 DEF CreateSession
  <2> QED BY <1>1, <1>2, <2>1, <2>2, <2>3, <2>4, CreatedKeeps
<1>3. CASE command' = NoCommand /\ UNCHANGED <<made, sid, manager>>
  <2>1. ShellTypes' BY <1>1, <1>3, NoCommandIs DEF ShellBody, ShellTypes
  <2>2. OneTurn' BY <1>1 DEF ShellBody, OneTurn
  <2>3. OneQuestion' BY <1>1, <1>3, NoCommandIs DEF ShellBody, OneQuestion
  <2>4. OneSession' BY <1>1, <1>3, NoCommandIs DEF ShellBody, OneSession
  <2> QED BY <1>1, <1>3, <2>1, <2>2, <2>3, <2>4 DEF ShellBody
<1> QED BY <1>2, <1>3 DEF Flushed

LEMMA EraseKeeps ==
  ASSUME ShellBody, Erase
  PROVE  ShellBody'
<1>1. /\ UNCHANGED <<turn, tasks, waiting, asker>> /\ command.at = "deleting"
      /\ CreateSession(made + 1) /\ shown' = made + 1
      /\ stored' = stored \ {sid[shown]} /\ deleted' = deleted \cup {sid[shown]}
  BY DEF Erase
<1>2. made \in Nat /\ made + 1 \in 1 .. made + 1 /\ made + 1 \notin 1 .. made
      /\ shown \in 1 .. made /\ made < MaxSessions /\ made + 1 \in Sessions
  BY <1>1, SessionsAssumption DEF ShellBody, ShellTypes, Sessions
<1>3. sid[shown] \in 1 .. made
  <2>1. shown \in Sessions BY <1>2, SessionsAssumption DEF Sessions
  <2>2. sid[shown] \in 0 .. made /\ sid[shown] # 0 BY <2>1 DEF ShellBody, ShellTypes
  <2> QED BY <1>2, <2>2
<1>4. /\ stored' \subseteq 1 .. made /\ deleted' \subseteq 1 .. made /\ deleted' \cap stored' = {}
      /\ made + 1 \notin deleted'
  BY <1>1, <1>2, <1>3 DEF ShellBody, ShellTypes
<1>5. sid'[shown'] = made + 1
  BY <1>1, <1>2 DEF CreateSession, ShellBody, ShellTypes
<1> QED BY <1>1, <1>2, <1>4, <1>5, CreatedKeeps

(* The tasks of the session that is left are killed, and it is left.         *)
LEMMA KillTasksKeeps ==
  ASSUME ShellBody, KillTasks
  PROVE  ShellBody'
<1>1. /\ UNCHANGED <<made, sid, manager, turn, stored, deleted, waiting, asker>>
      /\ command.at = "killing" /\ Switching /\ shown' = command.next /\ snapshot' = 0
      /\ tasks' = [tasks EXCEPT ![command.old] = Killed(command.old)]
  BY DEF KillTasks, Switching
<1>2. command.old \in 1 .. made /\ command.next \in 1 .. made /\ sid[command.next] # 0
  BY <1>1 DEF ShellBody, ShellTypes
<1>3. command.old \in Sessions BY <1>2, SessionsAssumption DEF ShellBody, ShellTypes, Sessions
<1>4. Killed(command.old) \in {"starting", "none"} BY DEF Killed
<1>5. tasks' \in [Sessions -> {"none", "starting", "given", "late"}]
      /\ \A s \in Sessions : tasks'[s] # "given"
  BY <1>1, <1>3, <1>4 DEF ShellBody, ShellTypes, OneSession
<1>6. /\ command'.at \in {"idle", "clearing"}
      /\ command' = [at |-> command'.at, kind |-> command'.kind, old |-> command'.old,
                     next |-> command'.next]
  <2>1. CASE command' = NoCommand BY <2>1, NoCommandIs
  <2>2. CASE command' = [command EXCEPT !.at = "clearing"]
    <3>1. command' = [at |-> "clearing", kind |-> command.kind, old |-> command.old,
                      next |-> command.next]
      BY <2>2, CommandAt DEF ShellBody, ShellTypes
    <3> QED BY <3>1
  <2> QED BY <2>1, <2>2 DEF KillTasks
<1>7. ShellTypes' BY <1>1, <1>2, <1>5, <1>6 DEF ShellBody, ShellTypes
<1>8. OneTurn' BY <1>1 DEF ShellBody, OneTurn
<1>9. OneQuestion' BY <1>1, <1>6 DEF ShellBody, OneQuestion
<1>10. OneSession' BY <1>1, <1>5, <1>6 DEF ShellBody, OneSession
<1>11. sid'[shown'] \notin deleted' BY <1>1 DEF ShellBody, OneSession
<1> QED BY <1>1, <1>7, <1>8, <1>9, <1>10, <1>11 DEF ShellBody

LEMMA ClearNewKeeps ==
  ASSUME ShellBody, ClearNew
  PROVE  ShellBody'
<1>1. /\ UNCHANGED <<made, sid, shown, manager, turn, tasks, deleted, waiting, asker, snapshot>>
      /\ command.at = "clearing" /\ Switching /\ command' = NoCommand
  BY DEF ClearNew, Switching
<1>2. stored' \subseteq 1 .. made' /\ deleted' \cap stored' = {}
  BY <1>1, SaveKeeps DEF ClearNew
<1>3. ShellTypes' BY <1>1, <1>2, NoCommandIs DEF ShellBody, ShellTypes
<1>4. OneTurn' BY <1>1 DEF ShellBody, OneTurn
<1>5. OneQuestion' BY <1>1, NoCommandIs DEF ShellBody, OneQuestion
<1>6. OneSession' BY <1>1, NoCommandIs DEF ShellBody, OneSession
<1> QED BY <1>1, <1>2, <1>3, <1>4, <1>5, <1>6 DEF ShellBody

LEMMA ShellStepKeeps == ShellInv /\ [ShellNext]_shellVars => ShellInv'
<1> SUFFICES ASSUME ShellInv, [ShellNext]_shellVars, ~gap' PROVE ShellBody'
  BY DEF ShellInv
<1>1. ASSUME gap' = gap PROVE ShellBody
  BY <1>1 DEF ShellInv
<1>2. CASE UNCHANGED shellVars \/ Exit \/ MainEnds
  <2>1. UNCHANGED <<made, sid, shown, manager, turn, tasks, stored, deleted, command, waiting, asker,
                    snapshot, gap>>
    BY <1>2 DEF shellVars, Exit, MainEnds
  <2>2. ShellBody BY <1>1, <2>1
  <2>3. ShellTypes' BY <2>1, <2>2 DEF ShellBody, ShellTypes
  <2> QED BY <2>1, <2>2, <2>3 DEF ShellBody, OneTurn, OneQuestion, OneSession, Switching
<1>3. ASSUME NEW s \in Sessions,
             TurnRuns(s) \/ TurnReturns(s) \/ StartTask(s) \/ TaskStarts(s) \/ Ask(s)
      PROVE  ShellBody'
  <2>1. ShellBody BY <1>1, <1>3 DEF TurnRuns, TurnReturns, StartTask, TaskStarts, Ask
  <2> QED BY <1>3, <2>1, TurnRunsKeeps, TurnReturnsKeeps, TasksKeep, AskKeeps
<1>4. ASSUME NEW allowed \in BOOLEAN, AnswerPrompt(allowed) PROVE ShellBody'
  <2>1. ShellBody BY <1>1, <1>4 DEF AnswerPrompt
  <2> QED BY <1>4, <2>1, AnswerKeeps
<1>5. CASE SubmitInput \/ BeginTurn \/ Flushed \/ Erase \/ KillTasks \/ ClearNew
  <2>1. ShellBody BY <1>1, <1>5 DEF SubmitInput, BeginTurn, Flushed, Erase, KillTasks, ClearNew
  <2> QED BY <1>5, <2>1, InputKeeps, FlushedKeeps, EraseKeeps, KillTasksKeeps, ClearNewKeeps
<1>6. ASSUME NEW kind_ \in {"new", "resume", "delete"}, BeginSwitch(kind_) PROVE ShellBody'
  <2>1. ~gap BY <1>6 DEF BeginSwitch
  <2>2. ShellBody BY <2>1 DEF ShellInv
  <2> QED BY <1>6, <2>2, BeginSwitchKeeps
<1> QED BY <1>2, <1>3, <1>4, <1>5, <1>6 DEF ShellNext

LEMMA ShellInvMeans == ShellInv => SessionsApart
<1> SUFFICES ASSUME ShellInv, ~gap PROVE SessionsApart
  BY DEF ShellInv, SessionsApart, PromptNotLost, SwitchLeavesNothing, DeletedStaysDeleted
<1>1. ShellBody BY DEF ShellInv
<1>2. PromptNotLost BY <1>1 DEF ShellBody, OneQuestion, PromptNotLost
<1>3. SwitchLeavesNothing BY <1>1 DEF ShellBody, OneSession, SwitchLeavesNothing
<1>4. DeletedStaysDeleted BY <1>1 DEF ShellBody, DeletedStaysDeleted
<1> QED BY <1>2, <1>3, <1>4 DEF SessionsApart

-----------------------------------------------------------------------------
(* The parts together: a step of one leaves the others alone.                *)
RuntimeInv == TaskInv /\ SlotsInv /\ McpInv /\ SandboxInv /\ FoldInv /\ ShellInv

LEMMA RuntimeInitHolds == Init => RuntimeInv
BY TaskInitHolds, SlotsInitHolds, McpInitHolds, SandboxInitHolds, FoldInitHolds, ShellInitHolds
   DEF Init, RuntimeInv

LEMMA RuntimeStepKeeps == RuntimeInv /\ [Next]_runtimeVars => RuntimeInv'
<1>1. [Next]_runtimeVars =>
          /\ [TaskNext]_taskVars /\ [SlotsNext]_slotVars /\ [McpNext]_mcpVars
          /\ [SandboxNext]_sandboxVars /\ [FoldNext]_foldVars /\ [ShellNext]_shellVars
  BY DEF Next, runtimeVars, toolVars
<1> QED
  BY <1>1, TaskStepKeeps, SlotsStepKeeps, McpStepKeeps, SandboxStepKeeps, FoldNextKeeps,
     ShellStepKeeps DEF RuntimeInv

LEMMA RuntimeInvHolds == Spec => []RuntimeInv
BY RuntimeInitHolds, RuntimeStepKeeps, PTL DEF Spec

(* A tool call is told what has become of it, for any amount of output, any  *)
(* number of subagent calls and slots, of MCP servers and of requests: a     *)
(* reader of a task has been told what there was, in order                   *)
(* (background-task-manager.ts 120-140), a slot is never lost and nobody     *)
(* waits while one is free (subagent.ts 108-152), no request is pending at a *)
(* server that is gone (stdio-mcp-client.ts 79-101, sse-mcp-client.ts        *)
(* 205-240), and a command that was cut off is not reported as one that      *)
(* exited (docker-sandbox-runner.ts 40-105).                                 *)
THEOREM ToolCallsAreAccounted == Spec => []ToolCallsAccounted
<1>1. RuntimeInv => ToolCallsAccounted
  <2> SUFFICES ASSUME RuntimeInv PROVE ToolCallsAccounted
    OBVIOUS
  <2>1. OutputFollowed BY DEF RuntimeInv, TaskInv, OutputFollowed
  <2>2. SlotsExact BY SlotsInvMeans DEF RuntimeInv
  <2>3. NoOrphanRequest BY DEF RuntimeInv, McpInv
  <2>4. CutOffReported BY DEF RuntimeInv, SandboxInv
  <2> QED BY <2>1, <2>2, <2>3, <2>4 DEF ToolCallsAccounted
<1> QED BY RuntimeInvHolds, <1>1, PTL

(* The next request replays the note and the turns the session counts, and a *)
(* fold that fails, at whatever step, leaves the history as it was, for any  *)
(* number of turns, kept turns, folds, crashes and resumptions               *)
(* (agent-session.ts 270-278, 346-350).                                      *)
THEOREM ConversationStaysFaithful == Spec => []ConversationFaithful
<1>1. RuntimeInv => ConversationFaithful
  BY FoldInvMeans DEF RuntimeInv, ConversationFaithful
<1> QED BY RuntimeInvHolds, <1>1, PTL

(* No question is asked over another, a switch leaves no task and no         *)
(* snapshot of the session before, and a deleted session is not stored       *)
(* again, for any number of sessions and switches (agent-command.ts 274-281, *)
(* 343-361, 389-399), as long as no command was let in at the housekeeping   *)
(* of a turn.                                                                *)
THEOREM SessionsStayApart == Spec => []SessionsApart
<1>1. RuntimeInv => SessionsApart
  BY ShellInvMeans DEF RuntimeInv
<1> QED BY RuntimeInvHolds, <1>1, PTL

=============================================================================
