--------------------------- MODULE Upstream_proof ---------------------------
(***************************************************************************)
(* A call that gives up on all endpoints found none of them reachable from *)
(* its beginning to its end, for any number of endpoints, nodes' behaviour *)
(* and bounds.                                                             *)
(***************************************************************************)
EXTENDS Upstream, TLAPS

USE DEF nodes, ipc

\* Where a thread is while it asks one endpoint after the other.
Tries == {"call", "probe", "fetch", "ipcTip", "ipcHeader"}
Places == Tries \cup {"rest", "thrown", "exhausted", "rpc", "take", "source", "failback",
                      "rpcFailback", "snapshot", "ipc", "retire", "ipcFailed"}
Calls == [at : Places, start : Nat, offset : Nat, expected : Int, parent : Int,
          height : Int, executor : Nat, reached : SUBSET Nat]
Sessions == [executor : Nat, connected : BOOLEAN, mining : BOOLEAN, done : BOOLEAN,
             alive : BOOLEAN]
Loops == [at : {"connect", "publish", "serve", "retry", "ended"}, next : Nat]

TypeOK ==
  /\ setup \in Setups
  /\ mode \in [Nodes -> {"ok", "down", "error"}]
  /\ tip \in [Nodes -> Int]
  /\ current \in Endpoints
  /\ armed \in Int \cup {None}
  /\ status \in Int \cup {None}
  /\ job \in Int
  /\ caller \in [Callers -> Calls]
  /\ session \in Sessions
  /\ loop \in Loops
  /\ loop.at /= "ended" \/ session.mining => setup.ipc

\* What a call has tried so far: the endpoints from its start on, none of which
\* has answered ever since it began.
Tried(r) ==
  /\ r.start \in Endpoints /\ r.offset \in Endpoints
  /\ \A k \in 0..(r.offset - 1) : (r.start + k) % setup.count \notin r.reached

Honest(r) ==
  /\ r.reached \subseteq Endpoints
  /\ \A e \in r.reached : mode[e] /= "down"
  /\ r.at \in Tries => Tried(r)
  /\ r.at = "exhausted" => r.reached = {}

Inv == TypeOK /\ \A c \in Callers : Honest(caller[c])

------------------------------------------------------------------------------
\* The endpoints in turn

\* Two steps around the ring at most.
LEMMA Around ==
  ASSUME NEW n \in Nat \ {0}, NEW s \in 0..(n - 1), NEW k \in 0..(n - 1)
  PROVE  (s + k) % n = IF s + k < n THEN s + k ELSE s + k - n
  OBVIOUS

\* The endpoints from any start on are all the endpoints.
LEMMA AllInTurn ==
  ASSUME NEW n \in Nat \ {0}, NEW s \in 0..(n - 1), NEW e \in 0..(n - 1)
  PROVE  \E k \in 0..(n - 1) : (s + k) % n = e
  <1>1. CASE e >= s
    <2>1. e - s \in 0..(n - 1) /\ (s + (e - s)) % n = e
      BY <1>1, Around
    <2> QED BY <2>1, Zenon
  <1>2. CASE e < s
    <2>1. e - s + n \in 0..(n - 1) /\ (s + (e - s + n)) % n = e
      BY <1>2, Around
    <2> QED BY <2>1, Zenon
  <1> QED BY <1>1, <1>2

------------------------------------------------------------------------------
\* One attempt

\* A configuration has at least one endpoint.
LEMMA Counts ==
  ASSUME TypeOK
  PROVE  setup.count \in Nat \ {0} /\ setup.ipc \in BOOLEAN
  BY UpstreamAssumption, Zenon DEF TypeOK

\* The endpoints are numbered from the primary on; the IPC node is none of them.
LEMMA EndpointsAreNodes ==
  ASSUME TypeOK
  PROVE  /\ Endpoints = 0..(setup.count - 1) /\ Endpoints \subseteq Nat
         /\ Endpoints \subseteq Nodes /\ 0 \in Endpoints /\ Ipc \notin Endpoints
         /\ setup.ipc => Ipc \in Nodes
  BY Counts, UpstreamAssumption DEF Endpoints, Nodes

\* A thread without a call remembers no endpoint.
LEMMA RestingHonest ==
  Resting \in Calls /\ Resting.at = "rest" /\ Resting.reached = {} /\ Honest(Resting)
  BY DEF Resting, Calls, Places, Tries, Honest

\* A call that asks no endpoint, or has an answer, remembers none.
LEMMA IdleHonest ==
  ASSUME NEW r, r.reached = {}, r.at \notin Tries
  PROVE  Honest(r)
  BY Zenon DEF Honest

\* A call begins with the endpoints that answer then, and has tried none.
LEMMA BeginHonest ==
  ASSUME TypeOK, NEW at \in Tries
  PROVE  LET r == Begin(Resting, at) IN r \in Calls /\ r.at = at /\ Honest(r)
  <1> DEFINE R == {e \in Endpoints : mode[e] /= "down"}
             r == Begin(Resting, at)
  <1>a. R \in SUBSET Nat /\ current \in Nat /\ at \in Places
    BY EndpointsAreNodes, Zenon DEF TypeOK, Places
  <1>b. r = [Resting EXCEPT !.at = at, !.start = current, !.offset = 0, !.reached = R]
    BY Zenon DEF Begin
  <1>c. \A e \in R : e \in Endpoints /\ mode[e] /= "down"
    BY Zenon
  <1> HIDE DEF R, r
  <1>d. r = [at |-> at, start |-> current, offset |-> 0, expected |-> 0, parent |-> 0,
             height |-> 0, executor |-> 0, reached |-> R]
    BY <1>b, Zenon DEF Resting
  <1>1. r \in Calls /\ r.at = at /\ r.start = current /\ r.offset = 0 /\ r.reached = R
    BY <1>a, <1>d DEF Calls
  <1>2. Tried(r)
    BY <1>1, EndpointsAreNodes DEF TypeOK, Tried
  <1>3. Honest(r)
    BY <1>1, <1>2, <1>c, Zenon DEF Honest, Tries
  <1> QED BY <1>1, <1>3, Zenon DEF r

\* The endpoint an attempt asks is one of the configuration.
LEMMA IndexInRange ==
  ASSUME TypeOK, NEW r \in Calls, Tried(r)
  PROVE  Index(r) \in Endpoints
  <1> DEFINE n == setup.count
  <1>1. n \in Nat \ {0} /\ r.start \in 0..(n - 1) /\ r.offset \in 0..(n - 1)
    BY Counts, EndpointsAreNodes, Zenon DEF Tried
  <1>2. Endpoints = 0..(n - 1) /\ Index(r) = (r.start + r.offset) % n
    BY EndpointsAreNodes, Zenon DEF Index
  <1> HIDE DEF n
  <1>3. (r.start + r.offset) % n = IF r.start + r.offset < n THEN r.start + r.offset
                                   ELSE r.start + r.offset - n
    BY <1>1, Around, Zenon
  <1>4. (r.start + r.offset) % n \in 0..(n - 1)
    BY <1>1, <1>3
  <1> QED BY <1>2, <1>4, Zenon

\* An attempt leaves a valid current endpoint, goes on only from an endpoint that is
\* down, and gives up only at the last one.
LEMMA AttemptTypes ==
  ASSUME TypeOK, NEW r \in Calls, Tried(r), NEW kind, NEW arg \in Int
  PROVE  LET a == Attempt(r, kind, arg) IN
         /\ a.outcome \in {"ok", "thrown", "exhausted", "retry"}
         /\ a.value \in Int
         /\ a.current \in Endpoints
         /\ a.outcome \in {"exhausted", "retry"} => mode[Index(r)] = "down"
         /\ a.outcome = "exhausted" <=> (mode[Index(r)] = "down" /\ r.offset + 1 = setup.count)
  <1> DEFINE i == Index(r)
             is == Answer(i, kind, arg).is
             value == Answer(i, kind, arg).value
             a == Attempt(r, kind, arg)
  <1>1. i \in Endpoints /\ i \in Nodes
    BY IndexInRange, EndpointsAreNodes, Zenon
  <1>2. mode[i] \in {"ok", "down", "error"} /\ tip[i] \in Int
    BY <1>1, Zenon DEF TypeOK
  <1> HIDE DEF i
  <1>3. is \in {"ok", "down", "error"} /\ (is = "down" <=> mode[i] = "down")
    BY <1>2, Zenon DEF Answer
  <1>4. value \in Int
    BY <1>2 DEF Answer
  <1>5. a.outcome = (CASE is = "ok" -> "ok"
                       [] is = "error" -> "thrown"
                       [] is = "down" /\ r.offset + 1 = setup.count -> "exhausted"
                       [] OTHER -> "retry")
        /\ a.value = value
        /\ a.current = IF is = "ok" THEN Sticky(r) ELSE current
    BY Zenon DEF Attempt, i
  <1>6. Sticky(r) \in Endpoints
    BY <1>1, Zenon DEF Sticky, TypeOK, i
  <1> HIDE DEF is, value, a
  <1>7. a.current \in Endpoints
    BY <1>5, <1>6, Zenon DEF TypeOK
  <1>8. /\ a.outcome \in {"ok", "thrown", "exhausted", "retry"}
        /\ a.outcome \in {"exhausted", "retry"} => mode[i] = "down"
        /\ a.outcome = "exhausted" <=> (mode[i] = "down" /\ r.offset + 1 = setup.count)
    BY <1>3, <1>5, Zenon
  <1> QED BY <1>4, <1>5, <1>7, <1>8, Zenon DEF a, i

\* The endpoint an attempt found unreachable is not among those that answered
\* all along; after the last one none is left.
LEMMA UnansweredHonest ==
  ASSUME TypeOK, NEW r \in Calls, Honest(r), r.at \in Tries,
         NEW kind, NEW arg \in Int,
         Attempt(r, kind, arg).outcome # "ok"
  PROVE  LET u == Unanswered(r, Attempt(r, kind, arg).outcome) IN u \in Calls /\ Honest(u)
  <1> DEFINE o == Attempt(r, kind, arg).outcome
             u == Unanswered(r, o)
             i == Index(r)
  <1>1. Tried(r)
    BY Zenon DEF Honest
  <1>2. /\ o \in {"thrown", "exhausted", "retry"}
        /\ o \in {"exhausted", "retry"} => mode[i] = "down"
        /\ o = "exhausted" <=> (mode[i] = "down" /\ r.offset + 1 = setup.count)
    BY <1>1, AttemptTypes, Zenon
  <1>3. i \in Endpoints /\ i = (r.start + r.offset) % setup.count
    BY <1>1, IndexInRange, Zenon DEF Index
  <1>4. o \in {"exhausted", "retry"} =>
          \A k \in 0..r.offset : (r.start + k) % setup.count \notin r.reached
    <2> SUFFICES ASSUME o \in {"exhausted", "retry"}, NEW k \in 0..r.offset
                 PROVE  (r.start + k) % setup.count \notin r.reached
      BY Zenon
    <2>1. CASE k = r.offset
      BY <2>1, <1>2, <1>3, Zenon DEF Honest
    <2>2. CASE k # r.offset
      <3>1. r.offset \in Nat
        BY Zenon DEF Calls
      <3>2. k \in 0..(r.offset - 1)
        BY <2>2, <3>1
      <3> QED BY <3>2, <1>1, Zenon DEF Tried
    <2> QED BY <2>1, <2>2, Zenon
  <1> HIDE DEF o, i
  <1>5. CASE o = "thrown"
    <2>1. u = [r EXCEPT !.at = "thrown"]
      BY <1>5, Zenon DEF Unanswered
    <2> HIDE DEF u
    <2>2. u \in Calls /\ u.at = "thrown" /\ u.reached = r.reached
      BY <2>1, Zenon DEF Calls, Places
    <2>3. Honest(u)
      BY <2>2, Zenon DEF Honest, Tries
    <2> QED BY <2>2, <2>3, Zenon DEF u, o
  <1>6. CASE o = "exhausted"
    <2>1. u = [r EXCEPT !.at = "exhausted"]
      BY <1>6, Zenon DEF Unanswered
    <2> HIDE DEF u
    <2>2. u \in Calls /\ u.at = "exhausted" /\ u.reached = r.reached
      BY <2>1, Zenon DEF Calls, Places
    <2>3. r.reached = {}
      <3> SUFFICES ASSUME NEW e \in r.reached PROVE FALSE
        BY Zenon
      <3>1. e \in 0..(setup.count - 1) /\ r.start \in 0..(setup.count - 1)
        BY <1>1, EndpointsAreNodes, Zenon DEF Honest, Tried
      <3>2. PICK k \in 0..(setup.count - 1) : (r.start + k) % setup.count = e
        BY <3>1, Counts, AllInTurn, Zenon
      <3>3. setup.count - 1 = r.offset
        BY <1>2, <1>6, Counts DEF Calls
      <3> QED BY <3>2, <3>3, <1>4, <1>6, Zenon
    <2>4. Honest(u)
      BY <2>2, <2>3, Zenon DEF Honest, Tries
    <2> QED BY <2>2, <2>4, Zenon DEF u, o
  <1>7. CASE o = "retry"
    <2>1. u = [r EXCEPT !.offset = @ + 1]
      BY <1>7, Zenon DEF Unanswered
    <2> HIDE DEF u
    <2>2. /\ u \in Calls /\ u.at = r.at /\ u.reached = r.reached /\ u.start = r.start
          /\ u.offset = r.offset + 1
      BY <2>1 DEF Calls
    <2>3. r.offset \in 0..(setup.count - 1) /\ r.offset + 1 # setup.count
      BY <1>1, <1>2, <1>7, EndpointsAreNodes, Zenon DEF Tried
    <2>4. u.offset \in 0..(setup.count - 1) /\ u.offset - 1 = r.offset
      BY <2>2, <2>3, Counts
    <2>5. Tried(u)
      BY <2>2, <2>4, <1>1, <1>4, <1>7, EndpointsAreNodes, Zenon DEF Tried
    <2>6. Honest(u)
      BY <2>2, <2>5, Zenon DEF Honest, Tries
    <2> QED BY <2>2, <2>6, Zenon DEF u, o
  <1> QED BY <1>2, <1>5, <1>6, <1>7, Zenon

------------------------------------------------------------------------------
\* The steps

\* A step that gives one thread an honest call, or none, and moves no node.
LEMMA Moved ==
  ASSUME Inv, NEW c \in Callers, NEW r \in Calls, Honest(r),
         caller' = [caller EXCEPT ![c] = r], UNCHANGED nodes,
         current' \in Endpoints, armed' \in Int \cup {None}, status' \in Int \cup {None},
         job' \in Int, session' \in Sessions, loop' \in Loops,
         (loop.at /= "ended" \/ session.mining)' => setup.ipc
  PROVE  Inv'
  <1>1. TypeOK'
    BY Zenon DEF Inv, TypeOK, Endpoints, Nodes
  <1>2. \A d \in Callers : caller'[d] = caller[d] \/ caller'[d] = r
    BY Zenon DEF Inv, TypeOK
  <1>3. \A d \in Callers : Honest(caller[d])'
    BY <1>2, Zenon DEF Inv, Honest, Tried, Endpoints
  <1> QED BY <1>1, <1>3, Zenon DEF Inv

\* A step that touches no call and no node.
LEMMA Stood ==
  ASSUME Inv, UNCHANGED <<nodes, current, job, caller>>,
         armed' \in Int \cup {None}, status' \in Int \cup {None},
         session' \in Sessions, loop' \in Loops,
         (loop.at /= "ended" \/ session.mining)' => setup.ipc
  PROVE  Inv'
  <1>1. TypeOK'
    BY Zenon DEF Inv, TypeOK, Endpoints, Nodes
  <1>2. \A d \in Callers : Honest(caller[d])'
    BY Zenon DEF Inv, Honest, Tried, Endpoints
  <1> QED BY <1>1, <1>2, Zenon DEF Inv

\* A node that stops answering is forgotten by every call under way.
LEMMA ChangeHonest ==
  ASSUME Inv, NEW n \in Nodes, NEW m \in Modes, Change(n, m)
  PROVE  Inv'
  <1>1. m \in {"ok", "down", "error"}
    BY UpstreamAssumption, Zenon
  <1>2. mode' = [mode EXCEPT ![n] = m] /\ Nodes' = Nodes /\ Endpoints' = Endpoints
    BY Zenon DEF Change, Nodes, Endpoints
  <1>3. \A c \in Callers :
          caller'[c] = [caller[c] EXCEPT !.reached = IF m = "down" THEN @ \ {n} ELSE @]
    BY Zenon DEF Change
  <1>4. \A c \in Callers :
          /\ caller'[c] \in Calls /\ caller'[c].at = caller[c].at
          /\ caller'[c].start = caller[c].start /\ caller'[c].offset = caller[c].offset
          /\ caller'[c].reached \subseteq caller[c].reached
          /\ m = "down" => n \notin caller'[c].reached
    <2> SUFFICES ASSUME NEW c \in Callers
                 PROVE  /\ caller'[c] \in Calls /\ caller'[c].at = caller[c].at
                        /\ caller'[c].start = caller[c].start
                        /\ caller'[c].offset = caller[c].offset
                        /\ caller'[c].reached \subseteq caller[c].reached
                        /\ m = "down" => n \notin caller'[c].reached
      BY Zenon
    <2>1. PICK r \in Calls : r = caller[c]
      BY Zenon DEF Inv, TypeOK
    <2>2. CASE m = "down"
      <3>1. caller'[c] = [r EXCEPT !.reached = r.reached \ {n}]
        BY <1>3, <2>1, <2>2, Zenon
      <3>2. r.reached \ {n} \in SUBSET Nat
        BY Zenon DEF Calls
      <3> QED BY <2>1, <3>1, <3>2 DEF Calls
    <2>3. CASE m # "down"
      <3>1. caller'[c] = [r EXCEPT !.reached = r.reached]
        BY <1>3, <2>1, <2>3, Zenon
      <3> QED BY <2>1, <2>3, <3>1, Zenon DEF Calls
    <2> QED BY <2>2, <2>3, Zenon
  <1>5. TypeOK'
    <2>1. caller' \in [Callers -> Calls]
      BY <1>4, Zenon DEF Change
    <2>2. session' \in Sessions
      BY Zenon DEF Change, Inv, TypeOK, Sessions
    <2> QED BY <1>1, <1>2, <2>1, <2>2 DEF Inv, TypeOK, Change
  <1>6. ASSUME NEW c \in Callers PROVE Honest(caller[c])'
    <2>1. Honest(caller[c])
      BY Zenon DEF Inv
    <2>2. \A e \in caller'[c].reached : e \in Endpoints /\ mode'[e] /= "down"
      BY <1>1, <1>2, <1>4, <2>1, EndpointsAreNodes, Zenon DEF Inv, TypeOK, Honest
    <2>3. caller[c].at \in Tries => Tried(caller[c])'
      BY <1>2, <1>4, <2>1 DEF Honest, Tried, Change
    <2> QED BY <1>2, <1>4, <2>1, <2>2, <2>3, Zenon DEF Honest
  <1> QED BY <1>5, <1>6, Zenon DEF Inv

\* A new block changes no call.
LEMMA AdvanceHonest ==
  ASSUME Inv, NEW n \in Nodes, Advance(n)
  PROVE  Inv'
  <1>1. TypeOK'
    BY DEF Inv, TypeOK, Advance, Nodes, Endpoints
  <1>2. \A c \in Callers : Honest(caller[c])'
    BY Zenon DEF Inv, Honest, Tried, Advance, Endpoints
  <1> QED BY <1>1, <1>2, Zenon DEF Inv

\* The calls of the other thread.
LEMMA OtherHonest ==
  ASSUME Inv, OtherCall \/ OtherAttempt \/ OtherFails
  PROVE  Inv'
  <1>t. TypeOK /\ "other" \in Callers /\ caller["other"] \in Calls /\ Honest(caller["other"])
    BY Zenon DEF Inv, TypeOK, Callers
  <1>1. CASE OtherCall
    <2> DEFINE r == Begin(Resting, "call")
    <2>1. r \in Calls /\ Honest(r)
      BY <1>t, BeginHonest, Zenon DEF Tries
    <2>2. caller' = [caller EXCEPT !["other"] = r]
      BY <1>1, Zenon DEF OtherCall
    <2> HIDE DEF r
    <2> QED BY <1>1, <1>t, <2>1, <2>2, Moved, Zenon DEF OtherCall, TypeOK
  <1>2. CASE OtherAttempt
    <2>k. 0 \in Int
      OBVIOUS
    <2> DEFINE rec == caller["other"]
               a == Attempt(rec, "other", 0)
               r == IF a.outcome \in {"ok", "thrown"} THEN Resting
                    ELSE Unanswered(rec, a.outcome)
    <2>1. rec.at \in Tries /\ Tried(rec)
      BY <1>2, <1>t, Zenon DEF OtherAttempt, Tries, Honest
    <2>2. a.current \in Endpoints
      BY <1>t, <2>1, <2>k, AttemptTypes, Zenon
    <2>3. a.outcome # "ok" => Unanswered(rec, a.outcome) \in Calls
                              /\ Honest(Unanswered(rec, a.outcome))
      BY <1>t, <2>1, <2>k, UnansweredHonest, Zenon
    <2>4. caller' = [caller EXCEPT !["other"] = r] /\ current' = a.current
      BY <1>2, Zenon DEF OtherAttempt
    <2> HIDE DEF a, rec
    <2>5. r \in Calls /\ Honest(r)
      BY <2>3, RestingHonest, Zenon
    <2> HIDE DEF r
    <2>6. UNCHANGED <<nodes, armed, job, status, ipc>>
      BY <1>2, Zenon DEF OtherAttempt
    <2> QED BY <1>t, <2>2, <2>4, <2>5, <2>6, Moved, Zenon DEF TypeOK
  <1>3. CASE OtherFails
    BY <1>3, <1>t, RestingHonest, Moved, Zenon DEF OtherFails, TypeOK
  <1> QED BY <1>1, <1>2, <1>3, Zenon

\* The status thread moves no endpoint: it only arms the failback.
LEMMA StatusHonest ==
  ASSUME Inv, StatusProbe \/ StatusAnswer
  PROVE  Inv'
  <1>1. CASE StatusProbe
    BY <1>1, Stood, Zenon DEF StatusProbe, Inv, TypeOK
  <1>2. CASE StatusAnswer
    BY <1>2, Stood, Zenon DEF StatusAnswer, Inv, TypeOK
  <1> QED BY <1>1, <1>2, Zenon

------------------------------------------------------------------------------
\* The work thread

\* A thread between two calls.
LEMMA IdleCall ==
  ASSUME NEW p \in Places, p \notin Tries
  PROVE  LET r == [Resting EXCEPT !.at = p] IN r \in Calls /\ Honest(r)
  <1> DEFINE r == [Resting EXCEPT !.at = p]
  <1>1. r = [at |-> p, start |-> 0, offset |-> 0, expected |-> 0, parent |-> 0,
             height |-> 0, executor |-> 0, reached |-> {}]
    BY DEF Resting
  <1> HIDE DEF r
  <1>2. r \in Calls /\ r.at = p /\ r.reached = {}
    BY <1>1 DEF Calls
  <1> QED BY <1>2, IdleHonest, Zenon DEF r

\* The same with the tip a failback waits for.
LEMMA IdleExpects ==
  ASSUME NEW p \in Places, p \notin Tries, NEW x \in Int
  PROVE  LET r == [Resting EXCEPT !.at = p, !.expected = x] IN r \in Calls /\ Honest(r)
  <1> DEFINE r == [Resting EXCEPT !.at = p, !.expected = x]
  <1>a. r = [Resting EXCEPT !.at = p, !.expected = x]
    BY Zenon
  <1> HIDE DEF r
  <1>1. r = [at |-> p, start |-> 0, offset |-> 0, expected |-> x, parent |-> 0,
             height |-> 0, executor |-> 0, reached |-> {}]
    BY <1>a, Zenon DEF Resting
  <1>2. r \in Calls /\ r.at = p /\ r.reached = {}
    BY <1>1 DEF Calls
  <1> QED BY <1>2, IdleHonest, Zenon DEF r

\* The same with the session an IPC call holds on to.
LEMMA IdleHolds ==
  ASSUME NEW p \in Places, p \notin Tries, NEW k \in Nat
  PROVE  LET r == [Resting EXCEPT !.at = p, !.executor = k] IN r \in Calls /\ Honest(r)
  <1> DEFINE r == [Resting EXCEPT !.at = p, !.executor = k]
  <1>a. r = [Resting EXCEPT !.at = p, !.executor = k]
    BY Zenon
  <1> HIDE DEF r
  <1>1. r = [at |-> p, start |-> 0, offset |-> 0, expected |-> 0, parent |-> 0,
             height |-> 0, executor |-> k, reached |-> {}]
    BY <1>a, Zenon DEF Resting
  <1>2. r \in Calls /\ r.at = p /\ r.reached = {}
    BY <1>1 DEF Calls
  <1> QED BY <1>2, IdleHonest, Zenon DEF r

\* Leaving the endpoints without an answer.
LEMMA LeftHonest ==
  ASSUME NEW r \in Calls, Honest(r), NEW p \in Places, p \notin Tries, p # "exhausted"
  PROVE  [r EXCEPT !.at = p] \in Calls /\ Honest([r EXCEPT !.at = p])
  BY Zenon DEF Calls, Honest

\* The template an IPC call carries along does not matter.
LEMMA CarriesHonest ==
  ASSUME NEW r \in Calls, Honest(r), NEW x \in Int, NEW h \in Int, NEW e \in Int
  PROVE  /\ [r EXCEPT !.parent = x, !.height = h] \in Calls
         /\ Honest([r EXCEPT !.parent = x, !.height = h])
         /\ [r EXCEPT !.parent = x, !.height = h, !.expected = e] \in Calls
         /\ Honest([r EXCEPT !.parent = x, !.height = h, !.expected = e])
  <1>1. /\ [r EXCEPT !.parent = x, !.height = h] \in Calls
        /\ Honest([r EXCEPT !.parent = x, !.height = h])
    BY Zenon DEF Calls, Honest, Tried
  <1>2. /\ [r EXCEPT !.parent = x, !.height = h, !.expected = e] \in Calls
        /\ Honest([r EXCEPT !.parent = x, !.height = h, !.expected = e])
    BY Zenon DEF Calls, Honest, Tried
  <1> QED BY <1>1, <1>2, Zenon

\* What holds of the work thread's call.
LEMMA WorkTyped ==
  ASSUME Inv
  PROVE  TypeOK /\ "work" \in Callers /\ work \in Calls /\ Honest(work)
  BY Zenon DEF Inv, TypeOK, Callers, work

\* A step of the work thread that leaves the IPC session alone.
LEMMA WorkMoved ==
  ASSUME Inv, NEW r \in Calls, Honest(r), Work(r), UNCHANGED <<nodes, status, ipc>>,
         current' \in Endpoints, armed' \in Int \cup {None}, job' \in Int
  PROVE  Inv'
  BY WorkTyped, Moved, Zenon DEF Work, TypeOK

\* Publishing a template ends the call.
LEMMA PublishMoved ==
  ASSUME Inv, NEW x \in Int, Publish(x), UNCHANGED <<nodes, armed, status, ipc>>,
         current' \in Endpoints
  PROVE  Inv'
  <1>1. Work(Resting)
    BY Zenon DEF Publish
  <1>2. job' \in Int
    BY Zenon DEF Publish, Inv, TypeOK
  <1> QED BY <1>1, <1>2, RestingHonest, WorkMoved, Zenon DEF Inv, TypeOK

\* The source of templates is not a call.
LEMMA SourceIdle ==
  Source \in Places /\ Source \notin Tries
  BY Zenon DEF Source, Places, Tries

\* What follows the failback: the IPC session, or a call from the current endpoint.
LEMMA OnwardHonest ==
  ASSUME Inv, NEW at
  PROVE  Onward(at) \in Calls /\ Honest(Onward(at))
  <1>1. CASE at \in {"take", "failback"}
    <2>1. "source" \in Places /\ "source" \notin Tries
      BY Zenon DEF Places, Tries
    <2>2. Onward(at) = [Resting EXCEPT !.at = "source"]
      BY <1>1, Zenon DEF Onward
    <2> QED BY <2>1, <2>2, IdleCall, Zenon
  <1>2. CASE at \notin {"take", "failback"}
    <2>1. "fetch" \in Tries
      BY Zenon DEF Tries
    <2>2. Onward(at) = Begin(Resting, "fetch")
      BY <1>2, Zenon DEF Onward
    <2> QED BY <2>1, <2>2, BeginHonest, Zenon DEF Inv
  <1> QED BY <1>1, <1>2, Zenon

\* Beginning and failing a refresh.
LEMMA RestHonest ==
  ASSUME Inv, WorkFetches \/ WorkAsksTip \/ WorkFails \/ WorkRefused
  PROVE  Inv'
  <1>1. CASE WorkFetches
    <2> DEFINE r == [Resting EXCEPT !.at = Source]
    <2>1. r \in Calls /\ Honest(r)
      BY SourceIdle, IdleCall, Zenon
    <2>2. Work(r) /\ UNCHANGED <<nodes, current, armed, job, status, ipc>>
      BY <1>1, Zenon DEF WorkFetches
    <2> HIDE DEF r
    <2> QED BY <2>1, <2>2, WorkMoved, Zenon DEF Inv, TypeOK
  <1>2. CASE WorkAsksTip
    <2> DEFINE r == Begin(Resting, "probe")
    <2>1. r \in Calls /\ Honest(r)
      BY WorkTyped, BeginHonest, Zenon DEF Tries
    <2>2. Work(r) /\ UNCHANGED <<nodes, current, armed, job, status, ipc>>
      BY <1>2, Zenon DEF WorkAsksTip
    <2> HIDE DEF r
    <2> QED BY <2>1, <2>2, WorkMoved, Zenon DEF Inv, TypeOK
  <1>3. CASE WorkFails
    BY <1>3, RestingHonest, WorkMoved, Zenon DEF WorkFails, Inv, TypeOK
  <1>4. CASE WorkRefused
    <2> DEFINE r == [work EXCEPT !.at = "thrown"]
    <2>1. r \in Calls /\ Honest(r)
      BY WorkTyped, LeftHonest, Zenon DEF Places, Tries
    <2>2. Work(r) /\ UNCHANGED <<nodes, current, armed, job, status, ipc>>
      BY <1>4, Zenon DEF WorkRefused
    <2> HIDE DEF r
    <2> QED BY <2>1, <2>2, WorkMoved, Zenon DEF Inv, TypeOK
  <1> QED BY <1>1, <1>2, <1>3, <1>4, Zenon

\* A step in which the work thread asks an endpoint: "next" is what it does with
\* the answer.
LEMMA AskedHonest ==
  ASSUME Inv, NEW kind, NEW arg \in Int, NEW next, work.at \in Tries,
         Attempt(work, kind, arg).outcome = "ok" => next \in Calls /\ Honest(next),
         LET a == Attempt(work, kind, arg) IN
           /\ current' = a.current
           /\ Work(IF a.outcome = "ok" THEN next ELSE Unanswered(work, a.outcome)),
         UNCHANGED <<nodes, armed, status, ipc>>, job' \in Int
  PROVE  Inv'
  <1> DEFINE a == Attempt(work, kind, arg)
             r == IF a.outcome = "ok" THEN next ELSE Unanswered(work, a.outcome)
  <1>1. Tried(work)
    BY WorkTyped, Zenon DEF Honest
  <1>2. a.current \in Endpoints
    BY WorkTyped, <1>1, AttemptTypes, Zenon
  <1>3. a.outcome # "ok" => Unanswered(work, a.outcome) \in Calls
                            /\ Honest(Unanswered(work, a.outcome))
    BY WorkTyped, UnansweredHonest, Zenon
  <1>4. current' = a.current /\ Work(r)
    BY Zenon
  <1> HIDE DEF a
  <1>5. r \in Calls /\ Honest(r)
    BY <1>3, Zenon DEF a
  <1> HIDE DEF r
  <1> QED BY <1>2, <1>4, <1>5, WorkMoved, Zenon DEF Inv, TypeOK

\* Asking for the tip.
LEMMA TipHonest ==
  ASSUME Inv, WorkTip
  PROVE  Inv'
  <1> DEFINE a == Attempt(work, "tip", 0)
             next == IF a.value = job THEN Resting ELSE [Resting EXCEPT !.at = Source]
  <1>1. next \in Calls /\ Honest(next)
    BY RestingHonest, SourceIdle, IdleCall, Zenon
  <1>2. /\ current' = a.current
        /\ Work(IF a.outcome = "ok" THEN next ELSE Unanswered(work, a.outcome))
    BY Zenon DEF WorkTip, Work
  <1>3. work.at \in Tries /\ UNCHANGED <<nodes, armed, status, ipc>> /\ job' \in Int
    BY Zenon DEF WorkTip, Tries, Inv, TypeOK
  <1> HIDE DEF next
  <1>4. 0 \in Int
    OBVIOUS
  <1> QED BY <1>1, <1>2, <1>3, <1>4, AskedHonest, Zenon

\* Asking for a template.
LEMMA TemplateHonest ==
  ASSUME Inv, WorkTemplate
  PROVE  Inv'
  <1> DEFINE a == Attempt(work, "template", 0)
  <1>1. work.at \in Tries /\ UNCHANGED <<nodes, armed, status, ipc>> /\ current' = a.current
    BY Zenon DEF WorkTemplate, Tries
  <1>2. 0 \in Int
    OBVIOUS
  <1>3. a.value \in Int
    BY <1>1, <1>2, WorkTyped, AttemptTypes, Zenon DEF Honest
  <1>4. Work(IF a.outcome = "ok" THEN Resting ELSE Unanswered(work, a.outcome))
    BY Zenon DEF WorkTemplate, Publish, Work
  <1>5. job' = job \/ job' = a.value
    BY Zenon DEF WorkTemplate, Publish
  <1>6. job' \in Int
    BY <1>3, <1>5, Zenon DEF Inv, TypeOK
  <1> HIDE DEF a
  <1> QED BY <1>1, <1>2, <1>4, <1>6, RestingHonest, AskedHonest, Zenon DEF a

\* The failback makes the primary current while other calls are under way.
LEMMA FailbackHonest ==
  ASSUME Inv, TakeFailback \/ Failback
  PROVE  Inv'
  <1>1. CASE TakeFailback
    <2>1. /\ UNCHANGED <<nodes, current, job, status, ipc>> /\ armed' = None
          /\ \/ Work(Onward(work.at))
             \/ /\ armed # None
                /\ \E p \in {"failback", "rpcFailback"} :
                     Work([Resting EXCEPT !.at = p, !.expected = armed])
      BY <1>1, Zenon DEF TakeFailback, Work
    <2>2. CASE Work(Onward(work.at))
      BY <2>1, <2>2, OnwardHonest, WorkMoved, Zenon DEF Inv, TypeOK
    <2>3. ASSUME armed # None, NEW p \in {"failback", "rpcFailback"},
                 Work([Resting EXCEPT !.at = p, !.expected = armed])
          PROVE  Inv'
      <3> DEFINE r == [Resting EXCEPT !.at = p, !.expected = armed]
      <3>1. p \in Places /\ p \notin Tries /\ armed \in Int
        BY <2>3, Zenon DEF Inv, TypeOK, Places, Tries
      <3>2. r \in Calls /\ Honest(r)
        BY <3>1, IdleExpects, Zenon
      <3>3. Work(r)
        BY <2>3, Zenon
      <3> HIDE DEF r
      <3> QED BY <2>1, <3>2, <3>3, WorkMoved, Zenon DEF Inv, TypeOK
    <2> QED BY <2>1, <2>2, <2>3, Zenon
  <1>2. CASE Failback
    <2> DEFINE v == Answer(0, "template", 0).value
    <2>1. v \in Int
      BY EndpointsAreNodes, Zenon DEF Answer, Inv, TypeOK
    <2>2. /\ UNCHANGED <<nodes, armed, status, ipc>>
          /\ \/ current' = 0 /\ Publish(v)
             \/ Work(Onward(work.at)) /\ UNCHANGED <<current, job>>
      BY <1>2, Zenon DEF Failback
    <2> HIDE DEF v
    <2>3. CASE current' = 0 /\ Publish(v)
      BY <2>1, <2>2, <2>3, EndpointsAreNodes, PublishMoved, Zenon DEF Inv
    <2>4. CASE Work(Onward(work.at)) /\ UNCHANGED <<current, job>>
      BY <2>2, <2>4, OnwardHonest, WorkMoved, Zenon DEF Inv, TypeOK
    <2> QED BY <2>2, <2>3, <2>4, Zenon
  <1> QED BY <1>1, <1>2, Zenon

------------------------------------------------------------------------------
\* Templates over IPC

\* Looking at the IPC session.
LEMMA SessionHonest ==
  ASSUME Inv, WorkSource \/ IpcSnapshot \/ WorkIpcFails
  PROVE  Inv'
  <1>1. CASE WorkSource \/ WorkIpcFails
    <2>1. /\ UNCHANGED <<nodes, current, armed, job, status, ipc>>
          /\ \E p \in {"snapshot", "rpc", "thrown"} : Work([Resting EXCEPT !.at = p])
      BY <1>1, Zenon DEF WorkSource, WorkIpcFails, Work
    <2>2. PICK p \in {"snapshot", "rpc", "thrown"} : Work([Resting EXCEPT !.at = p])
      BY <2>1, Zenon
    <2> DEFINE r == [Resting EXCEPT !.at = p]
    <2>3. p \in Places /\ p \notin Tries
      BY Zenon DEF Places, Tries
    <2>4. r \in Calls /\ Honest(r)
      BY <2>3, IdleCall, Zenon
    <2>5. Work(r)
      BY <2>2, Zenon
    <2> HIDE DEF r
    <2> QED BY <2>1, <2>4, <2>5, WorkMoved, Zenon DEF Inv, TypeOK
  <1>2. CASE IpcSnapshot
    <2> DEFINE p == IF session.executor = 0 THEN "ipcFailed" ELSE "ipc"
               r == [Resting EXCEPT !.at = p, !.executor = session.executor]
    <2>1. p \in Places /\ p \notin Tries
      BY Zenon DEF Places, Tries
    <2>2. session.executor \in Nat
      BY Zenon DEF Inv, TypeOK, Sessions
    <2>3. Work(r) /\ UNCHANGED <<nodes, current, armed, job, status, ipc>>
      BY <1>2, Zenon DEF IpcSnapshot
    <2> HIDE DEF p
    <2>4. r \in Calls /\ Honest(r)
      BY <2>1, <2>2, IdleHolds, Zenon
    <2> HIDE DEF r
    <2> QED BY <2>3, <2>4, WorkMoved, Zenon DEF Inv, TypeOK
  <1> QED BY <1>1, <1>2, Zenon

\* An IPC template begins the call that checks its parent.
LEMMA IpcAnswerHonest ==
  ASSUME Inv, IpcAnswer
  PROVE  Inv'
  <1> DEFINE b == Begin(Resting, "ipcTip")
             h == IF Encodes THEN tip[Ipc] + 1 ELSE 1
             r == [b EXCEPT !.parent = tip[Ipc], !.height = h]
             q == [work EXCEPT !.at = "retire"]
  <1>1. /\ UNCHANGED <<nodes, current, armed, job, status, ipc>>
        /\ (session.mining /\ Work(r)) \/ Work(q)
    BY Zenon DEF IpcAnswer, Work
  <1>2. b \in Calls /\ Honest(b)
    <2>1. "ipcTip" \in Tries
      BY Zenon DEF Tries
    <2> QED BY <2>1, WorkTyped, BeginHonest, Zenon
  <1>3. CASE session.mining /\ Work(r)
    <2>1. Ipc \in Nodes
      BY <1>3, EndpointsAreNodes, Zenon DEF Inv, TypeOK
    <2>2. tip[Ipc] \in Int /\ h \in Int
      BY <2>1 DEF Inv, TypeOK
    <2> HIDE DEF b, h
    <2>3. r \in Calls /\ Honest(r)
      BY <1>2, <2>2, CarriesHonest, Zenon
    <2> HIDE DEF r
    <2> QED BY <1>1, <1>3, <2>3, WorkMoved, Zenon DEF Inv, TypeOK
  <1>4. CASE Work(q)
    <2>1. "retire" \in Places /\ "retire" \notin Tries /\ "retire" # "exhausted"
      BY Zenon DEF Places, Tries
    <2>2. q \in Calls /\ Honest(q)
      BY <2>1, WorkTyped, LeftHonest, Zenon
    <2> HIDE DEF q
    <2> QED BY <1>1, <1>4, <2>2, WorkMoved, Zenon DEF Inv, TypeOK
  <1> QED BY <1>1, <1>3, <1>4, Zenon

\* Checking the parent begins the call for its header.
LEMMA IpcTipHonest ==
  ASSUME Inv, WorkIpcTip
  PROVE  Inv'
  <1> DEFINE a == Attempt(work, "tip", 0)
             b == Begin(Resting, "ipcHeader")
             c == [b EXCEPT !.parent = work.parent, !.height = work.height,
                           !.expected = a.value]
             d == [Resting EXCEPT !.at = "rpc"]
             next == IF a.value = work.parent THEN c ELSE d
  <1>1. work.at \in Tries /\ UNCHANGED <<nodes, armed, status, ipc>> /\ job' \in Int
    BY Zenon DEF WorkIpcTip, Tries, Inv, TypeOK
  <1>2. 0 \in Int
    OBVIOUS
  <1>3. a.value \in Int /\ work.parent \in Int /\ work.height \in Int
    <2>1. a.value \in Int
      BY <1>1, <1>2, WorkTyped, AttemptTypes, Zenon DEF Honest
    <2>2. work.parent \in Int /\ work.height \in Int
      BY WorkTyped, Zenon DEF Calls
    <2> QED BY <2>1, <2>2, Zenon
  <1>4. /\ current' = a.current
        /\ Work(IF a.outcome = "ok" THEN next ELSE Unanswered(work, a.outcome))
    BY Zenon DEF WorkIpcTip, Work
  <1>5. b \in Calls /\ Honest(b)
    <2>1. "ipcHeader" \in Tries
      BY Zenon DEF Tries
    <2> QED BY <2>1, WorkTyped, BeginHonest, Zenon
  <1>6. d \in Calls /\ Honest(d)
    <2>1. "rpc" \in Places /\ "rpc" \notin Tries
      BY Zenon DEF Places, Tries
    <2> QED BY <2>1, IdleCall, Zenon
  <1> HIDE DEF b, a
  <1>7. c \in Calls /\ Honest(c)
    BY <1>3, <1>5, CarriesHonest, Zenon
  <1> HIDE DEF c, d
  <1>8. next \in Calls /\ Honest(next)
    BY <1>6, <1>7, Zenon
  <1> HIDE DEF next
  <1> QED BY <1>1, <1>2, <1>4, <1>8, AskedHonest, Zenon DEF a

\* Checking the header.
LEMMA IpcHeaderHonest ==
  ASSUME Inv, WorkIpcHeader
  PROVE  Inv'
  <1> DEFINE a == Attempt(work, "header", work.expected)
             d == [Resting EXCEPT !.at = "rpc"]
  <1>1. work.at \in Tries /\ UNCHANGED <<nodes, armed, status, ipc>> /\ current' = a.current
    BY Zenon DEF WorkIpcHeader, Tries
  <1>2. work.expected \in Int /\ work.parent \in Int
    BY WorkTyped, Zenon DEF Calls
  <1>3. d \in Calls /\ Honest(d)
    <2>1. "rpc" \in Places /\ "rpc" \notin Tries
      BY Zenon DEF Places, Tries
    <2> QED BY <2>1, IdleCall, Zenon
  <1>4. \/ a.outcome # "ok" /\ Work(Unanswered(work, a.outcome)) /\ job' = job
        \/ a.outcome = "ok" /\ Work(d) /\ job' = job
        \/ a.outcome = "ok" /\ Publish(work.parent)
    BY Zenon DEF WorkIpcHeader
  <1> HIDE DEF a
  <1>5. \/ Work(IF a.outcome = "ok" THEN d ELSE Unanswered(work, a.outcome)) /\ job' = job
        \/ /\ Work(IF a.outcome = "ok" THEN Resting ELSE Unanswered(work, a.outcome))
           /\ job' = job \/ job' = work.parent
    BY <1>4, Zenon DEF Publish, Work
  <1> HIDE DEF d
  <1>6. job' \in Int
    BY <1>2, <1>5, Zenon DEF Inv, TypeOK
  <1>7. CASE Work(IF a.outcome = "ok" THEN d ELSE Unanswered(work, a.outcome))
    BY <1>1, <1>2, <1>3, <1>6, <1>7, AskedHonest, Zenon DEF a
  <1>8. CASE Work(IF a.outcome = "ok" THEN Resting ELSE Unanswered(work, a.outcome))
    BY <1>1, <1>2, <1>6, <1>8, RestingHonest, AskedHonest, Zenon DEF a
  <1> QED BY <1>5, <1>7, <1>8, Zenon

\* Retiring a session makes none.
LEMMA RetiredTyped ==
  ASSUME TypeOK, NEW executor
  PROVE  Retired(executor) \in Sessions /\ (Retired(executor).mining => session.mining)
  BY Zenon DEF TypeOK, Retired, Sessions

\* Retiring the session, by the work thread or by interrupt().
LEMMA RetiresHonest ==
  ASSUME Inv, WorkRetires \/ Interrupt \/ InterruptRetires
  PROVE  Inv'
  <1>1. CASE WorkRetires
    <2> DEFINE r == [Resting EXCEPT !.at = "ipcFailed"]
    <2>1. "ipcFailed" \in Places /\ "ipcFailed" \notin Tries
      BY Zenon DEF Places, Tries
    <2>2. r \in Calls /\ Honest(r)
      BY <2>1, IdleCall, Zenon
    <2>3. /\ caller' = [caller EXCEPT !["work"] = r] /\ session' = Retired(work.executor)
          /\ UNCHANGED <<nodes, current, armed, job, status, loop>>
      BY <1>1, Zenon DEF WorkRetires, Work
    <2>4. session' \in Sessions /\ (session'.mining => session.mining)
      BY <2>3, RetiredTyped, WorkTyped, Zenon
    <2> HIDE DEF r
    <2> QED BY <2>2, <2>3, <2>4, WorkTyped, Moved, Zenon DEF TypeOK
  <1>2. CASE Interrupt
    BY <1>2, Stood, Zenon DEF Interrupt, Inv, TypeOK
  <1>3. CASE InterruptRetires
    <2>1. UNCHANGED <<nodes, current, armed, job, caller, status, loop>>
          /\ (session' = session \/ session' = Retired(stop.executor))
      BY <1>3, Zenon DEF InterruptRetires
    <2>2. session' \in Sessions /\ (session'.mining => session.mining)
      BY <2>1, RetiredTyped, Zenon DEF Inv, TypeOK
    <2> QED BY <2>1, <2>2, Stood, Zenon DEF Inv, TypeOK
  <1> QED BY <1>1, <1>2, <1>3, Zenon

\* The IPC loop, which runs only where IPC is configured.
LEMMA LoopHonest ==
  ASSUME Inv, LoopStep
  PROVE  Inv'
  <1>1. /\ UNCHANGED <<nodes, current, armed, job, caller, status>>
        /\ loop.at \in {"connect", "publish", "serve", "retry"}
    BY Zenon DEF LoopStep, LoopConnect, LoopPublish, LoopServe, LoopRetry
  <1>2. /\ setup.ipc /\ loop \in Loops /\ session \in Sessions
        /\ NoSession \in Sessions
    BY <1>1, Zenon DEF Inv, TypeOK, Sessions, NoSession
  <1>3. loop' \in Loops /\ session' \in Sessions
    <2>1. CASE LoopConnect
      <3> DEFINE p == CASE Stopping -> "ended"
                        [] ~Stopping /\ mode[Ipc] = "ok" -> "publish"
                        [] OTHER -> "retry"
                 up == mode[Ipc] = "ok"
      <3>1. p \in {"connect", "publish", "serve", "retry", "ended"}
        BY Zenon
      <3>2. loop' = [loop EXCEPT !.at = p] /\ session' = [NoSession EXCEPT !.alive = up]
        BY <2>1, Zenon DEF LoopConnect
      <3>3. up \in BOOLEAN
        BY Zenon
      <3> HIDE DEF p, up
      <3>4. loop' \in Loops
        BY <1>2, <3>1, <3>2, Zenon DEF Loops
      <3>5. session' \in Sessions
        BY <1>2, <3>2, <3>3, Zenon DEF Sessions
      <3> QED BY <3>4, <3>5, Zenon
    <2>2. CASE LoopPublish
      <3>1. CASE Stopping
        BY <1>2, <2>2, <3>1, Zenon DEF LoopPublish, Loops
      <3>2. CASE ~Stopping
        <4>1. loop.next \in Nat
          BY <1>2, Zenon DEF Loops
        <4>2. /\ session' = [session EXCEPT !.executor = loop.next, !.connected = TRUE,
                                            !.mining = TRUE]
              /\ loop' = [at |-> "serve", next |-> loop.next + 1]
          BY <2>2, <3>2, Zenon DEF LoopPublish
        <4>3. session' \in Sessions
          BY <1>2, <4>1, <4>2, Zenon DEF Sessions
        <4> QED BY <4>1, <4>2, <4>3 DEF Loops
      <3> QED BY <3>1, <3>2, Zenon
    <2>3. CASE LoopServe
      BY <1>2, <2>3, Zenon DEF LoopServe, Loops
    <2>4. CASE LoopRetry
      BY <1>2, <2>4, Zenon DEF LoopRetry, Loops
    <2> QED BY <2>1, <2>2, <2>3, <2>4, Zenon DEF LoopStep
  <1> QED BY <1>1, <1>2, <1>3, Stood, Zenon DEF Inv, TypeOK

------------------------------------------------------------------------------
\* The theorem

\* The invariant holds at first.
LEMMA InitHonest ==
  ASSUME Init
  PROVE  Inv
  <1>1. setup.count \in Nat \ {0}
    BY UpstreamAssumption, Zenon DEF Init
  <1>2. TypeOK
    <2>1. setup \in Setups /\ current \in Endpoints
          /\ mode \in [Nodes -> {"ok", "down", "error"}] /\ tip \in [Nodes -> Int]
      BY <1>1 DEF Init, Endpoints
    <2>2. caller \in [Callers -> Calls]
      BY RestingHonest, Zenon DEF Init
    <2>3. session \in Sessions /\ ~session.mining
      BY Zenon DEF Init, Sessions, NoSession
    <2>4. loop \in Loops /\ (loop.at /= "ended" => setup.ipc)
      BY Zenon DEF Init, Loops
    <2>5. armed = None /\ status = None /\ job = 0
      BY Zenon DEF Init
    <2> QED BY <2>1, <2>2, <2>3, <2>4, <2>5 DEF TypeOK
  <1>3. \A c \in Callers : caller[c] = Resting
    BY Zenon DEF Init
  <1> QED BY <1>2, <1>3, RestingHonest, Zenon DEF Inv

\* Every step preserves the invariant.
LEMMA NextHonest ==
  ASSUME Inv, [Next]_vars
  PROVE  Inv'
  <1>1. CASE UNCHANGED vars
    BY <1>1, Stood, Zenon DEF vars, Inv, TypeOK
  <1>2. CASE Next
    <2>1. CASE WorkStep
      BY <2>1, TipHonest, RestHonest, FailbackHonest, TemplateHonest, SessionHonest,
         IpcAnswerHonest, RetiresHonest, IpcTipHonest, IpcHeaderHonest, Zenon DEF WorkStep
    <2> QED BY <1>2, <2>1, ChangeHonest, AdvanceHonest, OtherHonest, StatusHonest, RestHonest,
               LoopHonest, RetiresHonest, Zenon DEF Next
  <1> QED BY <1>1, <1>2, Zenon

\* A call gives up on all endpoints only when none of them could be reached from
\* its beginning to its end, however many there are and whoever moves the current
\* endpoint meanwhile (call_payload, getblocktemplate_parsed).
THEOREM ExhaustedTheorem == Spec => []ExhaustedMeansNoneLeft
  <1>1. Inv => ExhaustedMeansNoneLeft
    BY Zenon DEF Inv, Honest, ExhaustedMeansNoneLeft
  <1> QED BY <1>1, InitHonest, NextHonest, PTL DEF Spec
=============================================================================
