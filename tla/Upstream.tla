------------------------------ MODULE Upstream ------------------------------
(***************************************************************************)
(* Where the pool's work comes from: the RPC client over several bitcoind  *)
(* endpoints with its failover and failback (bitcoin/rpc_client.cpp), the  *)
(* IPC session to one node (bitcoin/capnp_mining_client.cpp) and the work  *)
(* source that prefers the second and checks it against the first          *)
(* (bitcoin/work_source_ipc.cpp).                                          *)
(*                                                                         *)
(* The work thread, the status thread and a thread that makes other calls  *)
(* share the index of the current endpoint.  Every request to a node is a  *)
(* step of its own: nodes fail, recover and advance between requests.  A   *)
(* block is its height on one chain; a node that lags has a lower tip.     *)
(***************************************************************************)
EXTENDS Integers, FiniteSets

CONSTANTS
  Setups,     \* configurations: number of RPC endpoints, and whether IPC is used
  MaxTip,     \* bound: blocks 1..MaxTip
  MaxFlaps,   \* bound: how often a node changes its mode
  Modes,      \* what may become of a node: "ok", "down" or "error"
  Encodes,    \* the IPC node puts the height into the coinbase lock time
  Ipc,        \* the node the IPC socket belongs to
  None

Callers == {"work", "other"}

ASSUME UpstreamAssumption ==
  /\ Setups \subseteq [count : Nat \ {0}, ipc : BOOLEAN]
  /\ MaxTip \in Nat \ {0} /\ MaxFlaps \in Nat
  /\ Modes \subseteq {"ok", "down", "error"} /\ Encodes \in BOOLEAN
  /\ None \notin Int /\ Ipc \notin Int

VARIABLES
  setup,       \* the configuration
  mode,        \* per node: answers, cannot be reached or used, or reports an error
  tip,         \* per node: its active tip
  flaps,       \* changes of mode so far
  current,     \* current_
  armed,       \* failback_expected_tip_
  job,         \* parent of the pool's current job, 0 before the first
  failing,     \* refresh_failing
  caller,      \* per thread with call_payload or getblocktemplate_parsed under way
  status,      \* the status thread: the tip it probes the primary for
  ipcActive,   \* ipc_active_
  loop,        \* the IPC loop thread
  session,     \* what the loop has published: executor, mining, session_done
  stop         \* how far interrupt() has come

vars == <<setup, mode, tip, flaps, current, armed, job, failing, caller, status,
          ipcActive, loop, session, stop>>
nodes == <<setup, mode, tip, flaps>>
ipc == <<loop, session, stop>>

\* The RPC endpoints, 0 is the primary, and the node behind the IPC socket.
Endpoints == 0..(setup.count - 1)
Nodes == Endpoints \cup (IF setup.ipc THEN {Ipc} ELSE {})

\* reached: the endpoints that have answered ever since the call began.
Resting == [at |-> "rest", start |-> 0, offset |-> 0, expected |-> 0,
            parent |-> 0, height |-> 0, executor |-> 0, reached |-> {}]
\* executor numbers the sessions, 0 is none; alive: the node still knows it.
NoSession == [executor |-> 0, connected |-> FALSE, mining |-> FALSE,
              done |-> FALSE, alive |-> FALSE]

Init ==
  /\ setup \in Setups
  /\ mode = [n \in Nodes |-> "ok"] /\ flaps = 0
  /\ tip = [n \in Nodes |-> 1]
  /\ current = 0 /\ armed = None
  /\ job = 0 /\ failing = FALSE
  /\ caller = [c \in Callers |-> Resting]
  /\ status = None
  /\ ipcActive = FALSE
  /\ loop = [at |-> IF setup.ipc THEN "connect" ELSE "ended", next |-> 1]
  /\ session = NoSession
  /\ stop = [at |-> "no", executor |-> 0]

------------------------------------------------------------------------------
\* The nodes (external)

\* A call under way forgets the endpoints that stopped answering.
Change(n, m) ==
  /\ flaps < MaxFlaps /\ mode[n] /= m
  /\ mode' = [mode EXCEPT ![n] = m] /\ flaps' = flaps + 1
  /\ caller' = [c \in Callers |->
                 [caller[c] EXCEPT !.reached = IF m = "down" THEN @ \ {n} ELSE @]]
  /\ session' = [session EXCEPT !.alive = @ /\ n /= Ipc]
  /\ UNCHANGED <<setup, tip, current, armed, job, failing, status, ipcActive, loop, stop>>

Advance(n) ==
  /\ tip[n] < MaxTip
  /\ tip' = [tip EXCEPT ![n] = @ + 1]
  /\ UNCHANGED <<setup, mode, flaps, current, armed, job, failing, caller, status,
                 ipcActive, loop, session, stop>>

\* call_one and fetch_template_from: an unreachable node and one that is not
\* ready (endpoint_unavailable) are alike.  A header is answered by its
\* confirmations, an unknown one by an error.
Answer(e, kind, arg) ==
  LET known == kind = "header" => arg <= tip[e] IN
  [is |-> IF mode[e] = "ok" /\ ~known THEN "error" ELSE mode[e],
   value |-> IF kind = "header" THEN tip[e] - arg + 1 ELSE tip[e]]

------------------------------------------------------------------------------
\* The RPC client

\* A call starts at the current endpoint.
Begin(rec, at) ==
  [rec EXCEPT !.at = at, !.start = current, !.offset = 0,
              !.reached = {e \in Endpoints : mode[e] /= "down"}]

\* Fault: the index is read again for every attempt.
IndexNow(rec) == (current + rec.offset) % setup.count

Index(rec) == (rec.start + rec.offset) % setup.count

\* The endpoint that answered becomes the current one, unless another thread
\* moved the index since the call began.
Sticky(rec) ==
  IF Index(rec) /= rec.start /\ current = rec.start THEN Index(rec) ELSE current

\* One attempt of call_payload or getblocktemplate_parsed: the next endpoint is
\* tried only when this one is unavailable.
Attempt(rec, kind, arg) ==
  LET answer == Answer(Index(rec), kind, arg) IN
  [outcome |-> CASE answer.is = "ok" -> "ok"
                 [] answer.is = "error" -> "thrown"
                 [] answer.is = "down" /\ rec.offset + 1 = setup.count -> "exhausted"
                 [] OTHER -> "retry",
   value |-> answer.value,
   current |-> IF answer.is = "ok" THEN Sticky(rec) ELSE current]

\* What a thread does after an attempt that gave no answer.
Unanswered(rec, outcome) ==
  IF outcome = "retry" THEN [rec EXCEPT !.offset = @ + 1]
  ELSE [rec EXCEPT !.at = outcome]

\* Any other call: getblockheader of the ZMQ thread, validateaddress of a worker.
OtherCall ==
  /\ caller["other"].at = "rest"
  /\ caller' = [caller EXCEPT !["other"] = Begin(Resting, "call")]
  /\ UNCHANGED <<nodes, current, armed, job, failing, status, ipcActive, ipc>>

OtherAttempt ==
  LET rec == caller["other"]
      a == Attempt(rec, "other", 0) IN
  /\ rec.at = "call"
  /\ current' = a.current
  /\ caller' = [caller EXCEPT !["other"] = IF a.outcome \in {"ok", "thrown"} THEN Resting
                                           ELSE Unanswered(rec, a.outcome)]
  /\ UNCHANGED <<nodes, armed, job, failing, status, ipcActive, ipc>>

\* The caller sees the exception.
OtherFails ==
  /\ caller["other"].at = "exhausted"
  /\ caller' = [caller EXCEPT !["other"] = Resting]
  /\ UNCHANGED <<nodes, current, armed, job, failing, status, ipcActive, ipc>>

\* maybe_failback, on the status thread with the tip of the pool's work.
StatusProbe ==
  /\ status = None /\ current /= 0 /\ job /= 0
  /\ status' = job
  /\ UNCHANGED <<nodes, current, armed, job, failing, caller, ipcActive, ipc>>

StatusAnswer ==
  /\ status /= None
  /\ armed' = IF Answer(0, "tip", 0) = [is |-> "ok", value |-> status]
              THEN status ELSE armed
  /\ status' = None
  /\ UNCHANGED <<nodes, current, job, failing, caller, ipcActive, ipc>>

------------------------------------------------------------------------------
\* The work thread

work == caller["work"]
Work(rec) == caller' = [caller EXCEPT !["work"] = rec]
Stopping == stop.at /= "no"

\* fetch_template of the configured source.
Source == IF setup.ipc THEN "take" ELSE "rpc"

\* build_and_broadcast: a template below the current job is ignored.
Publish(parent) ==
  /\ job' = IF parent < job THEN job ELSE parent
  /\ failing' = FALSE
  /\ Work(Resting)

\* refresh_work fetches when a rebroadcast is due, after a failure and before
\* the first job.
WorkFetches ==
  /\ work.at = "rest"
  /\ Work([Resting EXCEPT !.at = Source])
  /\ UNCHANGED <<nodes, current, armed, job, failing, status, ipcActive, ipc>>

\* Otherwise it asks for the tip first.
WorkAsksTip ==
  /\ work.at = "rest" /\ ~failing /\ job /= 0
  /\ Work(Begin(Resting, "probe"))
  /\ UNCHANGED <<nodes, current, armed, job, failing, status, ipcActive, ipc>>

WorkTip ==
  LET a == Attempt(work, "tip", 0) IN
  /\ work.at = "probe"
  /\ current' = a.current
  /\ Work(CASE a.outcome /= "ok" -> Unanswered(work, a.outcome)
            [] a.outcome = "ok" /\ a.value = job -> Resting
            [] OTHER -> [Resting EXCEPT !.at = Source])
  /\ UNCHANGED <<nodes, armed, job, failing, status, ipcActive, ipc>>

WorkFails ==
  /\ work.at \in {"thrown", "exhausted"}
  /\ failing' = TRUE
  /\ Work(Resting)
  /\ UNCHANGED <<nodes, current, armed, job, status, ipcActive, ipc>>

\* fetch_template of the IPC source refuses when it is stopping.
WorkRefused ==
  /\ work.at = "take" /\ Stopping
  /\ Work([work EXCEPT !.at = "thrown"])
  /\ UNCHANGED <<nodes, current, armed, job, failing, status, ipcActive, ipc>>

\* After try_fetch_failback_template the IPC source looks at its session, and
\* getblocktemplate_parsed starts at the current endpoint.
Onward(at) ==
  IF at \in {"take", "failback"} THEN [Resting EXCEPT !.at = "source"]
  ELSE Begin(Resting, "fetch")

\* try_fetch_failback_template takes the armed tip, whatever comes of it.
TakeFailback ==
  /\ work.at = "rpc" \/ (work.at = "take" /\ ~Stopping)
  /\ armed' = None
  /\ Work(IF armed /= None /\ current /= 0
          THEN [Resting EXCEPT !.at = IF work.at = "take" THEN "failback" ELSE "rpcFailback",
                               !.expected = armed]
          ELSE Onward(work.at))
  /\ UNCHANGED <<nodes, current, job, failing, status, ipcActive, ipc>>

\* Fault: the primary's template is used without making it current.
FailbackOnce ==
  LET answer == Answer(0, "template", 0) IN
  /\ work.at \in {"failback", "rpcFailback"}
  /\ IF answer = [is |-> "ok", value |-> work.expected]
     THEN Publish(answer.value)
     ELSE Work(Onward(work.at)) /\ UNCHANGED <<job, failing>>
  /\ UNCHANGED <<nodes, current, armed, status, ipcActive, ipc>>

\* The primary is current again when its template follows the tip it was tested
\* with.
Failback ==
  LET answer == Answer(0, "template", 0) IN
  /\ work.at \in {"failback", "rpcFailback"}
  /\ IF answer = [is |-> "ok", value |-> work.expected]
     THEN current' = 0 /\ Publish(answer.value)
     ELSE Work(Onward(work.at)) /\ UNCHANGED <<current, job, failing>>
  /\ UNCHANGED <<nodes, armed, status, ipcActive, ipc>>

WorkTemplate ==
  LET a == Attempt(work, "template", 0) IN
  /\ work.at = "fetch"
  /\ current' = a.current
  /\ IF a.outcome = "ok" THEN Publish(a.value)
     ELSE Work(Unanswered(work, a.outcome)) /\ UNCHANGED <<job, failing>>
  /\ UNCHANGED <<nodes, armed, status, ipcActive, ipc>>

------------------------------------------------------------------------------
\* Templates over IPC

WorkSource ==
  /\ work.at = "source"
  /\ IF session.connected /\ ~Stopping
     THEN Work([Resting EXCEPT !.at = "snapshot"]) /\ UNCHANGED ipcActive
     ELSE Work([Resting EXCEPT !.at = "rpc"]) /\ ipcActive' = FALSE
  /\ UNCHANGED <<nodes, current, armed, job, failing, status, ipc>>

\* create_block holds on to the executor of the session; it may be gone.
IpcSnapshot ==
  /\ work.at = "snapshot"
  /\ Work([Resting EXCEPT !.at = IF session.executor = 0 THEN "ipcFailed" ELSE "ipc",
                          !.executor = session.executor])
  /\ UNCHANGED <<nodes, current, armed, job, failing, status, ipcActive, ipc>>

\* The requests of create_block run on the loop of that session.  The height is
\* what the lock time says; validate_template refuses the rest.
IpcAnswer ==
  LET answers == /\ session.executor = work.executor
                 /\ session.mining /\ session.alive /\ mode[Ipc] = "ok" IN
  /\ work.at = "ipc"
  /\ Work(IF answers
          THEN [Begin(Resting, "ipcTip") EXCEPT
                  !.parent = tip[Ipc], !.height = IF Encodes THEN tip[Ipc] + 1 ELSE 1]
          ELSE [work EXCEPT !.at = "retire"])
  /\ UNCHANGED <<nodes, current, armed, job, failing, status, ipcActive, ipc>>

\* Fault: the session is disconnected but its loop is not told.
RetiredQuietly(executor) ==
  IF session.executor = executor
  THEN [session EXCEPT !.connected = FALSE, !.mining = FALSE] ELSE session

\* retire_session, after cancel_active_call: only the session of the call is
\* disconnected, and its loop is told by session_done.
Retired(executor) ==
  IF session.executor = executor
  THEN [session EXCEPT !.connected = FALSE, !.mining = FALSE, !.done = TRUE]
  ELSE session

WorkRetires ==
  /\ work.at = "retire"
  /\ session' = Retired(work.executor)
  /\ Work([Resting EXCEPT !.at = "ipcFailed"])
  /\ UNCHANGED <<nodes, current, armed, job, failing, status, ipcActive, loop, stop>>

WorkIpcFails ==
  /\ work.at = "ipcFailed"
  /\ ipcActive' = FALSE
  /\ Work([Resting EXCEPT !.at = IF Stopping THEN "thrown" ELSE "rpc"])
  /\ UNCHANGED <<nodes, current, armed, job, failing, status, ipc>>

\* The RPC side must have the template's parent as its tip ...
WorkIpcTip ==
  LET a == Attempt(work, "tip", 0) IN
  /\ work.at = "ipcTip"
  /\ current' = a.current
  /\ Work(CASE a.outcome /= "ok" -> Unanswered(work, a.outcome)
            [] a.outcome = "ok" /\ a.value = work.parent ->
                 [Begin(Resting, "ipcHeader") EXCEPT !.parent = work.parent,
                    !.height = work.height, !.expected = a.value]
            [] OTHER -> [Resting EXCEPT !.at = "rpc"])
  /\ UNCHANGED <<nodes, armed, job, failing, status, ipcActive, ipc>>

\* ... still have it as its tip when asked for the header, and agree on the
\* height.
WorkIpcHeader ==
  LET a == Attempt(work, "header", work.expected)
      follows == work.height - 1 = work.expected IN
  /\ work.at = "ipcHeader"
  /\ current' = a.current
  /\ \/ /\ a.outcome /= "ok"
        /\ Work(Unanswered(work, a.outcome))
        /\ UNCHANGED <<job, failing, ipcActive>>
     \/ /\ a.outcome = "ok" /\ (a.value /= 1 \/ ~follows)
        /\ ipcActive' = (ipcActive /\ a.value /= 1)
        /\ Work([Resting EXCEPT !.at = "rpc"])
        /\ UNCHANGED <<job, failing>>
     \/ /\ a.outcome = "ok" /\ a.value = 1 /\ follows
        /\ ipcActive' = TRUE
        /\ Publish(work.parent)
  /\ UNCHANGED <<nodes, armed, status, ipc>>

------------------------------------------------------------------------------
\* The IPC loop thread and interrupt()

\* The bootstrap calls, each with a deadline.
LoopConnect ==
  /\ loop.at = "connect"
  /\ loop' = [loop EXCEPT !.at = CASE Stopping -> "ended"
                                   [] ~Stopping /\ mode[Ipc] = "ok" -> "publish"
                                   [] OTHER -> "retry"]
  /\ session' = [NoSession EXCEPT !.alive = mode[Ipc] = "ok"]
  /\ UNCHANGED <<nodes, current, armed, job, failing, caller, status, ipcActive, stop>>

\* Fault: the session is published although the client is stopping.
LoopPublishAnyway ==
  /\ loop.at = "publish"
  /\ session' = [session EXCEPT !.executor = loop.next, !.connected = TRUE, !.mining = TRUE]
  /\ loop' = [at |-> "serve", next |-> loop.next + 1]
  /\ UNCHANGED <<nodes, current, armed, job, failing, caller, status, ipcActive, stop>>

\* publish_executor refuses once the client is stopping.
LoopPublish ==
  /\ loop.at = "publish"
  /\ IF Stopping
     THEN session' = NoSession /\ loop' = [loop EXCEPT !.at = "ended"]
     ELSE /\ session' = [session EXCEPT !.executor = loop.next,
                                        !.connected = TRUE, !.mining = TRUE]
          /\ loop' = [at |-> "serve", next |-> loop.next + 1]
  /\ UNCHANGED <<nodes, current, armed, job, failing, caller, status, ipcActive, stop>>

\* The loop serves its session until session_done, and waits before the next.
LoopServe ==
  /\ loop.at = "serve" /\ session.done
  /\ session' = NoSession
  /\ loop' = [loop EXCEPT !.at = IF Stopping THEN "ended" ELSE "retry"]
  /\ UNCHANGED <<nodes, current, armed, job, failing, caller, status, ipcActive, stop>>

LoopRetry ==
  /\ loop.at = "retry"
  /\ loop' = [loop EXCEPT !.at = IF Stopping THEN "ended" ELSE "connect"]
  /\ UNCHANGED <<nodes, current, armed, job, failing, caller, status, ipcActive, session, stop>>

\* The stop callback: both stopping flags, then the session there is by then.
Interrupt ==
  /\ stop.at = "no" /\ setup.ipc
  /\ stop' = [stop EXCEPT !.at = "flagged"]
  /\ ipcActive' = FALSE
  /\ UNCHANGED <<nodes, current, armed, job, failing, caller, status, loop, session>>

InterruptRetires ==
  /\ \/ /\ stop.at = "flagged"
        /\ stop' = [at |-> IF session.executor = 0 THEN "done" ELSE "retire",
                    executor |-> session.executor]
        /\ UNCHANGED session
     \/ /\ stop.at = "retire"
        /\ stop' = [stop EXCEPT !.at = "done"]
        /\ session' = Retired(stop.executor)
  /\ UNCHANGED <<nodes, current, armed, job, failing, caller, status, ipcActive, loop>>

------------------------------------------------------------------------------

WorkStep ==
  \/ WorkTip \/ WorkFails \/ WorkRefused \/ TakeFailback \/ Failback \/ WorkTemplate
  \/ WorkSource \/ IpcSnapshot \/ IpcAnswer \/ WorkRetires \/ WorkIpcFails
  \/ WorkIpcTip \/ WorkIpcHeader
LoopStep == LoopConnect \/ LoopPublish \/ LoopServe \/ LoopRetry

Next ==
  \/ \E n \in Nodes, m \in Modes : Change(n, m)
  \/ \E n \in Nodes : Advance(n)
  \/ OtherCall \/ OtherAttempt \/ OtherFails
  \/ StatusProbe \/ StatusAnswer
  \/ WorkFetches \/ WorkAsksTip \/ WorkStep
  \/ LoopStep
  \/ Interrupt \/ InterruptRetires

Spec == Init /\ [][Next]_vars

\* Calls have deadlines, so a thread inside one goes on.  The status thread and
\* the work thread run on timers, and the rebroadcast becomes due again and
\* again however often the tip is asked for.
Fairness ==
  /\ WF_vars(WorkStep) /\ SF_vars(WorkFetches)
  /\ WF_vars(OtherAttempt \/ OtherFails)
  /\ SF_vars(StatusProbe) /\ WF_vars(StatusAnswer)
  /\ WF_vars(LoopStep) /\ WF_vars(InterruptRetires)

FairSpec == Spec /\ Fairness

------------------------------------------------------------------------------
\* Properties

\* A call gives up on all endpoints only when none of them could be reached from
\* its beginning to its end, however the other threads move the current
\* endpoint meanwhile (call_payload, getblocktemplate_parsed).
ExhaustedMeansNoneLeft ==
  \A c \in Callers : caller[c].at = "exhausted" => caller[c].reached = {}

\* Once the primary stays up and level with the other endpoints, it becomes and
\* stays the current one, whatever calls were under way when it came back
\* (maybe_failback, try_fetch_failback_template).
ReturnsToPrimary ==
  <>[](/\ ~Stopping /\ mode[0] = "ok" /\ \A e \in Endpoints : mode[e] /= "error"
       /\ \A n \in Nodes : tip[n] = tip[0])
    => <>[](current = 0)

\* Once the IPC node stays up, and level with endpoints that answer, templates
\* come over IPC again: a session that broke is noticed, retired and replaced
\* (retire_session, the connection loop).
IpcResumes ==
  <>[](/\ ~Stopping /\ setup.ipc /\ Encodes
       /\ \A n \in Nodes : mode[n] = "ok" /\ tip[n] = tip[0])
    => <>[]ipcActive

\* interrupt() ends the connection loop wherever it is, so that the destructor's
\* join returns (CapnpMiningClient::interrupt, publish_executor).
LoopStops ==
  Stopping ~> loop.at = "ended"
==============================================================================
