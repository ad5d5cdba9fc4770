--------------------------- MODULE Registry_proof ---------------------------
(***************************************************************************)
(* The safety properties of Registry, for any addresses, names, sessions   *)
(* and setups, any limits, grace and retention, and any number of runs.    *)
(***************************************************************************)
EXTENDS Registry, FiniteSetTheorems, TLAPS

\* The last shares of an address, as the status thread and the files have them.
Shares == [Names -> 0..MaxNow \cup {None}]

Types ==
  /\ setup \in Setups /\ now \in 1..MaxNow /\ nameCap \in Nat
  /\ row \in [Addresses -> [Names -> Rows \cup {None}]]
  /\ session \in [Sessions -> [address : Addresses, name : Names, holds : BOOLEAN]
                                \cup {None}]
  /\ file \in [Addresses -> [rows : Shares, mtime : 1..MaxNow] \cup {None}]
  /\ status \in [at : {"asleep", "snapshot", "files"},
                 rows : [Addresses -> Shares], todo : SUBSET Addresses]
  /\ evicted \subseteq Addresses \X Names

\* The share t of a row's copy is no later than what the row was last active.
Older(t, a, w) ==
  t /= None => t <= now /\ (row[a][w] /= None => t <= row[a][w].activity)

\* A row is active until its last share at least, and no copy of a row, the one
\* of the status thread or the one on disk, is of a later share.
Aged ==
  \A a \in Addresses, w \in Names :
    /\ row[a][w] /= None => /\ row[a][w].share <= row[a][w].activity
                            /\ row[a][w].activity <= now
    /\ Older(status.rows[a][w], a, w)
    /\ file[a] /= None => Older(file[a].rows[w], a, w)

\* Of an evicted row the status thread has no copy, and one on disk is too old to
\* be read back.
Gone ==
  /\ EvictedStaysGone
  /\ status.at /= "files" => \A a \in Addresses, w \in Names : status.rows[a][w] = None
  /\ \A p \in evicted :
       /\ Retention > 0
       /\ status.rows[p[1]][p[2]] = None
       /\ file[p[1]] /= None /\ file[p[1]].rows[p[2]] /= None
            => file[p[1]].rows[p[2]] < now - Retention

\* The names learnt cover the files, within the limit.
Learnt ==
  known \subseteq Addresses /\ Files \subseteq known /\ Cardinality(known) <= UserCap

\* DirRegistry::known is right once it was learnt.
Counted ==
  /\ LimitsHold
  /\ known /= None \/ status.at = "files" => Learnt

\* The inductive invariant.
RegistryInv == Types /\ ConnectedRowsKept /\ Aged /\ Gone /\ Counted
------------------------------------------------------------------------------
(* Facts about the operators.                                               *)

\* Sets of addresses and of names are finite.
LEMMA Finite ==
  /\ \A S \in SUBSET Addresses : IsFiniteSet(S) /\ Cardinality(S) \in Nat
  /\ \A S \in SUBSET Names : IsFiniteSet(S) /\ Cardinality(S) \in Nat
  BY RegistryAssumption, FS_Subset, FS_CardinalityType, Zenon

\* A part of a finite set has no more elements than the set.
LEMMA Smaller ==
  ASSUME NEW S, IsFiniteSet(S), NEW T, T \subseteq S, NEW n \in Nat, Cardinality(S) <= n
  PROVE  Cardinality(T) <= n
  <1>1. Cardinality(T) <= Cardinality(S) /\ IsFiniteSet(T)
    BY FS_Subset, Zenon
  <1>2. Cardinality(T) \in Nat /\ Cardinality(S) \in Nat
    BY <1>1, FS_CardinalityType, Zenon
  <1> QED
    BY <1>1, <1>2

\* One more element makes a finite set larger by one: what try_emplace of a
\* new key does to the count that is compared with the limit.
LEMMA OneMore ==
  ASSUME NEW S, IsFiniteSet(S), NEW x, NEW n \in Nat, Cardinality(S) < n
  PROVE  Cardinality(S \cup {x}) <= n
  <1>1. Cardinality(S) \in Nat
    BY FS_CardinalityType, Zenon
  <1>2. Cardinality(S \cup {x}) = IF x \in S THEN Cardinality(S) ELSE Cardinality(S) + 1
    BY FS_AddElement, Zenon
  <1> QED
    BY <1>1, <1>2

\* Latest is the last of the times: recover_user_stats keeps the later share when two
\* rows fold into one.
LEMMA LatestIsLast ==
  ASSUME NEW times \in SUBSET (0..MaxNow), times /= {}
  PROVE  Latest(times) \in times /\ \A u \in times : u <= Latest(times)
  <1> DEFINE T == {n \in Nat : MaxNow - n \in times}
  <1>1. MaxNow \in Nat
    BY RegistryAssumption, Zenon
  <1>2. PICK t \in times : TRUE
    BY Zenon
  <1>3. MaxNow - t \in Nat /\ MaxNow - (MaxNow - t) = t
    BY <1>1, <1>2
  <1>4. T /= {} /\ T \subseteq Nat
    BY <1>2, <1>3, Zenon
  <1>5. PICK n \in T : \A m \in T : ~(<<m, n>> \in OpToRel(<, Nat))
    <2> HIDE DEF T
    <2> QED
      BY <1>4, WFMin, NatLessThanWellFounded, Zenon
  <1>6. \A m \in T : ~(m < n)
    BY <1>5, Zenon DEF OpToRel
  <1>7. ASSUME NEW u \in times
        PROVE  u <= MaxNow - n
    <2>1. MaxNow - u \in Nat /\ MaxNow - (MaxNow - u) = u
      BY <1>1
    <2>2. MaxNow - u \in T
      BY <2>1, Zenon
    <2>3. ~(MaxNow - u < n)
      BY <1>6, <2>2, Zenon
    <2>4. u \in Int /\ n \in Int
      BY <1>1
    <2> QED
      BY <1>1, <2>3, <2>4
  <1>8. MaxNow - n \in times
    BY Zenon
  <1>9. \E l \in times : \A u \in times : u <= l
    BY <1>7, <1>8, Zenon
  <1> QED
    BY <1>9, Zenon DEF Latest

\* There is room for a row: worker_entry and resolve_worker_key.
Allowed(a, key) ==
  /\ a \in Present \/ Cardinality(Present) < UserCap
  /\ row[a][key] /= None \/ key = Bare \/ nameCap = 0
       \/ Cardinality(Known(row[a]) \ {Bare}) < nameCap

\* A row is made or brought up to date.
Enters(a, key) ==
  /\ Allowed(a, key)
  /\ \E r \in Rows : /\ r.activity = now /\ r.share <= now
                     /\ row' = [row EXCEPT ![a][key] = r]
  /\ evicted' = evicted \ {<<a, key>>}

\* Whatever a request does to the registry.
RowStep ==
  /\ UNCHANGED <<setup, now, runs, nameCap, file, known, status>>
  /\ \/ UNCHANGED <<row, evicted>>
     \/ \E a \in Addresses, key \in Names : Enters(a, key)

\* The key worker_entry resolves a name to, if any, has room.
LEMMA EntryHasRoom ==
  ASSUME Types, NEW a \in Addresses, NEW w \in Names, WorkerEntry(a, w) /= None
  PROVE  WorkerEntry(a, w) \in Names /\ Allowed(a, WorkerEntry(a, w))
  <1> DEFINE named == Known(row[a]) \ {Bare}
  <1>1. Cardinality(named) \in Nat /\ Cardinality(Present) \in Nat
    BY Finite, Zenon DEF Known, Present
  <1>2. nameCap \in Nat /\ UserCap \in Nat /\ Bare \in Names
    BY RegistryAssumption, Zenon DEF Types
  <1>3. /\ a \in Present \/ ~(Cardinality(Present) >= UserCap)
        /\ WorkerEntry(a, w) = ResolveWorkerKey(row[a], w)
    BY Zenon DEF WorkerEntry
  <1>4. a \in Present \/ Cardinality(Present) < UserCap
    BY <1>1, <1>2, <1>3
  <1> DEFINE key == ResolveWorkerKey(row[a], w)
  <1>5. /\ key \in {Bare, w}
        /\ key = Bare \/ row[a][w] /= None \/ ~(nameCap > 0)
             \/ ~(Cardinality(named) >= nameCap)
    BY Zenon DEF ResolveWorkerKey
  <1> HIDE DEF named, key
  <1>6. key = Bare \/ row[a][w] /= None \/ nameCap = 0 \/ Cardinality(named) < nameCap
    BY <1>1, <1>2, <1>5
  <1>7. key = Bare \/ row[a][key] /= None \/ nameCap = 0 \/ Cardinality(named) < nameCap
    BY <1>5, <1>6, Zenon
  <1> QED
    BY <1>2, <1>3, <1>4, <1>5, <1>7, Zenon DEF Allowed, key, named

\* What is done to a row gives a row that is active now.
LEMMA RowIsNow ==
  ASSUME Types, Aged, NEW a \in Addresses, NEW key \in Names,
         With(a, key, Touched) \/ With(a, key, Accepted) \/ With(a, key, Rejected)
  PROVE  \E r \in Rows : /\ r.activity = now /\ r.share <= now
                         /\ row' = [row EXCEPT ![a][key] = r]
  <1> DEFINE q == IF row[a][key] = None THEN NewRow(0) ELSE row[a][key]
  <1>1. now \in 0..MaxNow /\ now \in Nat
    BY RegistryAssumption DEF Types
  <1>2. row[a][key] \in Rows \cup {None}
    BY DEF Types
  <1>3. NewRow(0) \in Rows /\ NewRow(0).share <= now
    BY <1>1, RegistryAssumption DEF NewRow, Rows
  <1>4. row[a][key] /= None => row[a][key].share <= now
    <2>1. row[a][key] /= None => /\ row[a][key].share <= row[a][key].activity
                                 /\ row[a][key].activity <= now
      BY Zenon DEF Aged
    <2>2. row[a][key] /= None => row[a][key].share \in Int /\ row[a][key].activity \in Int
      BY <1>2, RegistryAssumption DEF Rows
    <2> QED
      BY <1>1, <2>1, <2>2
  <1>5. q \in Rows /\ q.share <= now
    BY <1>2, <1>3, <1>4, Zenon
  <1> HIDE DEF q
  <1>6. CASE With(a, key, Touched)
    <2>1. row' = [row EXCEPT ![a][key] = Touched(q)]
      BY <1>6, Zenon DEF With, q, Types
    <2>2. Touched(q) \in Rows /\ Touched(q).activity = now /\ Touched(q).share <= now
      BY <1>1, <1>5, Zenon DEF Touched, Rows
    <2> QED
      BY <2>1, <2>2, Zenon
  <1>7. CASE With(a, key, Accepted)
    <2>1. row' = [row EXCEPT ![a][key] = Accepted(q)]
      BY <1>7, Zenon DEF With, q, Types, Accepted
    <2>2. Accepted(q) \in Rows
      BY <1>1, Zenon DEF Accepted, Rows
    <2>3. Accepted(q).activity = now /\ Accepted(q).share = now
      BY Zenon DEF Accepted
    <2>4. now <= now
      BY <1>1
    <2> QED
      BY <2>1, <2>2, <2>3, <2>4, Zenon
  <1>8. CASE With(a, key, Rejected)
    <2>1. row' = [row EXCEPT ![a][key] = Rejected(q)]
      BY <1>8, Zenon DEF With, q, Types
    <2>2. Rejected(q) \in Rows /\ Rejected(q).activity = now /\ Rejected(q).share <= now
      BY <1>1, <1>5, Zenon DEF Rejected, Rows
    <2> QED
      BY <2>1, <2>2, Zenon
  <1> QED
    BY <1>6, <1>7, <1>8, Zenon

\* The rows after one was entered.
LEMMA EntersOne ==
  ASSUME Types, NEW a \in Addresses, NEW key \in Names, Enters(a, key)
  PROVE  /\ row' \in [Addresses -> [Names -> Rows \cup {None}]]
         /\ row'[a][key] \in Rows /\ row'[a][key] /= None
         /\ row'[a][key].activity = now /\ row'[a][key].share <= now
         /\ \A b \in Addresses, w \in Names :
              b /= a \/ w /= key => row'[b][w] = row[b][w]
  <1>1. PICK r \in Rows : /\ r.activity = now /\ r.share <= now
                          /\ row' = [row EXCEPT ![a][key] = r]
    BY Zenon DEF Enters
  <1>2. row \in [Addresses -> [Names -> Rows \cup {None}]]
    BY Zenon DEF Types
  <1>3. row' \in [Addresses -> [Names -> Rows \cup {None}]]
    BY <1>1, <1>2, Zenon
  <1>4. row'[a][key] = r
    BY <1>1, <1>2, Zenon
  <1>5. r /= None
    BY RegistryAssumption, Zenon
  <1>6. \A b \in Addresses, w \in Names : b /= a \/ w /= key => row'[b][w] = row[b][w]
    BY <1>1, <1>2, Zenon
  <1> QED
    BY <1>1, <1>3, <1>4, <1>5, <1>6, Zenon

\* A request never loses a row.
LEMMA RowStepKeeps ==
  ASSUME Types, RowStep, NEW b \in Addresses, NEW w \in Names, row[b][w] /= None
  PROVE  row'[b][w] /= None
  <1>1. CASE row' = row
    BY <1>1, Zenon
  <1>2. ASSUME NEW a \in Addresses, NEW key \in Names, Enters(a, key)
        PROVE  row'[b][w] /= None
    BY <1>2, EntersOne, Zenon
  <1> QED
    BY <1>1, <1>2, Zenon DEF RowStep

\* attach_worker enters at most one row, and a session that holds a row finds it.
LEMMA AttachEnters ==
  ASSUME Types, Aged, ConnectedRowsKept, NEW s \in Sessions,
         NEW a \in Addresses, NEW w \in Names, Attach(s, a, w)
  PROVE  /\ RowStep /\ ConnectedRowsKept'
         /\ session' \in [Sessions -> [address : Addresses, name : Names, holds : BOOLEAN]
                                        \cup {None}]
  <1> DEFINE key == WorkerEntry(a, w)
             me == IF key = None THEN Worker(a, w, FALSE) ELSE Worker(a, key, TRUE)
  <1>0. /\ session' = [session EXCEPT ![s] = me]
        /\ IF key = None THEN UNCHANGED <<row, evicted>>
           ELSE With(a, key, Touched) /\ evicted' = evicted \ {<<a, key>>}
        /\ UNCHANGED <<setup, now, runs, nameCap, file, known, status>>
    BY Zenon DEF Attach
  <1>1. key /= None => key \in Names /\ Allowed(a, key)
    BY EntryHasRoom, Zenon
  <1> HIDE DEF key
  <1>2. key /= None => Enters(a, key)
    <2> SUFFICES ASSUME key /= None PROVE Enters(a, key)
      BY Zenon
    <2>1. With(a, key, Touched) /\ evicted' = evicted \ {<<a, key>>}
      BY <1>0, Zenon
    <2> QED
      BY <1>1, <2>1, RowIsNow, Zenon DEF Enters
  <1>3. RowStep
    BY <1>0, <1>1, <1>2, Zenon DEF RowStep
  <1>4. session \in [Sessions -> [address : Addresses, name : Names, holds : BOOLEAN]
                                   \cup {None}]
    BY Zenon DEF Types
  <1>5. /\ me \in [address : Addresses, name : Names, holds : BOOLEAN]
        /\ me.address = a /\ me.name \in Names
        /\ me.holds => key /= None /\ me.name = key
    BY <1>1, Zenon DEF Worker
  <1> HIDE DEF me
  <1>6. session' \in [Sessions -> [address : Addresses, name : Names, holds : BOOLEAN]
                                    \cup {None}]
    BY <1>0, <1>4, <1>5, Zenon
  <1>7. me.holds => row'[a][me.name] /= None
    <2>1. key /= None => row'[a][key] /= None
      BY <1>1, <1>2, EntersOne, Zenon
    <2> QED
      BY <1>5, <2>1, Zenon
  <1>8. ASSUME NEW q \in Sessions, session'[q] /= None, session'[q].holds
        PROVE  row'[session'[q].address][session'[q].name] /= None
    <2>1. CASE q = s
      <3>1. session'[q] = me
        BY <1>0, <1>4, <2>1, Zenon
      <3> QED
        BY <1>5, <1>7, <1>8, <3>1, Zenon
    <2>2. CASE q /= s
      <3>1. session'[q] = session[q]
        BY <1>0, <1>4, <2>2, Zenon
      <3>2. session[q].address \in Addresses /\ session[q].name \in Names
        BY <1>4, <1>8, <3>1, Zenon
      <3>3. row[session[q].address][session[q].name] /= None
        BY <1>8, <3>1, Zenon DEF ConnectedRowsKept
      <3> QED
        BY <1>3, <3>1, <3>2, <3>3, RowStepKeeps, Zenon
    <2> QED
      BY <2>1, <2>2, Zenon
  <1>9. ConnectedRowsKept'
    BY <1>8, Zenon DEF ConnectedRowsKept
  <1> QED
    BY <1>3, <1>6, <1>9, Zenon

\* note_accepted_share and note_rejected_share enter at most one row, the one the
\* session holds or the one its name gives.
LEMMA NoteEnters ==
  ASSUME Types, Aged, ConnectedRowsKept, NEW s \in Sessions,
         AcceptShare(s) \/ RejectShare(s)
  PROVE  RowStep /\ session' = session
  <1> DEFINE me == session[s]
             key == IF me.holds THEN me.name ELSE WorkerEntry(me.address, me.name)
  <1>0. /\ me /= None
        /\ IF key = None THEN UNCHANGED <<row, evicted>>
           ELSE /\ With(me.address, key, Accepted) \/ With(me.address, key, Rejected)
                /\ evicted' = evicted \ {<<me.address, key>>}
        /\ UNCHANGED <<setup, now, runs, nameCap, session, file, known, status>>
    BY Zenon DEF AcceptShare, RejectShare, NoteShare
  <1>1. /\ me \in [address : Addresses, name : Names, holds : BOOLEAN]
        /\ me.address \in Addresses /\ me.name \in Names
    BY <1>0, Zenon DEF Types
  <1>2. key /= None => key \in Names /\ Allowed(me.address, key)
    <2>1. CASE me.holds
      <3>1. row[me.address][me.name] /= None
        BY <1>0, <2>1, Zenon DEF ConnectedRowsKept
      <3>2. me.address \in Present
        BY <1>1, <3>1, Zenon DEF Present, Known
      <3> QED
        BY <1>1, <2>1, <3>1, <3>2, Zenon DEF Allowed
    <2>2. CASE ~me.holds
      BY <1>1, <2>2, EntryHasRoom, Zenon
    <2> QED
      BY <2>1, <2>2, Zenon
  <1> HIDE DEF key, me
  <1>3. key /= None => Enters(me.address, key)
    <2> SUFFICES ASSUME key /= None PROVE Enters(me.address, key)
      BY Zenon
    <2>1. /\ With(me.address, key, Accepted) \/ With(me.address, key, Rejected)
          /\ evicted' = evicted \ {<<me.address, key>>}
      BY <1>0, Zenon
    <2> QED
      BY <1>1, <1>2, <2>1, RowIsNow, Zenon DEF Enters
  <1> QED
    BY <1>0, <1>1, <1>2, <1>3, Zenon DEF RowStep

\* The shares a row is recovered from.
Folded(a, own, w) == IF w = Bare THEN Kept(a) \ own ELSE own \cap {w}

\* A recovered row was active when the last share folded into it was found.
LEMMA RecoveredRow ==
  ASSUME Types, NEW a \in Addresses, NEW w \in Names, NEW own, own \subseteq Kept(a)
  PROVE  /\ Folded(a, own, w) = {} => Recovered(a, own, w) = None
         /\ Folded(a, own, w) /= {} =>
              /\ Recovered(a, own, w) \in Rows
              /\ Recovered(a, own, w).share = Recovered(a, own, w).activity
              /\ \E v \in Folded(a, own, w) :
                   Recovered(a, own, w).activity = file[a].rows[v]
              /\ \A v \in Folded(a, own, w) :
                   file[a].rows[v] <= Recovered(a, own, w).activity
  <1> DEFINE folded == Folded(a, own, w)
             times == {file[a].rows[v] : v \in folded}
             r == Recovered(a, own, w)
  <1>1. folded = {} => r = None
    BY Zenon DEF Recovered, Folded
  <1>2. ASSUME folded /= {}
        PROVE  /\ r \in Rows /\ r.share = r.activity
               /\ \E v \in folded : r.activity = file[a].rows[v]
               /\ \A v \in folded : file[a].rows[v] <= r.activity
    <2>1. folded \subseteq Kept(a)
      BY Zenon DEF Folded
    <2>2. ASSUME NEW v \in folded
          PROVE  file[a].rows[v] \in 0..MaxNow
      <3>1. v \in Names /\ file[a] /= None /\ file[a].rows[v] /= None
        BY <2>1, Zenon DEF Kept
      <3>2. file[a] \in [rows : Shares, mtime : 1..MaxNow]
        BY <3>1, Zenon DEF Types
      <3>3. file[a].rows \in Shares
        BY <3>2, Zenon
      <3> QED
        BY <3>1, <3>3, Zenon DEF Shares
    <2> DEFINE t == Latest(times)
    <2>3. r = [share |-> t, activity |-> t, counted |-> TRUE]
      BY <1>2, Zenon DEF Recovered, Folded
    <2> HIDE DEF folded, r
    <2>4. times \in SUBSET (0..MaxNow) /\ times /= {}
      BY <1>2, <2>2, Zenon
    <2>5. t \in times /\ \A u \in times : u <= t
      <3> HIDE DEF times
      <3> QED
        BY <2>4, LatestIsLast, Zenon
    <2> HIDE DEF t
    <2>6. /\ t \in 0..MaxNow
          /\ \E v \in folded : t = file[a].rows[v]
          /\ \A v \in folded : file[a].rows[v] <= t
      BY <2>4, <2>5, Zenon
    <2>7. r \in Rows /\ r.share = t /\ r.activity = t
      BY <2>3, <2>6, Zenon DEF Rows
    <2> QED
      BY <2>6, <2>7, Zenon
  <1> QED
    BY <1>1, <1>2, Zenon

\* What Restart leaves behind.
LEMMA RestartRows ==
  ASSUME Types, Restart
  PROVE  \E own \in [Addresses -> SUBSET (Names \ {Bare})] :
           /\ nameCap' \in setup.caps
           /\ \A a \in Addresses : own[a] \in Own(a, nameCap') /\ own[a] \subseteq Kept(a)
           /\ row' = [a \in Addresses |-> [w \in Names |-> Recovered(a, own[a], w)]]
           /\ evicted' = {p \in evicted : \/ p[2] /= Bare
                                          \/ Kept(p[1]) \subseteq own[p[1]] \cup {Bare}}
  <1>1. PICK cap \in setup.caps, own \in [Addresses -> SUBSET (Names \ {Bare})] :
          /\ \A a \in Addresses : own[a] \in Own(a, cap)
          /\ nameCap' = cap
          /\ row' = [a \in Addresses |-> [w \in Names |-> Recovered(a, own[a], w)]]
          /\ evicted' = {p \in evicted : \/ p[2] /= Bare
                                         \/ Kept(p[1]) \subseteq own[p[1]] \cup {Bare}}
    BY Zenon DEF Restart
  <1>2. \A a \in Addresses : own[a] \subseteq Kept(a)
    BY <1>1, Zenon DEF Own
  <1> QED
    BY <1>1, <1>2, Zenon
------------------------------------------------------------------------------
(* Every step keeps the types.                                              *)

\* A request keeps the types of all but the sessions.
LEMMA RowStepTypes ==
  ASSUME Types, RowStep,
         session' \in [Sessions -> [address : Addresses, name : Names, holds : BOOLEAN]
                                     \cup {None}]
  PROVE  Types'
  <1>1. row' \in [Addresses -> [Names -> Rows \cup {None}]] /\ evicted' \subseteq evicted
    <2>1. CASE UNCHANGED <<row, evicted>>
      BY <2>1, Zenon DEF Types
    <2>2. ASSUME NEW a \in Addresses, NEW key \in Names, Enters(a, key)
          PROVE  row' \in [Addresses -> [Names -> Rows \cup {None}]] /\ evicted' \subseteq evicted
      <3>1. evicted' = evicted \ {<<a, key>>}
        BY <2>2, Zenon DEF Enters
      <3>2. row' \in [Addresses -> [Names -> Rows \cup {None}]]
        BY <2>2, EntersOne, Zenon
      <3> QED
        BY <3>1, <3>2, Zenon
    <2> QED
      BY <2>1, <2>2, Zenon DEF RowStep
  <1>2. UNCHANGED <<setup, now, nameCap, file, status>>
    BY Zenon DEF RowStep
  <1>3. evicted' \subseteq Addresses \X Names
    BY <1>1, Zenon DEF Types
  <1> QED
    BY <1>1, <1>2, <1>3, Zenon DEF Types

\* Files are removed.
LEMMA RemoveTypes ==
  ASSUME Types, NEW removed,
         file' = [a \in Addresses |-> IF a \in removed THEN None ELSE file[a]]
  PROVE  file' \in [Addresses -> [rows : Shares, mtime : 1..MaxNow] \cup {None}]
  BY Zenon DEF Types

\* The status thread at rest has no copies.
LEMMA AsleepTypes ==
  /\ Asleep \in [at : {"asleep", "snapshot", "files"},
                 rows : [Addresses -> Shares], todo : SUBSET Addresses]
  /\ Asleep.at = "asleep"
  /\ \A a \in Addresses, w \in Names : Asleep.rows[a][w] = None
  <1>1. NoRows \in Shares /\ \A w \in Names : NoRows[w] = None
    BY Zenon DEF NoRows, Shares
  <1>2. /\ [a \in Addresses |-> NoRows] \in [Addresses -> Shares]
        /\ \A a \in Addresses : [b \in Addresses |-> NoRows][a] = NoRows
    BY <1>1, Zenon
  <1>3. /\ Asleep \in [at : {"asleep", "snapshot", "files"},
                       rows : [Addresses -> Shares], todo : SUBSET Addresses]
        /\ Asleep.rows = [a \in Addresses |-> NoRows]
        /\ Asleep.at = "asleep"
    BY <1>2, Zenon DEF Asleep
  <1> QED
    BY <1>1, <1>2, <1>3, Zenon

\* Every step keeps the types of the rows, of the copies and of the files.
LEMMA NextTypes ==
  ASSUME Types, Aged, ConnectedRowsKept, Next
  PROVE  Types'
  <1> DEFINE Stages == {"asleep", "snapshot", "files"}
             Statuses == [at : Stages, rows : [Addresses -> Shares], todo : SUBSET Addresses]
  <1>1. CASE Tick
    <2>1. now' = now + 1 /\ now < MaxNow
      BY <1>1, Zenon DEF Tick
    <2>2. now' \in 1..MaxNow
      BY <2>1, RegistryAssumption DEF Types
    <2>3. UNCHANGED <<setup, nameCap, row, session, file, status, evicted>>
      BY <1>1, Zenon DEF Tick
    <2> QED
      BY <2>2, <2>3, Zenon DEF Types
  <1>2. CASE Restart
    <2>1. PICK own \in [Addresses -> SUBSET (Names \ {Bare})] :
            /\ nameCap' \in setup.caps
            /\ \A a \in Addresses : own[a] \subseteq Kept(a)
            /\ row' = [a \in Addresses |-> [w \in Names |-> Recovered(a, own[a], w)]]
            /\ evicted' \subseteq evicted
      BY <1>2, RestartRows, Zenon
    <2>2. \A a \in Addresses, w \in Names : Recovered(a, own[a], w) \in Rows \cup {None}
      BY <2>1, RecoveredRow, Zenon
    <2>3. row' \in [Addresses -> [Names -> Rows \cup {None}]]
      BY <2>1, <2>2, Zenon
    <2>4. nameCap' \in Nat
      BY <2>1, RegistryAssumption, Zenon DEF Types
    <2>5. /\ session' = [s \in Sessions |-> None] /\ status' = Asleep
          /\ UNCHANGED <<setup, now, file>>
      BY <1>2, Zenon DEF Restart
    <2>6. session' \in [Sessions -> [address : Addresses, name : Names, holds : BOOLEAN]
                                      \cup {None}]
      BY <2>5, Zenon
    <2>7. evicted' \subseteq Addresses \X Names
      BY <2>1, Zenon DEF Types
    <2> QED
      BY <2>3, <2>4, <2>5, <2>6, <2>7, AsleepTypes, Zenon DEF Types
  <1>3. ASSUME NEW s \in Sessions, NEW p \in setup.workers, Attach(s, p[1], p[2])
        PROVE  Types'
    <2>1. p[1] \in Addresses /\ p[2] \in Names
      <3>1. p \in Addresses \X Names
        BY RegistryAssumption, Zenon DEF Types
      <3> QED
        BY <3>1, Zenon
    <2> QED
      BY <1>3, <2>1, AttachEnters, RowStepTypes, Zenon
  <1>4. ASSUME NEW s \in Sessions, AcceptShare(s) \/ RejectShare(s)
        PROVE  Types'
    <2>1. RowStep /\ session' = session
      BY <1>4, NoteEnters, Zenon
    <2>2. session' \in [Sessions -> [address : Addresses, name : Names, holds : BOOLEAN]
                                      \cup {None}]
      BY <2>1, Zenon DEF Types
    <2> QED
      BY <2>1, <2>2, RowStepTypes, Zenon
  <1>5. ASSUME NEW s \in Sessions, Disconnect(s)
        PROVE  Types'
    <2>1. session' \in [Sessions -> [address : Addresses, name : Names, holds : BOOLEAN]
                                      \cup {None}]
      BY <1>5, Zenon DEF Disconnect, Types
    <2>2. UNCHANGED <<setup, now, nameCap, row, file, status, evicted>>
      BY <1>5, Zenon DEF Disconnect
    <2> QED
      BY <2>1, <2>2, Zenon DEF Types
  <1>6. CASE Prune
    <2>1. row' \in [Addresses -> [Names -> Rows \cup {None}]]
      <3>1. row' = [a \in Addresses |->
                     [w \in Names |-> IF Expired(a, w) THEN None ELSE row[a][w]]]
        BY <1>6, Zenon DEF Prune
      <3> QED
        BY <3>1, Zenon DEF Types
    <2>2. evicted' \subseteq Addresses \X Names
      BY <1>6, Zenon DEF Prune, Types
    <2>3. file' \in [Addresses -> [rows : Shares, mtime : 1..MaxNow] \cup {None}]
      BY <1>6, RemoveTypes, Zenon DEF Prune
    <2>4. status' \in Statuses
      BY <1>6, Zenon DEF Prune, Types
    <2>5. UNCHANGED <<setup, now, nameCap, session>>
      BY <1>6, Zenon DEF Prune
    <2> QED
      BY <2>1, <2>2, <2>3, <2>4, <2>5, Zenon DEF Types
  <1>7. CASE Snapshot
    <2>1. status' \in Statuses
      <3> DEFINE copy == [a \in Addresses |->
                           [w \in Names |-> IF row[a][w] = None THEN None
                                            ELSE row[a][w].share]]
                 todo == {a \in Present : \E w \in Known(row[a]) : row[a][w].counted}
      <3>1. \/ status' = [at |-> "files", rows |-> copy, todo |-> todo]
            \/ status' = Asleep
        BY <1>7, Zenon DEF Snapshot
      <3>2. \A a \in Addresses, w \in Names :
              row[a][w] /= None => row[a][w].share \in 0..MaxNow
        <4>1. \A a \in Addresses, w \in Names : row[a][w] /= None => row[a][w] \in Rows
          BY DEF Types
        <4>2. \A r \in Rows : r.share \in 0..MaxNow
          BY Zenon DEF Rows
        <4> QED
          BY <4>1, <4>2, Zenon
      <3>3. copy \in [Addresses -> Shares]
        BY <3>2, Zenon DEF Shares
      <3>4. todo \in SUBSET Addresses
        BY Zenon DEF Present
      <3> HIDE DEF copy, todo
      <3>5. [at |-> "files", rows |-> copy, todo |-> todo] \in Statuses
        BY <3>3, <3>4, Zenon
      <3> QED
        BY <3>1, <3>5, AsleepTypes, Zenon
    <2>2. UNCHANGED <<setup, now, nameCap, row, session, file, evicted>>
      BY <1>7, Zenon DEF Snapshot
    <2> QED
      BY <2>1, <2>2, Zenon DEF Types
  <1>8. ASSUME NEW a \in Addresses, WriteUserFile(a)
        PROVE  Types'
    <2> DEFINE new == [rows |-> status.rows[a], mtime |-> now]
    <2>1. /\ file' = file \/ file' = [file EXCEPT ![a] = new]
          /\ status' = Asleep \/ status' = [status EXCEPT !.todo = @ \ {a}]
      BY <1>8, Zenon DEF WriteUserFile
    <2>2. status \in Statuses /\ now \in 1..MaxNow
      BY Zenon DEF Types
    <2>3. status.rows[a] \in Shares /\ status.todo \subseteq Addresses
      BY <2>2, Zenon
    <2>4. new \in [rows : Shares, mtime : 1..MaxNow]
      BY <2>2, <2>3, Zenon
    <2> HIDE DEF new
    <2>5. file' \in [Addresses -> [rows : Shares, mtime : 1..MaxNow] \cup {None}]
      BY <2>1, <2>4, Zenon DEF Types
    <2>6. [status EXCEPT !.todo = @ \ {a}] \in Statuses
      BY <2>2, <2>3, Zenon
    <2>7. status' \in Statuses
      BY <2>1, <2>6, AsleepTypes, Zenon
    <2>8. UNCHANGED <<setup, now, nameCap, row, session, evicted>>
      BY <1>8, Zenon DEF WriteUserFile
    <2> QED
      BY <2>5, <2>7, <2>8, Zenon DEF Types
  <1>9. CASE Sweep \/ NoSweep
    <2>1. file' \in [Addresses -> [rows : Shares, mtime : 1..MaxNow] \cup {None}]
      <3>1. CASE Sweep
        BY <3>1, RemoveTypes, Zenon DEF Sweep
      <3>2. CASE NoSweep
        BY <3>2, Zenon DEF NoSweep, Types
      <3> QED
        BY <1>9, <3>1, <3>2, Zenon
    <2>2. status' = Asleep /\ UNCHANGED <<setup, now, nameCap, row, session, evicted>>
      BY <1>9, Zenon DEF Sweep, NoSweep
    <2> QED
      BY <2>1, <2>2, AsleepTypes, Zenon DEF Types
  <1> QED
    BY <1>1, <1>2, <1>3, <1>4, <1>5, <1>6, <1>7, <1>8, <1>9, Zenon DEF Next

------------------------------------------------------------------------------
(* Every step keeps the rows of connected workers.                          *)

\* Pruning passes over the rows that sessions hold, and a restart ends all
\* sessions.
LEMMA NextConnected ==
  ASSUME Types, Aged, ConnectedRowsKept, Next
  PROVE  ConnectedRowsKept'
  <1>1. CASE UNCHANGED <<row, session>>
    BY <1>1, Zenon DEF ConnectedRowsKept
  <1>2. CASE Restart
    <2>1. session' = [s \in Sessions |-> None]
      BY <1>2, Zenon DEF Restart
    <2> QED
      BY <2>1, Zenon DEF ConnectedRowsKept
  <1>3. ASSUME NEW s \in Sessions, NEW p \in setup.workers, Attach(s, p[1], p[2])
        PROVE  ConnectedRowsKept'
    <2>1. p[1] \in Addresses /\ p[2] \in Names
      <3>1. p \in Addresses \X Names
        BY RegistryAssumption, Zenon DEF Types
      <3> QED
        BY <3>1, Zenon
    <2> QED
      BY <1>3, <2>1, AttachEnters, Zenon
  <1>4. ASSUME NEW s \in Sessions, AcceptShare(s) \/ RejectShare(s)
        PROVE  ConnectedRowsKept'
    <2>1. RowStep /\ session' = session
      BY <1>4, NoteEnters, Zenon
    <2>2. \A q \in Sessions : session[q] /= None =>
            session[q].address \in Addresses /\ session[q].name \in Names
      BY Zenon DEF Types
    <2> QED
      BY <2>1, <2>2, RowStepKeeps, Zenon DEF ConnectedRowsKept
  <1>5. ASSUME NEW s \in Sessions, Disconnect(s)
        PROVE  ConnectedRowsKept'
    <2>1. row' = row /\ session' = [session EXCEPT ![s] = None]
      BY <1>5, Zenon DEF Disconnect
    <2>2. \A q \in Sessions : session'[q] /= None => session'[q] = session[q]
      BY <2>1, Zenon DEF Types
    <2> QED
      BY <2>1, <2>2, Zenon DEF ConnectedRowsKept
  \* A row that a session holds is pinned, so it does not expire.
  <1>6. CASE Prune
    <2>1. /\ row' = [a \in Addresses |->
                      [w \in Names |-> IF Expired(a, w) THEN None ELSE row[a][w]]]
          /\ session' = session
      BY <1>6, Zenon DEF Prune
    <2>2. ASSUME NEW q \in Sessions, session[q] /= None, session[q].holds
          PROVE  row'[session[q].address][session[q].name] /= None
      <3>1. /\ session[q].address \in Addresses /\ session[q].name \in Names
            /\ session[q] = Worker(session[q].address, session[q].name, TRUE)
        BY <2>2, Zenon DEF Types, Worker
      <3>2. ~Expired(session[q].address, session[q].name)
        BY <3>1, Zenon DEF Expired, Pinned
      <3>3. row[session[q].address][session[q].name] /= None
        BY <2>2, Zenon DEF ConnectedRowsKept
      <3> QED
        BY <2>1, <3>1, <3>2, <3>3, Zenon
    <2> QED
      BY <2>1, <2>2, Zenon DEF ConnectedRowsKept
  <1>7. ASSUME \/ Tick \/ Snapshot \/ Sweep \/ NoSweep
               \/ \E a \in Addresses : WriteUserFile(a)
        PROVE  UNCHANGED <<row, session>>
    BY <1>7, Zenon DEF Tick, Snapshot, Sweep, NoSweep, WriteUserFile
  <1> QED
    BY <1>1, <1>2, <1>3, <1>4, <1>5, <1>6, <1>7, Zenon DEF Next
------------------------------------------------------------------------------
(* No copy of a row is of a later share.                                    *)

\* A file is as it was, or the status thread has written its copy.
FilesFollow ==
  \A a \in Addresses :
    file'[a] /= None => \/ file[a] /= None /\ file'[a].rows = file[a].rows
                        \/ file'[a].rows = status.rows[a]

\* What the files and the status thread may copy, and what a row may turn into,
\* without a copy getting ahead of its row.
LEMMA AgedStays ==
  ASSUME Types, Types', Aged, now <= now',
         \A a \in Addresses, w \in Names : row'[a][w] /= None =>
           \/ row'[a][w] = row[a][w]
           \/ row'[a][w].activity = now /\ row'[a][w].share <= now,
         \A a \in Addresses, w \in Names : status'.rows[a][w] /= None =>
           \/ status'.rows[a][w] = status.rows[a][w]
           \/ /\ row[a][w] /= None /\ row'[a][w] = row[a][w]
              /\ status'.rows[a][w] = row[a][w].share,
         FilesFollow
  PROVE  Aged'
  <1> SUFFICES ASSUME NEW a \in Addresses, NEW w \in Names
               PROVE  /\ row'[a][w] /= None => /\ row'[a][w].share <= row'[a][w].activity
                                               /\ row'[a][w].activity <= now'
                      /\ Older(status.rows[a][w], a, w)'
                      /\ file'[a] /= None => Older(file[a].rows[w], a, w)'
    BY Zenon DEF Aged
  <1> DEFINE r == row[a][w]
             Ages(t) == t /= None => t <= now /\ (r /= None => t <= r.activity)
             AgesNext(t) == t /= None => t <= now' /\ (row'[a][w] /= None => t <= row'[a][w].activity)
  <1>1. now \in Nat /\ now' \in Nat
    BY RegistryAssumption DEF Types
  <1>2. /\ r /= None => r.share \in Nat /\ r.activity \in Nat
        /\ row'[a][w] /= None => row'[a][w].share \in Nat /\ row'[a][w].activity \in Nat
    <2>1. \A q \in Rows : q.share \in Nat /\ q.activity \in Nat
      BY RegistryAssumption DEF Rows
    <2>2. r /= None => r \in Rows
      BY DEF Types
    <2>3. row'[a][w] /= None => row'[a][w] \in Rows
      BY DEF Types
    <2> QED
      BY <2>1, <2>2, <2>3, Zenon
  <1>3. r /= None => r.share <= r.activity /\ r.activity <= now
    BY Zenon DEF Aged
  <1>4. row'[a][w] /= None => \/ row'[a][w] = r
                              \/ row'[a][w].activity = now /\ row'[a][w].share <= now
    BY Zenon
  <1>5. row'[a][w] /= None => /\ row'[a][w].share <= row'[a][w].activity
                              /\ row'[a][w].activity <= now'
    <2>1. CASE row'[a][w] = r
      BY <1>1, <1>2, <1>3, <2>1
    <2>2. CASE row'[a][w].activity = now /\ row'[a][w].share <= now
      BY <2>2, Zenon
    <2> QED
      BY <1>4, <2>1, <2>2, Zenon
  <1> HIDE DEF r
  <1>6. \A t \in Nat \cup {None} : Ages(t) => AgesNext(t)
    <2> SUFFICES ASSUME NEW t \in Nat, Ages(t), t /= None
                 PROVE  t <= now' /\ (row'[a][w] /= None => t <= row'[a][w].activity)
      BY Zenon
    <2>1. t <= now /\ (r /= None => t <= r.activity)
      BY Zenon
    <2>2. t <= now'
      BY <1>1, <2>1
    <2> QED
      BY <1>4, <2>1, <2>2, Zenon
  <1>7. Ages(status.rows[a][w]) /\ (file[a] /= None => Ages(file[a].rows[w]))
    BY Zenon DEF Aged, Older, r
  <1>8. r /= None => Ages(r.share)
    <2>1. r /= None => r.share <= now
      BY <1>1, <1>2, <1>3
    <2> QED
      BY <1>3, <2>1, Zenon
  <1>9. /\ status.rows[a][w] \in Nat \cup {None}
        /\ file[a] /= None => file[a].rows[w] \in Nat \cup {None}
    <2>1. \A q \in Shares : q[w] \in Nat \cup {None}
      BY RegistryAssumption DEF Shares
    <2>2. status.rows[a] \in Shares /\ (file[a] /= None => file[a].rows \in Shares)
      BY Zenon DEF Types
    <2> QED
      BY <2>1, <2>2, Zenon
  <1> HIDE DEF Ages, AgesNext
  <1>10. AgesNext(status.rows[a][w]) /\ (file[a] /= None => AgesNext(file[a].rows[w]))
    BY <1>6, <1>7, <1>9, Zenon
  <1>11. r /= None => AgesNext(r.share)
    BY <1>2, <1>6, <1>8, Zenon
  <1>12. AgesNext(None)
    BY Zenon DEF AgesNext
  <1>13. AgesNext(status'.rows[a][w])
    <2>1. \/ status'.rows[a][w] = None
          \/ status'.rows[a][w] = status.rows[a][w]
          \/ r /= None /\ status'.rows[a][w] = r.share
      BY Zenon DEF r
    <2> QED
      BY <1>10, <1>11, <1>12, <2>1, Zenon
  <1>14. file'[a] /= None => AgesNext(file'[a].rows[w])
    <2>1. file'[a] /= None => \/ file[a] /= None /\ file'[a].rows = file[a].rows
                              \/ file'[a].rows = status.rows[a]
      BY Zenon DEF FilesFollow
    <2> QED
      BY <1>10, <2>1, Zenon
  <1> QED
    BY <1>5, <1>13, <1>14, Zenon DEF Older, AgesNext

\* Also a row read back is active as late as its line in the file: what folds into
\* the bucket is within the retention, a line of the bucket that is not kept is older.
LEMMA RestartAged ==
  ASSUME Types, Aged, Restart
  PROVE  Aged'
  <1>1. PICK own \in [Addresses -> SUBSET (Names \ {Bare})] :
          /\ \A a \in Addresses : own[a] \subseteq Kept(a)
          /\ row' = [a \in Addresses |-> [w \in Names |-> Recovered(a, own[a], w)]]
    BY RestartRows, Zenon
  <1>2. status' = Asleep /\ UNCHANGED <<now, file>>
    BY Zenon DEF Restart
  <1> SUFFICES ASSUME NEW a \in Addresses, NEW w \in Names
               PROVE  /\ row'[a][w] /= None => /\ row'[a][w].share <= row'[a][w].activity
                                               /\ row'[a][w].activity <= now'
                      /\ Older(status.rows[a][w], a, w)'
                      /\ file'[a] /= None => Older(file[a].rows[w], a, w)'
    BY Zenon DEF Aged
  <1> DEFINE r == Recovered(a, own[a], w)
             folded == Folded(a, own[a], w)
  <1>3. row'[a][w] = r
    BY <1>1, Zenon
  <1>4. folded = {} => r = None
    BY <1>1, RecoveredRow, Zenon
  <1>5. folded /= {} => /\ r \in Rows /\ r.share = r.activity
                        /\ \E v \in folded : r.activity = file[a].rows[v]
                        /\ \A v \in folded : file[a].rows[v] <= r.activity
    BY <1>1, RecoveredRow, Zenon
  <1>6. ASSUME NEW v \in Kept(a)
        PROVE  /\ file[a] /= None /\ file[a].rows[v] /= None /\ file[a].rows[v] <= now
               /\ Retention > 0 => file[a].rows[v] >= now - Retention
    <2>1. /\ v \in Names /\ file[a] /= None /\ file[a].rows[v] /= None
          /\ Retention > 0 => file[a].rows[v] >= now - Retention
      BY Zenon DEF Kept
    <2> QED
      BY <2>1, Zenon DEF Aged, Older
  <1>7. folded \subseteq Kept(a)
    BY <1>1, Zenon DEF Folded
  <1>8. r /= None => r.share <= r.activity /\ r.activity <= now /\ r.activity \in Nat
    <2> SUFFICES ASSUME r /= None
                 PROVE  r.share <= r.activity /\ r.activity <= now /\ r.activity \in Nat
      BY Zenon
    <2>1. r \in Rows /\ r.share = r.activity
      BY <1>4, <1>5, Zenon
    <2>2. r.activity <= now
      BY <1>4, <1>5, <1>6, <1>7, Zenon
    <2> HIDE DEF r
    <2>3. r.activity \in Nat
      BY <2>1, RegistryAssumption DEF Rows
    <2>4. r.share <= r.activity
      BY <2>1, <2>3
    <2> QED
      BY <2>2, <2>3, <2>4, Zenon
  <1> DEFINE t == file[a].rows[w]
  <1>9. file[a] /= None /\ t /= None => t <= now /\ t \in Nat
    <2>1. file[a] /= None /\ t /= None => t <= now
      BY Zenon DEF Aged, Older
    <2>2. file[a] /= None => file[a].rows \in Shares
      BY Zenon DEF Types
    <2>3. \A q \in Shares : q[w] /= None => q[w] \in Nat
      BY RegistryAssumption DEF Shares
    <2> QED
      BY <2>1, <2>2, <2>3, Zenon
  <1>10. ASSUME file[a] /= None, t /= None, r /= None
         PROVE  t <= r.activity
    <2>1. CASE w \in folded
      BY <1>5, <2>1, Zenon
    <2>2. CASE w \notin folded
      <3>1. PICK v \in folded : r.activity = file[a].rows[v]
        BY <1>4, <1>5, <1>10, Zenon
      <3>2. w = Bare /\ w \notin Kept(a)
        BY <1>1, <2>2, <3>1, Zenon DEF Folded
      <3>3. t = 0 \/ (Retention > 0 /\ ~(t >= now - Retention))
        BY <1>10, <3>2, Zenon DEF Kept
      <3>4. Retention > 0 => r.activity >= now - Retention
        BY <1>6, <1>7, <3>1, Zenon
      <3>5. now \in Nat /\ Retention \in Nat
        BY RegistryAssumption DEF Types
      <3> HIDE DEF r, t
      <3> QED
        BY <1>8, <1>9, <1>10, <3>3, <3>4, <3>5
    <2> QED
      BY <2>1, <2>2, Zenon
  <1>11. status'.rows[a][w] = None
    BY <1>2, AsleepTypes, Zenon
  <1>12. Older(status.rows[a][w], a, w)'
    BY <1>11, Zenon DEF Older
  <1>13. file'[a] /= None => Older(file[a].rows[w], a, w)'
    BY <1>2, <1>3, <1>9, <1>10, Zenon DEF Older
  <1> QED
    BY <1>2, <1>3, <1>8, <1>12, <1>13, Zenon

\* Of the steps that change the registry, a request enters at most one row.
LEMMA StepKinds ==
  ASSUME Types, Aged, ConnectedRowsKept, Next
  PROVE  \/ Tick \/ Restart \/ RowStep \/ Prune \/ Snapshot \/ Sweep \/ NoSweep
         \/ \E a \in Addresses : WriteUserFile(a)
  <1>1. ASSUME NEW s \in Sessions, NEW p \in setup.workers, Attach(s, p[1], p[2])
        PROVE  RowStep
    <2>1. p \in Addresses \X Names
      BY RegistryAssumption, Zenon DEF Types
    <2>2. p[1] \in Addresses /\ p[2] \in Names
      BY <2>1, Zenon
    <2> QED
      BY <1>1, <2>2, AttachEnters, Zenon
  <1>2. ASSUME NEW s \in Sessions, AcceptShare(s) \/ RejectShare(s)
        PROVE  RowStep
    BY <1>2, NoteEnters, Zenon
  <1>3. ASSUME NEW s \in Sessions, Disconnect(s)
        PROVE  RowStep
    BY <1>3, Zenon DEF Disconnect, RowStep
  <1> QED
    BY <1>1, <1>2, <1>3, Zenon DEF Next

\* write_user_files writes the copy taken by snapshot.
LEMMA WriteFollows ==
  ASSUME Types, NEW a \in Addresses, WriteUserFile(a)
  PROVE  FilesFollow
  <1> DEFINE new == [rows |-> status.rows[a], mtime |-> now]
  <1>1. file' = file \/ file' = [file EXCEPT ![a] = new]
    BY Zenon DEF WriteUserFile
  <1>2. new.rows = status.rows[a]
    BY Zenon
  <1> HIDE DEF new
  <1>3. \A b \in Addresses : file'[b] = file[b] \/ (b = a /\ file'[b] = new)
    BY <1>1, Zenon DEF Types
  <1> QED
    BY <1>2, <1>3, Zenon DEF FilesFollow

\* No step makes a copy, on the way to a file or in it, later than the row it
\* was made of.
LEMMA NextAged ==
  ASSUME Types, Types', Aged, ConnectedRowsKept, Next
  PROVE  Aged'
  <1>0. now <= now
    BY RegistryAssumption DEF Types
  <1>1. CASE Tick
    <2>1. UNCHANGED <<row, file, status>> /\ now' = now + 1
      BY <1>1, Zenon DEF Tick
    <2>2. now <= now'
      BY <2>1 DEF Types
    <2> QED
      BY <2>1, <2>2, AgedStays, Zenon DEF FilesFollow
  <1>2. CASE Restart
    BY <1>2, RestartAged, Zenon
  <1>3. CASE RowStep
    <2>1. UNCHANGED <<now, file, status>>
      BY <1>3, Zenon DEF RowStep
    <2>2. ASSUME NEW b \in Addresses, NEW w \in Names
          PROVE  \/ row'[b][w] = row[b][w]
                 \/ row'[b][w].activity = now /\ row'[b][w].share <= now
      <3>1. ASSUME NEW a \in Addresses, NEW key \in Names, Enters(a, key)
            PROVE  \/ row'[b][w] = row[b][w]
                   \/ row'[b][w].activity = now /\ row'[b][w].share <= now
        BY <3>1, EntersOne
      <3> QED
        BY <1>3, <3>1, Zenon DEF RowStep
    <2> QED
      BY <1>0, <2>1, <2>2, AgedStays, Zenon DEF FilesFollow
  <1>4. CASE Prune
    <2>1. UNCHANGED now /\ status' = [status EXCEPT !.at = "snapshot"]
      BY <1>4, Zenon DEF Prune
    <2>2. status'.rows = status.rows
      BY <2>1, Zenon DEF Types
    <2>3. \A a \in Addresses, w \in Names : row'[a][w] /= None => row'[a][w] = row[a][w]
      BY <1>4, Zenon DEF Prune
    <2>4. FilesFollow
      BY <1>4, Zenon DEF Prune, FilesFollow
    <2> QED
      BY <1>0, <2>1, <2>2, <2>3, <2>4, AgedStays, Zenon
  <1>5. CASE Snapshot
    <2>1. UNCHANGED <<now, row, file>>
      BY <1>5, Zenon DEF Snapshot
    <2>2. ASSUME NEW a \in Addresses, NEW w \in Names, status'.rows[a][w] /= None
          PROVE  row[a][w] /= None /\ status'.rows[a][w] = row[a][w].share
      <3> DEFINE copy == [b \in Addresses |->
                           [v \in Names |-> IF row[b][v] = None THEN None
                                            ELSE row[b][v].share]]
      <3>1. \/ status' = Asleep
            \/ \E todo : status' = [at |-> "files", rows |-> copy, todo |-> todo]
        BY <1>5, Zenon DEF Snapshot
      <3>2. copy[a][w] = IF row[a][w] = None THEN None ELSE row[a][w].share
        BY Zenon
      <3> HIDE DEF copy
      <3>3. \A todo : [at |-> "files", rows |-> copy, todo |-> todo].rows = copy
        BY Zenon
      <3>4. status'.rows = copy
        BY <2>2, <3>1, <3>3, AsleepTypes, Zenon
      <3> QED
        BY <2>2, <3>2, <3>4, Zenon
    <2> QED
      BY <1>0, <2>1, <2>2, AgedStays, Zenon DEF FilesFollow
  <1>6. ASSUME NEW a \in Addresses, WriteUserFile(a)
        PROVE  Aged'
    <2>1. UNCHANGED <<now, row>>
      BY <1>6, Zenon DEF WriteUserFile
    <2>2. status' = Asleep \/ status' = [status EXCEPT !.todo = @ \ {a}]
      BY <1>6, Zenon DEF WriteUserFile
    <2>3. [status EXCEPT !.todo = @ \ {a}].rows = status.rows
      BY Zenon DEF Types
    <2>4. \A b \in Addresses, w \in Names :
            status'.rows[b][w] /= None => status'.rows[b][w] = status.rows[b][w]
      BY <2>2, <2>3, AsleepTypes, Zenon
    <2>5. FilesFollow
      BY <1>6, WriteFollows, Zenon
    <2> QED
      BY <1>0, <2>1, <2>4, <2>5, AgedStays, Zenon
  <1>7. CASE Sweep \/ NoSweep
    <2>1. UNCHANGED <<now, row>> /\ status' = Asleep
      BY <1>7, Zenon DEF Sweep, NoSweep
    <2>2. FilesFollow
      BY <1>7, Zenon DEF Sweep, NoSweep, FilesFollow
    <2> QED
      BY <1>0, <2>1, <2>2, AgedStays, AsleepTypes, Zenon
  <1> QED
    BY <1>1, <1>2, <1>3, <1>4, <1>5, <1>6, <1>7, StepKinds, Zenon

------------------------------------------------------------------------------
(* Evicted rows stay gone.                                                  *)

\* Evicted rows have no copy that could bring them back, whatever time passes and
\* whatever the status thread copies and writes.
LEMMA GoneStays ==
  ASSUME Types, Types', Gone, now <= now', evicted' \subseteq evicted,
         EvictedStaysGone',
         status'.at /= "files" =>
           \A a \in Addresses, w \in Names : status'.rows[a][w] = None,
         \A p \in evicted' : status'.rows[p[1]][p[2]] = None,
         FilesFollow
  PROVE  Gone'
  <1> SUFFICES ASSUME NEW p \in evicted', file'[p[1]] /= None,
                      file'[p[1]].rows[p[2]] /= None
               PROVE  file'[p[1]].rows[p[2]] < now' - Retention
    BY Zenon DEF Gone
  <1>1. p \in evicted /\ p[1] \in Addresses /\ p[2] \in Names
    <2>1. p \in evicted /\ p \in Addresses \X Names
      BY Zenon DEF Types
    <2> QED
      BY <2>1, Zenon
  <1>2. status.rows[p[1]][p[2]] = None
    BY <1>1, Zenon DEF Gone
  <1>3. file[p[1]] /= None /\ file'[p[1]].rows = file[p[1]].rows
    BY <1>1, <1>2, Zenon DEF FilesFollow
  <1> DEFINE t == file[p[1]].rows[p[2]]
  <1>4. t /= None /\ t < now - Retention
    BY <1>1, <1>3, Zenon DEF Gone
  <1>5. t \in Nat
    <2>1. file[p[1]].rows \in Shares
      BY <1>1, <1>3, Zenon DEF Types
    <2>2. \A q \in Shares : q[p[2]] /= None => q[p[2]] \in Nat
      BY <1>1, RegistryAssumption DEF Shares
    <2> QED
      BY <1>4, <2>1, <2>2, Zenon
  <1>6. now \in Nat /\ now' \in Nat /\ Retention \in Nat
    BY RegistryAssumption DEF Types
  <1> HIDE DEF t
  <1>7. \A m, n \in Nat : t < m - Retention /\ m <= n => t < n - Retention
    BY <1>5, <1>6
  <1> QED
    BY <1>3, <1>4, <1>6, <1>7, Zenon DEF t

\* Pruning forgets rows of which no copy is fresh: the status thread has none, and
\* the file is no later than the row, which is past the retention.
LEMMA PruneGone ==
  ASSUME Types, Types', Aged, Gone, Prune
  PROVE  Gone'
  <1>1. /\ row' = [a \in Addresses |->
                    [w \in Names |-> IF Expired(a, w) THEN None ELSE row[a][w]]]
        /\ evicted' = evicted \cup {p \in Addresses \X Names :
                                      Expired(p[1], p[2]) /\ row[p[1]][p[2]].share > 0}
        /\ status.at = "asleep" /\ status' = [status EXCEPT !.at = "snapshot"]
        /\ now' = now
    BY Zenon DEF Prune
  <1>2. \A a \in Addresses : file'[a] /= None => file'[a] = file[a]
    BY Zenon DEF Prune
  <1>3. status'.rows = status.rows /\ status.at /= "files"
    BY <1>1, Zenon DEF Types
  <1>4. \A a \in Addresses, w \in Names : status'.rows[a][w] = None
    BY <1>3, Zenon DEF Gone
  <1>5. ASSUME NEW p \in evicted'
        PROVE  /\ p[1] \in Addresses /\ p[2] \in Names
               /\ row'[p[1]][p[2]] = None /\ Retention > 0
               /\ file[p[1]] /= None /\ file[p[1]].rows[p[2]] /= None
                    => file[p[1]].rows[p[2]] < now - Retention
    <2>1. p[1] \in Addresses /\ p[2] \in Names
      <3>1. p \in Addresses \X Names
        BY Zenon DEF Types
      <3> QED
        BY <3>1, Zenon
    <2>2. CASE p \in evicted
      <3>1. /\ row[p[1]][p[2]] = None /\ Retention > 0
            /\ file[p[1]] /= None /\ file[p[1]].rows[p[2]] /= None
                 => file[p[1]].rows[p[2]] < now - Retention
        BY <2>2, Zenon DEF Gone, EvictedStaysGone
      <3>2. row'[p[1]][p[2]] = None
        BY <1>1, <2>1, <3>1, Zenon
      <3> QED
        BY <2>1, <3>1, <3>2, Zenon
    <2>3. CASE Expired(p[1], p[2]) /\ row[p[1]][p[2]].share > 0
      <3> DEFINE r == row[p[1]][p[2]]
                 t == file[p[1]].rows[p[2]]
      <3>1. r /= None /\ r \in Rows
        BY <2>1, <2>3 DEF Types, Expired
      <3>2. r.share \in Nat /\ r.activity \in Nat
        BY <3>1, RegistryAssumption DEF Rows
      <3>3. r.share /= 0
        BY <2>3, <3>2
      <3>4. Retention > 0 /\ r.activity < now - Retention
        BY <2>3, <3>3, Zenon DEF Expired
      <3>5. row'[p[1]][p[2]] = None
        BY <1>1, <2>1, <2>3, Zenon
      <3>6. file[p[1]] /= None /\ t /= None => t <= r.activity
        BY <2>1, <3>1, Zenon DEF Aged, Older
      <3>7. file[p[1]] /= None /\ t /= None => t \in Nat
        <4>1. file[p[1]] /= None => file[p[1]].rows \in Shares
          BY <2>1, Zenon DEF Types
        <4>2. \A q \in Shares : q[p[2]] /= None => q[p[2]] \in Nat
          BY <2>1, RegistryAssumption DEF Shares
        <4> QED
          BY <4>1, <4>2, Zenon
      <3>8. now \in Nat /\ Retention \in Nat
        BY RegistryAssumption DEF Types
      <3> HIDE DEF r, t
      <3>9. file[p[1]] /= None /\ t /= None => t < now - Retention
        BY <3>2, <3>4, <3>6, <3>7, <3>8
      <3> QED
        BY <2>1, <3>4, <3>5, <3>9, Zenon DEF t
    <2> QED
      BY <1>1, <2>2, <2>3, Zenon
  <1>6. EvictedStaysGone'
    BY <1>5, Zenon DEF EvictedStaysGone
  <1> QED
    BY <1>1, <1>2, <1>4, <1>5, <1>6, ZenonT(30) DEF Gone

\* recover_user_stats reads no evicted row back.
LEMMA RestartGone ==
  ASSUME Types, Types', Gone, Restart
  PROVE  Gone'
  <1>1. PICK own \in [Addresses -> SUBSET (Names \ {Bare})] :
          /\ \A a \in Addresses : own[a] \subseteq Kept(a)
          /\ row' = [a \in Addresses |-> [w \in Names |-> Recovered(a, own[a], w)]]
          /\ evicted' = {p \in evicted : \/ p[2] /= Bare
                                         \/ Kept(p[1]) \subseteq own[p[1]] \cup {Bare}}
    BY RestartRows, Zenon
  <1>2. status' = Asleep /\ UNCHANGED <<now, file>>
    BY Zenon DEF Restart
  <1>3. ASSUME NEW p \in evicted'
        PROVE  row'[p[1]][p[2]] = None
    <2>1. p \in evicted /\ (p[2] /= Bare \/ Kept(p[1]) \subseteq own[p[1]] \cup {Bare})
      BY <1>1, Zenon
    <2>2. p[1] \in Addresses /\ p[2] \in Names
      <3>1. p \in Addresses \X Names
        BY <2>1, Zenon DEF Types
      <3> QED
        BY <3>1, Zenon
    <2> DEFINE t == file[p[1]].rows[p[2]]
    <2>3. Retention > 0 /\ (file[p[1]] /= None /\ t /= None => t < now - Retention)
      BY <2>1, Zenon DEF Gone
    <2>4. file[p[1]] /= None /\ t /= None => t \in Nat
      <3>1. file[p[1]] /= None => file[p[1]].rows \in Shares
        BY <2>2, Zenon DEF Types
      <3>2. \A q \in Shares : q[p[2]] /= None => q[p[2]] \in Nat
        BY <2>2, RegistryAssumption DEF Shares
      <3> QED
        BY <3>1, <3>2, Zenon
    <2>5. now \in Nat /\ Retention \in Nat
      BY RegistryAssumption DEF Types
    <2>6. ~(file[p[1]] /= None /\ t /= None /\ t >= now - Retention)
      <3> HIDE DEF t
      <3> QED
        BY <2>3, <2>4, <2>5
    <2>7. p[2] \notin Kept(p[1])
      BY <2>3, <2>6, Zenon DEF Kept
    <2>8. Folded(p[1], own[p[1]], p[2]) = {}
      BY <1>1, <2>1, <2>2, <2>7, Zenon DEF Folded
    <2>9. Recovered(p[1], own[p[1]], p[2]) = None
      BY <1>1, <2>2, <2>8, RecoveredRow, Zenon
    <2> QED
      BY <1>1, <2>2, <2>9, Zenon
  <1>4. EvictedStaysGone'
    BY <1>3, Zenon DEF EvictedStaysGone
  <1>5. FilesFollow
    BY <1>2, Zenon DEF FilesFollow
  <1>6. evicted' \subseteq evicted
    BY <1>1, Zenon
  <1>7. \A p \in evicted' : p[1] \in Addresses /\ p[2] \in Names
    BY Zenon DEF Types
  <1>8. now <= now'
    BY <1>2, RegistryAssumption DEF Types
  <1> QED
    BY <1>2, <1>4, <1>5, <1>6, <1>7, <1>8, GoneStays, AsleepTypes, Zenon

\* No step brings back an evicted row: its copy is gone from the status
\* thread, and the line on disk is older than the retention.
LEMMA NextGone ==
  ASSUME Types, Types', ConnectedRowsKept, Aged, Gone, Next
  PROVE  Gone'
  <1>0. now <= now
    BY RegistryAssumption DEF Types
  <1>1. \A p \in evicted : p[1] \in Addresses /\ p[2] \in Names
    BY Zenon DEF Types
  <1>2. /\ EvictedStaysGone
        /\ status.at /= "files" =>
             \A a \in Addresses, w \in Names : status.rows[a][w] = None
        /\ \A p \in evicted : status.rows[p[1]][p[2]] = None
    BY Zenon DEF Gone
  <1>3. CASE Tick
    <2>1. UNCHANGED <<row, file, status, evicted>> /\ now' = now + 1
      BY <1>3, Zenon DEF Tick
    <2>2. now <= now'
      BY <2>1 DEF Types
    <2> QED
      BY <1>2, <2>1, <2>2, GoneStays, Zenon DEF FilesFollow, EvictedStaysGone
  <1>4. CASE RowStep
    <2>1. UNCHANGED <<now, file, status>>
      BY <1>4, Zenon DEF RowStep
    <2>2. ASSUME NEW a \in Addresses, NEW key \in Names, Enters(a, key)
          PROVE  evicted' \subseteq evicted /\ EvictedStaysGone'
      <3>1. evicted' = evicted \ {<<a, key>>}
        BY <2>2, Zenon DEF Enters
      <3>2. ASSUME NEW p \in evicted'
            PROVE  row'[p[1]][p[2]] = None
        <4>1. p \in evicted /\ p /= <<a, key>>
          BY <3>1, Zenon
        <4>2. p \in Addresses \X Names
          BY <4>1, Zenon DEF Types
        <4>3. p[1] /= a \/ p[2] /= key
          BY <4>1, <4>2
        <4>4. row'[p[1]][p[2]] = row[p[1]][p[2]]
          BY <1>1, <2>2, <4>1, <4>3, EntersOne
        <4> QED
          BY <1>2, <4>1, <4>4, Zenon DEF EvictedStaysGone
      <3> QED
        BY <3>1, <3>2, Zenon DEF EvictedStaysGone
    <2>3. ASSUME UNCHANGED <<row, evicted>>
          PROVE  evicted' \subseteq evicted /\ EvictedStaysGone'
      <3>1. row' = row /\ evicted' = evicted
        BY <2>3, Zenon
      <3> QED
        BY <1>2, <3>1, Zenon DEF EvictedStaysGone
    <2>4. evicted' \subseteq evicted /\ EvictedStaysGone'
      BY <1>4, <2>2, <2>3, Zenon DEF RowStep
    <2> QED
      BY <1>0, <1>2, <2>1, <2>4, GoneStays, Zenon DEF FilesFollow
  <1>5. CASE Snapshot
    <2>1. UNCHANGED <<now, row, file, evicted>>
      BY <1>5, Zenon DEF Snapshot
    <2> DEFINE copy == [b \in Addresses |->
                         [v \in Names |-> IF row[b][v] = None THEN None
                                          ELSE row[b][v].share]]
    <2>2. \/ status' = Asleep
          \/ \E todo : status' = [at |-> "files", rows |-> copy, todo |-> todo]
      BY <1>5, Zenon DEF Snapshot
    <2>3. \A a \in Addresses, w \in Names : row[a][w] = None => copy[a][w] = None
      BY Zenon
    <2> HIDE DEF copy
    <2>4. \A todo : /\ [at |-> "files", rows |-> copy, todo |-> todo].rows = copy
                    /\ [at |-> "files", rows |-> copy, todo |-> todo].at = "files"
      BY Zenon
    <2>5. ASSUME NEW p \in evicted'
          PROVE  status'.rows[p[1]][p[2]] = None
      <3>1. p \in evicted
        BY <2>1, Zenon
      <3>2. p[1] \in Addresses /\ p[2] \in Names /\ row[p[1]][p[2]] = None
        BY <1>1, <1>2, <3>1, Zenon DEF EvictedStaysGone
      <3>3. status'.rows = Asleep.rows \/ status'.rows = copy
        BY <2>2, <2>4, Zenon
      <3>4. Asleep.rows[p[1]][p[2]] = None /\ copy[p[1]][p[2]] = None
        BY <2>3, <3>2, AsleepTypes, Zenon
      <3> QED
        BY <3>3, <3>4, Zenon
    <2>6. status'.at /= "files" =>
            \A a \in Addresses, w \in Names : status'.rows[a][w] = None
      BY <2>2, <2>4, AsleepTypes, Zenon
    <2>7. FilesFollow /\ EvictedStaysGone'
      BY <1>2, <2>1, Zenon DEF FilesFollow, EvictedStaysGone
    <2> QED
      BY <1>0, <2>1, <2>5, <2>6, <2>7, GoneStays, Zenon
  <1>6. ASSUME NEW a \in Addresses, WriteUserFile(a)
        PROVE  Gone'
    <2>1. UNCHANGED <<now, row, evicted>> /\ status.at = "files"
      BY <1>6, Zenon DEF WriteUserFile
    <2>2. status' = Asleep \/ status' = [status EXCEPT !.todo = @ \ {a}]
      BY <1>6, Zenon DEF WriteUserFile
    <2>3. /\ [status EXCEPT !.todo = @ \ {a}].rows = status.rows
          /\ [status EXCEPT !.todo = @ \ {a}].at = status.at
      BY Zenon DEF Types
    <2>4. ASSUME NEW p \in evicted'
          PROVE  status'.rows[p[1]][p[2]] = None
      <3>1. p \in evicted
        BY <2>1, Zenon
      <3>2. p[1] \in Addresses /\ p[2] \in Names /\ status.rows[p[1]][p[2]] = None
        BY <1>1, <1>2, <3>1, Zenon
      <3>3. status'.rows = Asleep.rows \/ status'.rows = status.rows
        BY <2>2, <2>3, Zenon
      <3>4. Asleep.rows[p[1]][p[2]] = None
        BY <3>2, AsleepTypes, Zenon
      <3> QED
        BY <3>2, <3>3, <3>4, Zenon
    <2>5. status'.at /= "files" =>
            \A b \in Addresses, w \in Names : status'.rows[b][w] = None
      BY <2>1, <2>2, <2>3, AsleepTypes, Zenon
    <2>6. FilesFollow
      BY <1>6, WriteFollows, Zenon
    <2>7. EvictedStaysGone'
      BY <1>2, <2>1, Zenon DEF EvictedStaysGone
    <2> QED
      BY <1>0, <2>1, <2>4, <2>5, <2>6, <2>7, GoneStays, Zenon
  <1>7. CASE Sweep \/ NoSweep
    <2>1. UNCHANGED <<now, row, evicted>> /\ status' = Asleep
      BY <1>7, Zenon DEF Sweep, NoSweep
    <2>2. FilesFollow
      BY <1>7, Zenon DEF Sweep, NoSweep, FilesFollow
    <2>3. EvictedStaysGone'
      BY <1>2, <2>1, Zenon DEF EvictedStaysGone
    <2> QED
      BY <1>0, <1>1, <2>1, <2>2, <2>3, GoneStays, AsleepTypes, Zenon
  <1> QED
    BY <1>3, <1>4, <1>5, <1>6, <1>7, PruneGone, RestartGone, StepKinds, Zenon
------------------------------------------------------------------------------
(* The limits hold.                                                         *)

\* A request that enters a row stays within both limits.
LEMMA RowStepCounted ==
  ASSUME Types, Types', LimitsHold, RowStep
  PROVE  /\ Cardinality(Present') <= UserCap
         /\ nameCap' > 0 =>
              \A b \in Addresses : Cardinality(Known(row'[b]) \ {Bare}) <= nameCap'
  <1>0. UserCap \in Nat /\ nameCap \in Nat /\ nameCap' = nameCap
    BY RegistryAssumption, Zenon DEF Types, RowStep
  <1>1. CASE row' = row
    BY <1>0, <1>1, Zenon DEF LimitsHold, Present
  <1>2. ASSUME NEW a \in Addresses, NEW key \in Names, Enters(a, key)
        PROVE  /\ Cardinality(Present') <= UserCap
               /\ nameCap' > 0 =>
                    \A b \in Addresses : Cardinality(Known(row'[b]) \ {Bare}) <= nameCap'
    <2>1. \A b \in Addresses, w \in Names : b /= a \/ w /= key => row'[b][w] = row[b][w]
      BY <1>2, EntersOne, Zenon
    <2>2. /\ a \in Present \/ Cardinality(Present) < UserCap
          /\ row[a][key] /= None \/ key = Bare \/ nameCap = 0
               \/ Cardinality(Known(row[a]) \ {Bare}) < nameCap
      BY <1>2, Zenon DEF Enters, Allowed
    <2>3. Present' \subseteq Present \cup {a}
      BY <2>1, Zenon DEF Present, Known
    <2>4. Cardinality(Present') <= UserCap
      <3>1. IsFiniteSet(Present) /\ IsFiniteSet(Present \cup {a})
        BY Finite, Zenon DEF Present
      <3>2. CASE a \in Present
        <4>1. Present' \subseteq Present
          BY <2>3, <3>2, Zenon
        <4> QED
          BY <1>0, <3>1, <4>1, Smaller, Zenon DEF LimitsHold
      <3>3. CASE Cardinality(Present) < UserCap
        <4>1. Cardinality(Present \cup {a}) <= UserCap
          BY <1>0, <3>1, <3>3, OneMore, Zenon
        <4> QED
          BY <1>0, <2>3, <3>1, <4>1, Smaller, Zenon
      <3> QED
        BY <2>2, <3>2, <3>3, Zenon
    <2>5. ASSUME nameCap > 0, NEW b \in Addresses
          PROVE  Cardinality(Known(row'[b]) \ {Bare}) <= nameCap
      <3> DEFINE before == Known(row[b]) \ {Bare}
                 after == Known(row'[b]) \ {Bare}
      <3>1. Cardinality(before) <= nameCap
        BY <2>5, Zenon DEF LimitsHold
      <3>2. IsFiniteSet(before) /\ IsFiniteSet(before \cup {key})
        BY Finite, Zenon DEF Known
      <3>3. CASE after \subseteq before
        <4> HIDE DEF before, after
        <4>1. Cardinality(after) <= nameCap
          BY <1>0, <3>1, <3>2, <3>3, Smaller, Zenon
        <4> QED
          BY <4>1, Zenon DEF after
      <3>4. CASE b = a /\ Cardinality(before) < nameCap
        <4>1. after \subseteq before \cup {key}
          BY <2>1, <3>4, Zenon DEF Known
        <4> HIDE DEF before, after
        <4>2. Cardinality(before \cup {key}) <= nameCap
          BY <1>0, <3>2, <3>4, OneMore, Zenon
        <4>3. Cardinality(after) <= nameCap
          BY <1>0, <3>2, <4>1, <4>2, Smaller, Zenon
        <4> QED
          BY <4>3, Zenon DEF after
      <3>5. b /= a \/ row[a][key] /= None \/ key = Bare => after \subseteq before
        BY <2>1, Zenon DEF Known
      <3>6. nameCap /= 0
        BY <1>0, <2>5
      <3> QED
        BY <2>2, <3>3, <3>4, <3>5, <3>6, Zenon
    <2> QED
      BY <1>0, <2>4, <2>5, Zenon
  <1> QED
    BY <1>1, <1>2, Zenon DEF RowStep

\* Rows go, so both limits hold all the more.
LEMMA FewerRows ==
  ASSUME Types, LimitsHold, nameCap' = nameCap,
         \A a \in Addresses, w \in Names : row'[a][w] /= None => row[a][w] /= None
  PROVE  /\ Cardinality(Present') <= UserCap
         /\ nameCap' > 0 =>
              \A b \in Addresses : Cardinality(Known(row'[b]) \ {Bare}) <= nameCap'
  <1>0. UserCap \in Nat /\ nameCap \in Nat
    BY RegistryAssumption, Zenon DEF Types
  <1>1. Present' \subseteq Present /\ IsFiniteSet(Present)
    BY Finite, Zenon DEF Present, Known
  <1>2. Cardinality(Present') <= UserCap
    BY <1>0, <1>1, Smaller, Zenon DEF LimitsHold
  <1>3. ASSUME nameCap > 0, NEW b \in Addresses
        PROVE  Cardinality(Known(row'[b]) \ {Bare}) <= nameCap
    <2>1. /\ Known(row'[b]) \ {Bare} \subseteq Known(row[b]) \ {Bare}
          /\ IsFiniteSet(Known(row[b]) \ {Bare})
          /\ Cardinality(Known(row[b]) \ {Bare}) <= nameCap
      BY <1>3, Finite, Zenon DEF Known, LimitsHold
    <2> QED
      BY <1>0, <2>1, Smaller, Zenon
  <1> QED
    BY <1>2, <1>3, Zenon

\* recover_user_stats makes no more addresses than there are files, and no more
\* named rows of one than the limit it was started with.
LEMMA RestartCounted ==
  ASSUME Types, Types', LimitsHold, Restart
  PROVE  /\ Cardinality(Present') <= UserCap
         /\ nameCap' > 0 =>
              \A b \in Addresses : Cardinality(Known(row'[b]) \ {Bare}) <= nameCap'
  <1>1. PICK own \in [Addresses -> SUBSET (Names \ {Bare})] :
          /\ \A a \in Addresses : own[a] \in Own(a, nameCap') /\ own[a] \subseteq Kept(a)
          /\ row' = [a \in Addresses |-> [w \in Names |-> Recovered(a, own[a], w)]]
    BY RestartRows, Zenon
  <1>2. UserCap \in Nat /\ nameCap' \in Nat
    BY RegistryAssumption, Zenon DEF Types
  <1>3. ASSUME NEW a \in Addresses, NEW w \in Names, row'[a][w] /= None
        PROVE  a \in Files /\ (w /= Bare => w \in own[a])
    <2>1. Recovered(a, own[a], w) /= None
      BY <1>1, <1>3, Zenon
    <2>2. Folded(a, own[a], w) /= {}
      BY <1>1, <2>1, RecoveredRow, Zenon
    <2>3. Kept(a) /= {} /\ (w /= Bare => w \in own[a])
      BY <1>1, <2>2, Zenon DEF Folded
    <2> QED
      BY <2>3, Zenon DEF Kept, Files
  <1>4. Present' \subseteq Files /\ IsFiniteSet(Files)
    BY <1>3, Finite, Zenon DEF Present, Known, Files
  <1>5. Cardinality(Present') <= UserCap
    BY <1>2, <1>4, Smaller, Zenon DEF LimitsHold
  <1>6. ASSUME nameCap' > 0, NEW b \in Addresses
        PROVE  Cardinality(Known(row'[b]) \ {Bare}) <= nameCap'
    <2>1. Known(row'[b]) \ {Bare} \subseteq own[b]
      BY <1>3, Zenon DEF Known
    <2>2. IsFiniteSet(own[b]) /\ Cardinality(own[b]) \in Nat
      BY Finite, Zenon
    <2>3. nameCap' /= 0
      BY <1>2, <1>6
    <2>4. Cardinality(own[b]) <= nameCap' \/ Cardinality(own[b]) = nameCap'
      BY <1>1, <2>3, Zenon DEF Own
    <2>5. Cardinality(own[b]) <= nameCap'
      BY <1>2, <2>2, <2>4
    <2> QED
      BY <1>2, <2>1, <2>2, <2>5, Smaller, Zenon
  <1> QED
    BY <1>5, <1>6, Zenon

\* Names that cover the files bound them.
LEMMA LearntBounds ==
  ASSUME NEW F, NEW k, k \subseteq Addresses, F \subseteq k, Cardinality(k) <= UserCap
  PROVE  Cardinality(F) <= UserCap
  BY RegistryAssumption, Finite, Smaller, Zenon

\* The files stay within the limit, and within the names learnt.
LEMMA NextFiles ==
  ASSUME Types, Types', ConnectedRowsKept, Aged, Counted, Next
  PROVE  /\ Cardinality(Files') <= UserCap
         /\ known' /= None \/ status'.at = "files" => Learnt'
  <1> DEFINE Goal == /\ Cardinality(Files') <= UserCap
                     /\ known' /= None \/ status'.at = "files" => Learnt'
  <1>0. /\ UserCap \in Nat /\ IsFiniteSet(Files)
        /\ Cardinality(Files) <= UserCap /\ Files \subseteq Addresses
        /\ known /= None \/ status.at = "files" => Learnt
    BY RegistryAssumption, Finite, Zenon DEF Counted, LimitsHold, Learnt, Files
  <1>1. Asleep.at /= "files"
    BY AsleepTypes, Zenon
  <1>2. \A removed : file' = [a \in Addresses |-> IF a \in removed THEN None ELSE file[a]]
          => Files' \subseteq Files \ removed
    BY Zenon DEF Files
  <1>3. ASSUME UNCHANGED <<file, known, status>>
        PROVE  Goal
    BY <1>0, <1>3, Zenon DEF Files, Learnt
  <1>4. CASE Restart
    <2>1. file' = file /\ known' = None /\ status' = Asleep
      BY <1>4, Zenon DEF Restart
    <2> QED
      BY <1>0, <1>1, <2>1, Zenon DEF Files
  <1>5. CASE Prune
    <2>1. known' = known /\ status'.at = "snapshot"
      BY <1>5, Zenon DEF Prune, Types
    <2>2. Files' \subseteq Files
      BY <1>2, <1>5, Zenon DEF Prune
    <2>3. Cardinality(Files') <= UserCap
      BY <1>0, <2>2, Smaller, Zenon
    <2>4. status'.at /= "files"
      BY <2>1, Zenon
    <2> QED
      BY <1>0, <2>1, <2>2, <2>3, <2>4, Zenon DEF Learnt
  <1>6. CASE Snapshot
    <2>1. file' = file
      BY <1>6, Zenon DEF Snapshot
    <2>2. Files' = Files
      BY <2>1, Zenon DEF Files
    <2>3. \/ known' = Files
          \/ known' = known /\ (known /= None \/ (known = None /\ status' = Asleep))
      BY <1>6, Zenon DEF Snapshot
    <2>4. CASE known' = Files
      BY <1>0, <2>2, <2>4, Zenon DEF Learnt
    <2>5. CASE known' = known /\ known /= None
      BY <1>0, <2>2, <2>5, Zenon DEF Learnt
    <2>6. CASE known' = known /\ known = None /\ status' = Asleep
      BY <1>0, <1>1, <2>2, <2>6, Zenon
    <2> QED
      BY <2>3, <2>4, <2>5, <2>6, Zenon
  \* At the limit a new file is not written.
  <1>7. ASSUME NEW a \in Addresses, WriteUserFile(a)
        PROVE  Goal
    <2> DEFINE admitted == a \in known \/ Cardinality(known) < UserCap
    <2>1. /\ status.at = "files"
          /\ known' = IF admitted THEN known \cup {a} ELSE known
          /\ \/ file' = IF admitted
                        THEN [file EXCEPT ![a] = [rows |-> status.rows[a], mtime |-> now]]
                        ELSE file
             \/ file' = file
      BY <1>7, Zenon DEF WriteUserFile
    <2>2. known \subseteq Addresses /\ Files \subseteq known /\ Cardinality(known) <= UserCap
      BY <1>0, <2>1, Zenon DEF Learnt
    <2>3. IsFiniteSet(known)
      BY <2>2, Finite, Zenon
    <2>4. CASE admitted
      <3>1. known' = known \cup {a} /\ \A b \in Addresses : b /= a => file'[b] = file[b]
        BY <2>1, <2>4, Zenon DEF Types
      <3>2. Files' \subseteq known' /\ known' \subseteq Addresses
        BY <2>2, <3>1, Zenon DEF Files
      <3>3. a \in known => known \cup {a} = known
        BY Zenon
      <3>4. Cardinality(known') <= UserCap
        BY <1>0, <2>2, <2>3, <2>4, <3>1, <3>3, OneMore, Zenon
      <3> QED
        BY <3>2, <3>4, LearntBounds, Zenon DEF Learnt
    <2>5. CASE ~admitted
      <3>1. file' = file /\ known' = known
        BY <2>1, <2>5, Zenon
      <3> QED
        BY <1>0, <2>2, <3>1, Zenon DEF Files, Learnt
    <2> QED
      BY <2>4, <2>5, Zenon
  <1>8. CASE Sweep
    <2>1. PICK removed \in SUBSET StaleFiles, whole \in BOOLEAN :
            /\ file' = [a \in Addresses |-> IF a \in removed THEN None ELSE file[a]]
            /\ known' = IF whole THEN Files \ removed ELSE known
      BY <1>8, Zenon DEF Sweep
    <2>2. status.at = "files" /\ status' = Asleep
      BY <1>8, Zenon DEF Sweep
    <2>3. Files' \subseteq Files \ removed /\ Files' \subseteq Files
      BY <1>2, <2>1, Zenon
    <2>4. Cardinality(Files') <= UserCap /\ Cardinality(Files \ removed) <= UserCap
      BY <1>0, <2>3, Smaller, Zenon
    <2>5. Learnt
      BY <1>0, <2>2, Zenon
    <2> QED
      BY <1>0, <2>1, <2>3, <2>4, <2>5, Zenon DEF Learnt
  <1>9. CASE NoSweep
    <2>1. file' = file /\ known' = known /\ status' = Asleep /\ status.at = "files"
      BY <1>9, Zenon DEF NoSweep
    <2> QED
      BY <1>0, <2>1, Zenon DEF Files, Learnt
  <1>10. ASSUME Tick \/ RowStep
         PROVE  UNCHANGED <<file, known, status>>
    BY <1>10, Zenon DEF Tick, RowStep
  <1> QED
    BY <1>3, <1>4, <1>5, <1>6, <1>7, <1>8, <1>9, <1>10, StepKinds, Zenon

\* Every step keeps the rows and the files they are written to within the
\* limits of worker_entry.
LEMMA NextCounted ==
  ASSUME Types, Types', ConnectedRowsKept, Aged, Counted, Next
  PROVE  Counted'
  <1> DEFINE Goal == /\ Cardinality(Present') <= UserCap
                     /\ nameCap' > 0 =>
                          \A b \in Addresses : Cardinality(Known(row'[b]) \ {Bare}) <= nameCap'
  <1>0. LimitsHold
    BY Zenon DEF Counted
  <1>1. ASSUME UNCHANGED <<row, nameCap>>
        PROVE  Goal
    BY <1>0, <1>1, FewerRows, Zenon
  <1>2. ASSUME Prune
        PROVE  Goal
    <2>1. nameCap' = nameCap
      BY <1>2, Zenon DEF Prune
    <2>2. \A a \in Addresses, w \in Names : row'[a][w] /= None => row[a][w] /= None
      BY <1>2, Zenon DEF Prune
    <2> QED
      BY <1>0, <2>1, <2>2, FewerRows, Zenon
  <1>3. ASSUME \/ Tick \/ Snapshot \/ Sweep \/ NoSweep
               \/ \E a \in Addresses : WriteUserFile(a)
        PROVE  UNCHANGED <<row, nameCap>>
    BY <1>3, Zenon DEF Tick, Snapshot, Sweep, NoSweep, WriteUserFile
  <1>4. Goal
    BY <1>0, <1>1, <1>2, <1>3, RowStepCounted, RestartCounted, StepKinds, Zenon
  <1> QED
    BY <1>4, NextFiles, Zenon DEF Counted, LimitsHold
------------------------------------------------------------------------------
(* The theorems.                                                            *)

\* No address and no row, no file and no session to begin with.
LEMMA InitRegistry ==
  ASSUME Init
  PROVE  RegistryInv
  <1>0. /\ setup \in Setups /\ now = 1 /\ nameCap \in setup.caps
        /\ row = [a \in Addresses |-> NoRows] /\ session = [s \in Sessions |-> None]
        /\ file = [a \in Addresses |-> None]
        /\ known = None /\ status = Asleep /\ evicted = {}
    BY Zenon DEF Init
  <1>1. /\ \A a \in Addresses, w \in Names : row[a][w] = None
        /\ \A a \in Addresses : file[a] = None
        /\ \A s \in Sessions : session[s] = None
    BY <1>0, Zenon DEF NoRows
  <1>2. Types
    <2>1. now \in 1..MaxNow
      BY <1>0, RegistryAssumption
    <2>2. nameCap \in Nat
      BY <1>0, RegistryAssumption, Zenon
    <2>3. row \in [Addresses -> [Names -> Rows \cup {None}]]
      BY <1>0, Zenon DEF NoRows
    <2>4. /\ session \in [Sessions -> [address : Addresses, name : Names, holds : BOOLEAN]
                                        \cup {None}]
          /\ file \in [Addresses -> [rows : Shares, mtime : 1..MaxNow] \cup {None}]
          /\ evicted \subseteq Addresses \X Names
      BY <1>0, Zenon
    <2> QED
      BY <1>0, <2>1, <2>2, <2>3, <2>4, AsleepTypes, Zenon DEF Types
  <1>3. ConnectedRowsKept
    BY <1>1, Zenon DEF ConnectedRowsKept
  <1>4. \A a \in Addresses, w \in Names : status.rows[a][w] = None
    BY <1>0, AsleepTypes, Zenon
  <1>5. Aged
    BY <1>1, <1>4, Zenon DEF Aged, Older
  <1>6. Gone
    BY <1>0, <1>4, Zenon DEF Gone, EvictedStaysGone
  <1>7. Counted
    <2>1. Present = {} /\ Files = {}
      BY <1>1, Zenon DEF Present, Files, Known
    <2>2. \A a \in Addresses : Known(row[a]) \ {Bare} = {}
      BY <1>1, Zenon DEF Known
    <2>3. Cardinality({}) = 0
      BY FS_EmptySet, Zenon
    <2>4. 0 <= UserCap /\ 0 <= nameCap
      BY <1>2, RegistryAssumption DEF Types
    <2>5. LimitsHold
      BY <2>1, <2>2, <2>3, <2>4, Zenon DEF LimitsHold
    <2>6. known = None /\ status.at /= "files"
      BY <1>0, AsleepTypes, Zenon
    <2> QED
      BY <2>5, <2>6, Zenon DEF Counted
  <1> QED
    BY <1>2, <1>3, <1>5, <1>6, <1>7, Zenon DEF RegistryInv

\* The inductive invariant holds of every behaviour.
LEMMA AlwaysRegistry == Spec => []RegistryInv
  <1>1. Init => RegistryInv
    BY InitRegistry, Zenon
  <1>2. RegistryInv /\ [Next]_vars => RegistryInv'
    <2>1. CASE Next
      <3> SUFFICES ASSUME RegistryInv
                   PROVE  RegistryInv'
        BY <2>1, Zenon
      <3>1. Types /\ ConnectedRowsKept /\ Aged /\ Gone /\ Counted
        BY Zenon DEF RegistryInv
      <3>2. Types'
        BY <2>1, <3>1, NextTypes, Zenon
      <3> QED
        BY <2>1, <3>1, <3>2, NextConnected, NextAged, NextGone, NextCounted, Zenon DEF RegistryInv
    <2>2. CASE UNCHANGED vars
      <3>1. /\ setup' = setup /\ now' = now /\ nameCap' = nameCap /\ row' = row
            /\ session' = session /\ file' = file /\ known' = known /\ status' = status
            /\ evicted' = evicted
        BY <2>2, Zenon DEF vars
      <3>2. Types => Types'
        BY <3>1, Zenon DEF Types
      <3>3. ConnectedRowsKept => ConnectedRowsKept'
        BY <3>1, Zenon DEF ConnectedRowsKept
      <3>4. Aged => Aged'
        BY <3>1, Zenon DEF Aged, Older
      <3>5. Gone => Gone'
        BY <3>1, Zenon DEF Gone, EvictedStaysGone
      <3>6. Counted => Counted'
        BY <3>1, Zenon DEF Counted, LimitsHold, Learnt, Present, Files
      <3> QED
        BY <3>2, <3>3, <3>4, <3>5, <3>6, Zenon DEF RegistryInv
    <2> QED
      BY <2>1, <2>2, Zenon
  <1> QED
    BY <1>1, <1>2, PTL DEF Spec

\* prune_user_stats never evicts a connected worker: the row a session holds is in
\* the registry, for any number of sessions on it.
THEOREM ConnectedRowsAreKept == Spec => []ConnectedRowsKept
  BY AlwaysRegistry, PTL DEF RegistryInv

\* No crash and restart brings back a row that was evicted for its age, wherever
\* between pruning, the snapshot and the files the process died.
THEOREM EvictedRowsStayGone == Spec => []EvictedStaysGone
  BY AlwaysRegistry, PTL DEF RegistryInv, Gone

\* The limits on addresses, on the names of an address and on files hold.
THEOREM RegistryIsBounded == Spec => []LimitsHold
  BY AlwaysRegistry, PTL DEF RegistryInv, Counted
==============================================================================
