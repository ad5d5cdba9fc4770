------------------------ MODULE StratumSession_proof ------------------------
(***************************************************************************)
(* The safety properties of StratumSession, for any addresses, shares,     *)
(* difficulties and bounds.                                                *)
(***************************************************************************)
EXTENDS StratumSession, SequenceTheorems, FiniteSetTheorems, TLAPS

USE DEF pool, identity, level, dedup, work, counters, miner

\* The numbers of the session and of the share in hand, and the two sets.
Types ==
  /\ published \in Nat /\ last_notified_publication_sequence \in Nat
  /\ difficulty \in Nat /\ previous_difficulty \in Nat /\ sent \in Nat
  /\ pending_difficulty_change \in BOOLEAN
  /\ undelivered \subseteq [job : Nat, clean : BOOLEAN]
  /\ rotations \in Nat
  /\ IsFiniteSet(seen_shares_current) /\ IsFiniteSet(seen_shares_previous)
  /\ ledger \in Seq(Range(ledger))
  /\ pc = "validate" => /\ share.difficulty \in Nat /\ share.previous \in Nat
                        /\ share.pending \in BOOLEAN /\ share.gen \in Nat

\* What the miner was last sent with a job is the difficulty, or while a change
\* is pending the one before it.
Levels ==
  /\ MinerKnowsDifficulty
  /\ last_notified_publication_sequence > 0 =>
       sent = IF pending_difficulty_change THEN previous_difficulty ELSE difficulty

\* A cached coinbase pays the session's address, and so does a share in hand.
Paying ==
  /\ coinbase2_cache # None => coinbase2_cache.pays = address
  /\ pc = "validate" => share.to = share.pays
  /\ CreditPaysMiner

\* A key of generation g is still in the set of its generation.
Remembered(key, g) ==
  /\ g \in Nat /\ g <= rotations
  /\ g = rotations => key \in seen_shares_current
  /\ g = rotations - 1 => key \in seen_shares_previous

\* Of what was credited, and of the share in hand, the keys are remembered.
Seen ==
  /\ \A i \in DOMAIN ledger : Remembered(ledger[i].key, ledger[i].gen)
  /\ pc = "validate" =>
       /\ Remembered(share.key, share.gen)
       /\ \A i \in DOMAIN ledger :
            ledger[i].key = share.key => share.gen >= ledger[i].gen + 2
  /\ RememberedForAGeneration

\* The inductive invariant.
SessionInv == Types /\ Levels /\ Paying /\ CreditIsEarned /\ Seen
-----------------------------------------------------------------------------
(* Facts about the operators.                                               *)

\* Clamping and retargeting give a difficulty.
LEMMA DifficultyIsNat ==
  ASSUME NEW d \in Nat, NEW rate
  PROVE  Clamp(d) \in Nat /\ VardiffNext(d, rate) \in Nat
  <1>1. Clamp(d) \in Nat
    BY VardiffAssumption, Zenon DEF Clamp, Smaller, Larger
  <1>2. Clamp(d) * 2 \in Nat /\ Clamp(d) \div 2 \in Nat
    BY <1>1
  <1> QED
    BY <1>1, <1>2, VardiffAssumption, Zenon DEF VardiffNext, Smaller, Larger

\* A sequence, with one entry more.
LEMMA Extended ==
  ASSUME NEW s, s \in Seq(Range(s)), NEW x
  PROVE  /\ Append(s, x) \in Seq(Range(Append(s, x)))
         /\ Len(s) \in Nat /\ DOMAIN s = 1..Len(s)
         /\ DOMAIN Append(s, x) = 1..(Len(s) + 1)
         /\ Append(s, x)[Len(s) + 1] = x
         /\ \A i \in 1..Len(s) : Append(s, x)[i] = s[i]
  <1> DEFINE T == Range(s) \cup {x}
  <1>1. Len(s) \in Nat /\ DOMAIN s = 1..Len(s) /\ s \in [1..Len(s) -> Range(s)]
    BY LenProperties, Zenon
  <1>2. s \in Seq(T)
    BY <1>1
  <1>3. /\ Append(s, x) \in Seq(T)
        /\ DOMAIN Append(s, x) = 1..(Len(s) + 1)
        /\ Append(s, x)[Len(s) + 1] = x
        /\ \A i \in 1..Len(s) : Append(s, x)[i] = s[i]
    BY <1>1, <1>2, AppendProperties, LenProperties
  <1>4. Range(Append(s, x)) = T
    <2>1. \A i \in 1..(Len(s) + 1) : i \in 1..Len(s) \/ i = Len(s) + 1
      BY <1>1
    <2> HIDE DEF T
    <2>2. \A y : y \in T <=> (\E i \in 1..Len(s) : y = s[i]) \/ y = x
      BY <1>1, Zenon DEF T, Range
    <2>3. \A y : y \in Range(Append(s, x)) <=>
                   \E i \in 1..(Len(s) + 1) : y = Append(s, x)[i]
      BY <1>3, Zenon DEF Range
    <2>4. \A i \in 1..Len(s) : i \in 1..(Len(s) + 1)
      BY <1>1
    <2>5. Len(s) + 1 \in 1..(Len(s) + 1)
      BY <1>1
    <2> QED
      BY <1>3, <2>1, <2>2, <2>3, <2>4, <2>5, Zenon
  <1> QED
    BY <1>1, <1>3, <1>4, Zenon

-----------------------------------------------------------------------------
(* What the steps do.                                                       *)

\* Sending a job, or not: the difficulty it came with, the coinbase it was
\* built with, and a generation of seen shares that ends or does not.
Rotated == UNCHANGED dedup \/ (Rotate /\ seen_shares_current' = {})

Sends ==
  \/ UNCHANGED <<pending_difficulty_change, sent, last_notified_publication_sequence>>
  \/ /\ pending_difficulty_change' = FALSE /\ sent' = difficulty
     /\ last_notified_publication_sequence' \in Nat

Caches(a, cache) ==
  coinbase2_cache' = cache \/ coinbase2_cache'.pays = a

\* build_notify_line sends the session's difficulty with the job.
LEMMA BuildNotifySends ==
  ASSUME Types, NEW j \in Nat, NEW clean, NEW a, NEW cache,
         BuildNotify(j, clean, a, cache, difficulty)
  PROVE  Rotated /\ Sends /\ Caches(a, cache)
  <1>1. Rotated
    BY Zenon DEF BuildNotify, CleanRotation, Rotated
  <1>2. Sends
    BY Zenon DEF BuildNotify, Sends, Types, Larger
  <1>3. Caches(a, cache)
    BY Zenon DEF BuildNotify, Caches
  <1> QED
    BY <1>1, <1>2, <1>3, Zenon

\* send_difficulty_then_work tells the miner its difficulty.
LEMMA SendDifficultySends ==
  ASSUME Types, NEW a, NEW cache, SendDifficultyThenWork(a, cache)
  PROVE  Rotated /\ Sends /\ Caches(a, cache) /\ told' = difficulty
  <1>1. CASE /\ coinbase2_cache' = cache
             /\ UNCHANGED <<last_notified_publication_sequence, dedup,
                            pending_difficulty_change, sent>>
    BY <1>1, Zenon DEF Rotated, Sends, Caches, SendDifficultyThenWork
  <1>2. CASE BuildNotify(published, TRUE, a, cache, difficulty)
    BY <1>2, BuildNotifySends, Zenon DEF Types, SendDifficultyThenWork
  <1> QED
    BY <1>1, <1>2, Zenon DEF SendDifficultyThenWork

\* The steps outside mining.submit; none of them touches a share.
Quiet ==
  \/ Publish \/ Notify \/ Subscribe \/ Configure \/ Authorize \/ BadAuthorize
  \/ SuggestDifficulty \/ MaybeRetarget \/ UNCHANGED vars

\* A publication is sent or dropped.
LEMMA NotifySends ==
  ASSUME Types, Notify
  PROVE  /\ Rotated /\ Sends /\ Caches(address, coinbase2_cache)
         /\ undelivered' \subseteq undelivered
         /\ UNCHANGED <<published, identity, difficulty, previous_difficulty, told,
                        pc, share, ledger>>
  <1>1. PICK p \in undelivered :
          /\ undelivered' = undelivered \ {p}
          /\ \/ UNCHANGED <<work, dedup, pending_difficulty_change, sent>>
             \/ BuildNotify(p.job, p.clean, address, coinbase2_cache, difficulty)
    BY Zenon DEF Notify
  <1>2. p.job \in Nat
    BY Zenon DEF Types
  <1>3. Rotated /\ Sends /\ Caches(address, coinbase2_cache)
    <2>1. CASE UNCHANGED <<work, dedup, pending_difficulty_change, sent>>
      BY <2>1, Zenon DEF Rotated, Sends, Caches
    <2>2. CASE BuildNotify(p.job, p.clean, address, coinbase2_cache, difficulty)
      BY <1>2, <2>2, BuildNotifySends, Zenon
    <2> QED
      BY <1>1, <2>1, <2>2, Zenon
  <1>4. UNCHANGED <<published, identity, difficulty, previous_difficulty, told,
                    pc, share, ledger>>
    BY Zenon DEF Notify
  <1> QED
    BY <1>1, <1>3, <1>4, Zenon

\* A client that subscribes is sent its work if it is authorized.
LEMMA SubscribeSends ==
  ASSUME Types, Subscribe
  PROVE  /\ Rotated /\ Sends /\ Caches(address, coinbase2_cache)
         /\ authorized => told' = difficulty
         /\ UNCHANGED <<published, undelivered, authorized, address, difficulty,
                        previous_difficulty, pc, share, ledger>>
  <1>1. CASE authorized /\ SendDifficultyThenWork(address, coinbase2_cache)
    BY <1>1, SendDifficultySends, Zenon DEF Subscribe
  <1>2. CASE ~authorized /\ UNCHANGED <<miner, work, dedup, pending_difficulty_change>>
    BY <1>2, Zenon DEF Subscribe, Rotated, Sends, Caches
  <1> QED
    BY <1>1, <1>2, Zenon DEF Subscribe

\* A client that authorizes is sent its work if it is subscribed, built for the
\* address it gave.
LEMMA AuthorizeSends ==
  ASSUME Types, Authorize
  PROVE  /\ Rotated /\ Sends /\ told' = difficulty
         /\ \/ coinbase2_cache' = None \/ coinbase2_cache'.pays = address'
            \/ address' = address /\ coinbase2_cache' = coinbase2_cache
         /\ UNCHANGED <<published, undelivered, subscribed, difficulty,
                        previous_difficulty, pc, share, ledger>>
  <1>1. PICK a \in Addresses :
          /\ address' = a
          /\ SendDifficultyThenWork(a, IF address = a THEN coinbase2_cache ELSE None)
    BY Zenon DEF Authorize
  <1>2. Rotated /\ Sends /\ told' = difficulty
    BY <1>1, SendDifficultySends, Zenon
  <1>3. Caches(a, IF address = a THEN coinbase2_cache ELSE None)
    BY <1>1, SendDifficultySends, Zenon
  <1>4. UNCHANGED <<published, undelivered, subscribed, difficulty,
                    previous_difficulty, pc, share, ledger>>
    BY Zenon DEF Authorize
  <1> QED
    BY <1>1, <1>2, <1>3, <1>4, Zenon DEF Caches

\* The difficulty of a session is a number, whatever a miner suggests and
\* vardiff finds.
LEMMA ChangesDifficulty ==
  ASSUME Types, SuggestDifficulty \/ MaybeRetarget
  PROVE  /\ \/ UNCHANGED <<difficulty, previous_difficulty,
                           pending_difficulty_change, told>>
            \/ /\ previous_difficulty' = IF pending_difficulty_change
                                         THEN previous_difficulty ELSE difficulty
               /\ pending_difficulty_change' = TRUE
               /\ difficulty' \in Nat
               /\ subscribed /\ authorized => told' = difficulty'
         /\ UNCHANGED <<published, undelivered, identity, dedup, work, sent, pc,
                        share, ledger>>
  <1>1. CASE SuggestDifficulty
    <2>1. PICK d \in Difficulties :
            /\ BeginDifficultyChange(Clamp(d))
            /\ told' = IF subscribed THEN Clamp(d) ELSE told
      BY <1>1, Zenon DEF SuggestDifficulty
    <2>2. Clamp(d) \in Nat
      BY DifficultyIsNat, DifficultiesAssumption, Zenon
    <2> QED
      BY <1>1, <2>1, <2>2, Zenon DEF SuggestDifficulty, BeginDifficultyChange
  <1>2. CASE MaybeRetarget
    <2>1. PICK rate \in RatesAfter(mined) :
            \/ /\ BeginDifficultyChange(VardiffNext(difficulty, rate))
               /\ told' = VardiffNext(difficulty, rate)
            \/ UNCHANGED <<difficulty, previous_difficulty,
                           pending_difficulty_change, told>>
      BY <1>2, Zenon DEF MaybeRetarget
    <2>2. VardiffNext(difficulty, rate) \in Nat
      BY DifficultyIsNat, Zenon DEF Types
    <2>3. UNCHANGED <<published, undelivered, identity, dedup, work, sent, pc,
                      share, ledger>>
      BY <1>2, Zenon DEF MaybeRetarget
    <2> QED
      BY <2>1, <2>2, <2>3, Zenon DEF BeginDifficultyChange
  <1> QED
    BY <1>1, <1>2, Zenon

\* What all of them leave alone.
LEMMA QuietLeaves ==
  ASSUME Types, Quiet
  PROVE  Rotated /\ UNCHANGED <<pc, share, ledger>>
  <1>1. CASE Publish \/ Configure \/ BadAuthorize \/ UNCHANGED vars
    BY <1>1, Zenon DEF Publish, Configure, BadAuthorize, vars, Rotated
  <1>2. CASE SuggestDifficulty \/ MaybeRetarget
    BY <1>2, ChangesDifficulty, Zenon DEF Rotated
  <1> QED
    BY <1>1, <1>2, NotifySends, SubscribeSends, AuthorizeSends, Zenon DEF Quiet

\* A share is refused, or its key, not seen in two generations, is remembered
\* and the share taken in hand with a copy of the session's state.
LEMMA SubmitTakes ==
  ASSUME Submit
  PROVE  /\ \/ UNCHANGED <<dedup, coinbase2_cache, pc, share>>
            \/ /\ share'.key \notin seen_shares_current \cup seen_shares_previous
               /\ Remember(share'.key)
               /\ share'.gen = rotations'
               /\ share'.to = address /\ share'.pays = coinbase2_cache'.pays
               /\ \/ coinbase2_cache # None /\ coinbase2_cache' = coinbase2_cache
                  \/ coinbase2_cache'.pays = address
               /\ share'.difficulty = difficulty
               /\ share'.previous = previous_difficulty
               /\ share'.pending = pending_difficulty_change
         /\ pc = "idle"
         /\ UNCHANGED <<published, undelivered, identity, level,
                        last_notified_publication_sequence, miner, ledger>>
  <1>1. PICK s \in [job : 1..MaxJobs, fields : Solutions, bits : VersionBits] :
          \/ UNCHANGED <<dedup, coinbase2_cache, pc, share>>
          \/ /\ DedupKey(s) \notin seen_shares_current \cup seen_shares_previous
             /\ Remember(DedupKey(s))
             /\ coinbase2_cache' = Coinbase2For(s.job, address)
             /\ share' = [key |-> DedupKey(s), job |-> s.job, fields |-> s.fields,
                          bits |-> s.bits, to |-> address,
                          pays |-> Coinbase2For(s.job, address).pays,
                          difficulty |-> difficulty, previous |-> previous_difficulty,
                          pending |-> pending_difficulty_change, mask |-> version_mask,
                          gen |-> rotations']
    BY Zenon DEF Submit, Refuse
  <1>2. /\ pc = "idle"
        /\ UNCHANGED <<published, undelivered, identity, level,
                       last_notified_publication_sequence, miner, ledger>>
    BY Zenon DEF Submit
  <1>3. \/ Coinbase2For(s.job, address) = coinbase2_cache /\ coinbase2_cache # None
        \/ Coinbase2For(s.job, address).pays = address
    BY Zenon DEF Coinbase2For
  <1>4. CASE UNCHANGED <<dedup, coinbase2_cache, pc, share>>
    BY <1>2, <1>4, Zenon
  <1>5. CASE ~UNCHANGED <<dedup, coinbase2_cache, pc, share>>
    BY <1>1, <1>2, <1>3, <1>5
  <1> QED
    BY <1>4, <1>5, Zenon

\* The share in hand is refused, or credited for what its hash met.
LEMMA ValidateCredits ==
  ASSUME Types, Validate
  PROVE  /\ \/ ledger' = ledger
            \/ \E e : /\ ledger' = Append(ledger, e)
                      /\ e.key = share.key /\ e.gen = share.gen
                      /\ e.to = share.to /\ e.pays = share.pays
                      /\ e.credit <= e.met \/ e.block
         /\ pc = "validate" /\ pc' # "validate"
         /\ UNCHANGED <<published, undelivered, identity, level, dedup, work, miner>>
  <1>1. PICK met \in Difficulties :
          \/ ledger' = ledger
          \/ /\ MeetsTarget(share, met)
             /\ ledger' = Append(ledger,
                  [key |-> share.key, to |-> share.to, pays |-> share.pays,
                   header |-> <<share.job, share.fields, HeaderVersion(share), share.pays>>,
                   credit |-> Credited(share, met), met |-> met,
                   block |-> met >= NetworkDifficulty, gen |-> share.gen])
    BY Zenon DEF Validate
  <1>2. /\ pc = "validate" /\ pc' # "validate"
        /\ UNCHANGED <<published, undelivered, identity, level, dedup, work, miner>>
    <2>1. pc' = "low" \/ pc' = "invalid" \/ pc' = "accepted"
      BY Zenon DEF Validate
    <2> QED
      BY <2>1, Zenon DEF Validate
  <1>3. MeetsTarget(share, met) => Credited(share, met) <= met \/ met >= NetworkDifficulty
    <2>1. /\ share.difficulty \in Nat /\ share.previous \in Nat
          /\ share.pending \in BOOLEAN /\ met \in Nat /\ NetworkDifficulty \in Nat
      BY <1>2, DifficultiesAssumption, Zenon DEF Types
    <2> QED
      BY <2>1, Zenon DEF MeetsTarget, Credited, Required, Larger, Smaller
  <1> DEFINE e == [key |-> share.key, to |-> share.to, pays |-> share.pays,
                   header |-> <<share.job, share.fields, HeaderVersion(share), share.pays>>,
                   credit |-> Credited(share, met), met |-> met,
                   block |-> met >= NetworkDifficulty, gen |-> share.gen]
  <1>4. MeetsTarget(share, met) =>
          /\ e.key = share.key /\ e.gen = share.gen
          /\ e.to = share.to /\ e.pays = share.pays
          /\ e.credit <= e.met \/ e.block
    BY <1>3, Zenon
  <1>5. ledger' = ledger \/ (MeetsTarget(share, met) /\ ledger' = Append(ledger, e))
    BY <1>1, Zenon
  <1> HIDE DEF e
  <1> QED
    BY <1>2, <1>4, <1>5, Zenon

\* The reply: the share is out of hand.
LEMMA FinishLeaves ==
  ASSUME Finish
  PROVE  /\ pc # "validate" /\ pc' # "validate"
         /\ UNCHANGED <<published, undelivered, identity, difficulty,
                        previous_difficulty, pending_difficulty_change, dedup, work,
                        miner, ledger>>
  BY Zenon DEF Finish

-----------------------------------------------------------------------------
(* The invariant.                                                           *)

\* The numbers stay numbers and the sets finite.
LEMMA NextTypes ==
  ASSUME Types, [Next]_vars
  PROVE  Types'
  <1>1. ASSUME Rotated
        PROVE  /\ rotations' \in Nat /\ IsFiniteSet(seen_shares_current')
               /\ IsFiniteSet(seen_shares_previous')
    <2>1. rotations \in Nat /\ IsFiniteSet(seen_shares_current)
          /\ IsFiniteSet(seen_shares_previous)
      BY Zenon DEF Types
    <2>2. rotations' \in Nat
      BY <1>1, <2>1 DEF Rotated, Rotate
    <2>3. /\ seen_shares_current' = seen_shares_current \/ seen_shares_current' = {}
          /\ \/ seen_shares_previous' = seen_shares_previous
             \/ seen_shares_previous' = seen_shares_current
      BY <1>1, Zenon DEF Rotated, Rotate
    <2> QED
      BY <2>1, <2>2, <2>3, FS_EmptySet, Zenon
  <1>2. CASE Publish
    <2>1. /\ published' \in Nat
          /\ undelivered' \subseteq [job : Nat, clean : BOOLEAN]
      BY <1>2 DEF Publish, Types
    <2> QED
      BY <1>2, <2>1, Zenon DEF Publish, Types
  <1>3. CASE Notify \/ Subscribe \/ Authorize
    <2>1. /\ Rotated /\ Sends /\ undelivered' \subseteq undelivered
          /\ UNCHANGED <<published, difficulty, previous_difficulty, pc, share, ledger>>
      BY <1>3, NotifySends, SubscribeSends, AuthorizeSends, Zenon
    <2> QED
      BY <1>1, <2>1, Zenon DEF Types, Sends
  <1>4. CASE Configure \/ BadAuthorize \/ UNCHANGED vars
    BY <1>4, Zenon DEF Configure, BadAuthorize, vars, Types
  <1>5. CASE SuggestDifficulty \/ MaybeRetarget
    BY <1>5, ChangesDifficulty, Zenon DEF Types
  <1>6. CASE Submit
    <2>1. ASSUME NEW key, Remember(key)
          PROVE  /\ rotations' \in Nat /\ IsFiniteSet(seen_shares_current')
                 /\ IsFiniteSet(seen_shares_previous')
      <3>1. IsFiniteSet({key}) /\ IsFiniteSet(seen_shares_current \cup {key})
        BY FS_Singleton, FS_AddElement, Zenon DEF Types
      <3>2. rotations' \in Nat
        BY <2>1 DEF Remember, Rotate, Types
      <3>3. /\ \/ seen_shares_current' = seen_shares_current \cup {key}
               \/ seen_shares_current' = {key}
            /\ \/ seen_shares_previous' = seen_shares_previous
               \/ seen_shares_previous' = seen_shares_current
        BY <2>1, Zenon DEF Remember, Rotate
      <3>4. IsFiniteSet(seen_shares_current) /\ IsFiniteSet(seen_shares_previous)
        BY Zenon DEF Types
      <3> QED
        BY <3>1, <3>2, <3>3, <3>4, Zenon
    <2>2. CASE UNCHANGED <<dedup, coinbase2_cache, pc, share>>
      BY <1>6, <2>2, SubmitTakes, Zenon DEF Types
    <2>3. CASE ~UNCHANGED <<dedup, coinbase2_cache, pc, share>>
      <3>1. Remember(share'.key)
        BY <1>6, <2>3, SubmitTakes, Zenon
      <3>2. /\ rotations' \in Nat /\ IsFiniteSet(seen_shares_current')
            /\ IsFiniteSet(seen_shares_previous')
        BY <2>1, <3>1, Zenon
      <3>3. /\ share'.difficulty \in Nat /\ share'.previous \in Nat
            /\ share'.pending \in BOOLEAN /\ share'.gen \in Nat
        BY <1>6, <2>3, <3>2, SubmitTakes, Zenon DEF Types
      <3> QED
        BY <1>6, <3>2, <3>3, SubmitTakes, Zenon DEF Types
    <2> QED
      BY <2>2, <2>3, Zenon
  <1>7. CASE Validate
    <2>1. ledger \in Seq(Range(ledger))
      BY Zenon DEF Types
    <2>2. ASSUME NEW e, ledger' = Append(ledger, e)
          PROVE  ledger' \in Seq(Range(ledger'))
      <3>1. Append(ledger, e) \in Seq(Range(Append(ledger, e)))
        BY <2>1, Extended, Zenon
      <3> QED
        BY <2>2, <3>1, Zenon
    <2>3. ledger' = ledger \/ \E e : ledger' = Append(ledger, e)
      BY <1>7, ValidateCredits, Zenon
    <2>4. ledger' \in Seq(Range(ledger'))
      BY <2>1, <2>2, <2>3, Zenon
    <2> QED
      BY <1>7, <2>4, ValidateCredits, Zenon DEF Types
  <1>8. CASE Finish
    BY <1>8, FinishLeaves, Zenon DEF Types
  <1> QED
    BY <1>2, <1>3, <1>4, <1>5, <1>6, <1>7, <1>8, Zenon DEF Next
\* Every job is sent with the session's difficulty, and every change of it is
\* told; a change keeps what the last job was sent with.
LEMMA NextLevels ==
  ASSUME Types, Levels, [Next]_vars
  PROVE  Levels'
  <1> USE DEF Levels, MinerKnowsDifficulty
  <1>1. CASE Publish \/ Configure \/ BadAuthorize \/ UNCHANGED vars
    BY <1>1 DEF Publish, Configure, BadAuthorize, vars
  <1>2. CASE Notify \/ Subscribe \/ Authorize
    <2>1. Sends /\ UNCHANGED <<difficulty, previous_difficulty>>
      BY <1>2, NotifySends, SubscribeSends, AuthorizeSends, Zenon
    <2>2. MinerKnowsDifficulty'
      BY <1>2, <2>1, NotifySends, SubscribeSends, AuthorizeSends, Zenon
    <2> QED
      BY <2>1, <2>2 DEF Sends
  <1>3. CASE SuggestDifficulty \/ MaybeRetarget
    <2>1. UNCHANGED <<identity, work, sent>>
      BY <1>3, ChangesDifficulty, Zenon
    <2>2. CASE UNCHANGED <<difficulty, previous_difficulty,
                           pending_difficulty_change, told>>
      BY <2>1, <2>2, Zenon
    <2>3. CASE /\ previous_difficulty' = IF pending_difficulty_change
                                         THEN previous_difficulty ELSE difficulty
               /\ pending_difficulty_change' = TRUE
               /\ subscribed /\ authorized => told' = difficulty'
      BY <2>1, <2>3, Zenon
    <2> QED
      BY <1>3, <2>2, <2>3, ChangesDifficulty, Zenon
  <1>4. CASE Submit
    BY <1>4, SubmitTakes
  <1>5. CASE Validate
    BY <1>5, ValidateCredits
  <1>6. CASE Finish
    BY <1>6, FinishLeaves
  <1> QED
    BY <1>1, <1>2, <1>3, <1>4, <1>5, <1>6, Zenon DEF Next

\* A share is worked on a coinbase that pays the address it was submitted for.
LEMMA NextPaying ==
  ASSUME Types, Paying, [Next]_vars
  PROVE  Paying'
  <1>1. CASE Publish \/ Configure \/ BadAuthorize \/ UNCHANGED vars
    BY <1>1, Zenon DEF Publish, Configure, BadAuthorize, vars, Paying, CreditPaysMiner
  <1>2. CASE Notify
    BY <1>2, NotifySends, Zenon DEF Paying, CreditPaysMiner, Caches
  <1>3. CASE Subscribe
    BY <1>3, SubscribeSends, Zenon DEF Paying, CreditPaysMiner, Caches
  <1>4. CASE Authorize
    BY <1>4, AuthorizeSends, Zenon DEF Paying, CreditPaysMiner
  <1>5. CASE SuggestDifficulty \/ MaybeRetarget
    BY <1>5, ChangesDifficulty, Zenon DEF Paying, CreditPaysMiner
  <1>6. CASE Submit
    BY <1>6, SubmitTakes, Zenon DEF Paying, CreditPaysMiner
  <1>7. CASE Validate
    <2>1. ASSUME NEW e, ledger' = Append(ledger, e), e.to = e.pays
          PROVE  CreditPaysMiner'
      <3>1. \A i \in 1..Len(ledger) : ledger[i].to = ledger[i].pays
        BY Extended, Zenon DEF Types, Paying, CreditPaysMiner
      <3>2. \A i \in DOMAIN ledger' : i \in 1..Len(ledger) \/ i = Len(ledger) + 1
        BY <2>1, Extended DEF Types
      <3>3. /\ ledger'[Len(ledger) + 1] = e
            /\ \A i \in 1..Len(ledger) : ledger'[i] = ledger[i]
        BY <2>1, Extended DEF Types
      <3> QED
        BY <2>1, <3>1, <3>2, <3>3, Zenon DEF CreditPaysMiner
    <2>2. share.to = share.pays /\ CreditPaysMiner
      BY <1>7, ValidateCredits, Zenon DEF Paying
    <2>3. CreditPaysMiner'
      BY <1>7, <2>1, <2>2, ValidateCredits, Zenon DEF CreditPaysMiner
    <2> QED
      BY <1>7, <2>3, ValidateCredits, Zenon DEF Paying
  <1>8. CASE Finish
    BY <1>8, FinishLeaves, Zenon DEF Paying, CreditPaysMiner
  <1> QED
    BY <1>1, <1>2, <1>3, <1>4, <1>5, <1>6, <1>7, <1>8, Zenon DEF Next

\* Only validation credits, and it credits what the hash met.
LEMMA NextEarned ==
  ASSUME Types, CreditIsEarned, [Next]_vars
  PROVE  CreditIsEarned'
  <1>1. CASE ledger' = ledger
    BY <1>1, Zenon DEF CreditIsEarned
  <1>2. CASE Validate
    <2>1. ASSUME NEW e, ledger' = Append(ledger, e), e.credit <= e.met \/ e.block
          PROVE  CreditIsEarned'
      <3>1. \A i \in 1..Len(ledger) : ledger[i].credit <= ledger[i].met \/ ledger[i].block
        BY Extended, Zenon DEF Types, CreditIsEarned
      <3>2. \A i \in DOMAIN ledger' : i \in 1..Len(ledger) \/ i = Len(ledger) + 1
        BY <2>1, Extended DEF Types
      <3>3. /\ ledger'[Len(ledger) + 1] = e
            /\ \A i \in 1..Len(ledger) : ledger'[i] = ledger[i]
        BY <2>1, Extended DEF Types
      <3> QED
        BY <2>1, <3>1, <3>2, <3>3, Zenon DEF CreditIsEarned
    <2> QED
      BY <1>1, <1>2, <2>1, ValidateCredits, Zenon
  <1>3. CASE Submit \/ Finish \/ Quiet
    BY <1>1, <1>3, SubmitTakes, FinishLeaves, QuietLeaves, Zenon
  <1> QED
    BY <1>2, <1>3, Zenon DEF Next, Quiet

\* What is remembered stays remembered through a rotation of the seen shares
\* and through the next share.
LEMMA StaysRemembered ==
  ASSUME Types, Rotated \/ \E key : Remember(key)
  PROVE  /\ \A key, g : Remembered(key, g) => Remembered(key, g)'
         /\ rotations' \in Nat /\ rotations' >= rotations
  <1>1. rotations \in Nat
    BY Zenon DEF Types
  <1>2. CASE UNCHANGED dedup
    BY <1>1, <1>2 DEF Remembered
  <1>3. CASE Rotate
    BY <1>1, <1>3 DEF Rotate, Remembered
  <1>4. CASE /\ \E key : seen_shares_current' = seen_shares_current \cup {key}
             /\ UNCHANGED <<seen_shares_previous, rotations>>
    BY <1>1, <1>4 DEF Remembered
  <1> QED
    BY <1>2, <1>3, <1>4, Zenon DEF Rotated, Remember

\* Neither set outgrows its limit.
LEMMA SetsAreBounded ==
  ASSUME Types, Rotated \/ \E key : Remember(key),
         Cardinality(seen_shares_current) <= SeenLimit,
         Cardinality(seen_shares_previous) <= SeenLimit
  PROVE  /\ Cardinality(seen_shares_current') <= SeenLimit
         /\ Cardinality(seen_shares_previous') <= SeenLimit
  <1>1. /\ SeenLimit \in Nat \ {0} /\ IsFiniteSet(seen_shares_current)
        /\ Cardinality(seen_shares_current) \in Nat
    BY BoundsAssumption, FS_CardinalityType, Zenon DEF Types
  <1>2. Cardinality({}) <= SeenLimit /\ \A key : Cardinality({key}) <= SeenLimit
    <2>1. Cardinality({}) = 0 /\ \A key : Cardinality({key}) = 1
      BY FS_EmptySet, FS_Singleton, Zenon
    <2>2. 0 <= SeenLimit /\ 1 <= SeenLimit
      BY <1>1
    <2> QED
      BY <2>1, <2>2, Zenon
  <1>3. ASSUME NEW key, Remember(key)
        PROVE  /\ Cardinality(seen_shares_current') <= SeenLimit
               /\ Cardinality(seen_shares_previous') <= SeenLimit
    <2>1. CASE Cardinality(seen_shares_current) >= SeenLimit
      BY <1>2, <1>3, <2>1, Zenon DEF Remember, Rotate
    <2>2. CASE ~(Cardinality(seen_shares_current) >= SeenLimit)
      <3>1. Cardinality(seen_shares_current \cup {key}) <=
              Cardinality(seen_shares_current) + 1
        BY <1>1, FS_AddElement
      <3>2. Cardinality(seen_shares_current \cup {key}) \in Nat
        BY <1>1, FS_AddElement, FS_CardinalityType, Zenon
      <3>3. Cardinality(seen_shares_current \cup {key}) <= SeenLimit
        BY <1>1, <2>2, <3>1, <3>2
      <3> QED
        BY <1>3, <2>2, <3>3, Zenon DEF Remember
    <2> QED
      BY <2>1, <2>2, Zenon
  <1>4. ASSUME Rotated
        PROVE  /\ Cardinality(seen_shares_current') <= SeenLimit
               /\ Cardinality(seen_shares_previous') <= SeenLimit
    BY <1>2, <1>4, Zenon DEF Rotated, Rotate
  <1> QED
    BY <1>3, <1>4, Zenon

\* A key is credited again only when it is in neither set any more.
LEMMA NextSeen ==
  ASSUME Types, Seen, [Next]_vars
  PROVE  Seen'
  <1> DEFINE Apart == \A i, j \in DOMAIN ledger :
               i < j /\ ledger[i].key = ledger[j].key => ledger[j].gen >= ledger[i].gen + 2
             Bounded == /\ Cardinality(seen_shares_current) <= SeenLimit
                        /\ Cardinality(seen_shares_previous) <= SeenLimit
             Logged == \A i \in DOMAIN ledger : Remembered(ledger[i].key, ledger[i].gen)
             Fresh == \A i \in DOMAIN ledger :
                        ledger[i].key = share.key => share.gen >= ledger[i].gen + 2
  <1>0. Apart /\ Bounded /\ Logged
        /\ (pc = "validate" => Remembered(share.key, share.gen) /\ Fresh)
    BY Zenon DEF Seen, RememberedForAGeneration
  <1>1. SUFFICES /\ Apart' /\ Bounded' /\ Logged'
                 /\ pc' = "validate" => Remembered(share.key, share.gen)' /\ Fresh'
    BY Zenon DEF Seen, RememberedForAGeneration
  <1>2. ASSUME Rotated \/ \E key : Remember(key), ledger' = ledger
        PROVE  /\ Apart' /\ Bounded' /\ Logged'
               /\ Remembered(share.key, share.gen) /\ share' = share =>
                    Remembered(share.key, share.gen)'
               /\ Fresh /\ share' = share => Fresh'
    <2>1. Bounded'
      <3>1. /\ Cardinality(seen_shares_current) <= SeenLimit
            /\ Cardinality(seen_shares_previous) <= SeenLimit
        BY <1>0, Zenon
      <3> QED
        BY <1>2, <3>1, SetsAreBounded, Zenon
    <2>2. \A key, g : Remembered(key, g) => Remembered(key, g)'
      BY <1>2, StaysRemembered, Zenon
    <2>3. Logged' /\ (Remembered(share.key, share.gen) /\ share' = share =>
                        Remembered(share.key, share.gen)')
      BY <1>0, <1>2, <2>2, Zenon DEF Remembered
    <2>4. Apart' /\ (Fresh /\ share' = share => Fresh')
      BY <1>0, <1>2, Zenon
    <2> QED
      BY <2>1, <2>3, <2>4, Zenon
  <1>3. CASE Quiet
    <2>1. Rotated /\ UNCHANGED <<pc, share, ledger>>
      BY <1>3, QuietLeaves, Zenon
    <2> QED
      BY <1>0, <1>2, <2>1, Zenon
  <1>4. CASE Submit
    <2>1. CASE UNCHANGED <<dedup, coinbase2_cache, pc, share>>
      BY <1>0, <1>2, <1>4, <2>1, SubmitTakes, Zenon DEF Rotated
    <2>2. CASE ~UNCHANGED <<dedup, coinbase2_cache, pc, share>>
      <3>1. /\ share'.key \notin seen_shares_current \cup seen_shares_previous
            /\ Remember(share'.key) /\ share'.gen = rotations' /\ ledger' = ledger
        BY <1>4, <2>2, SubmitTakes, Zenon
      <3>2. \E key : Remember(key)
        BY <3>1, Zenon
      <3>3. Apart' /\ Bounded' /\ Logged'
        BY <1>2, <3>1, <3>2, Zenon
      <3>4. rotations \in Nat /\ rotations' \in Nat /\ rotations' >= rotations
        BY <3>2, StaysRemembered, Zenon DEF Types
      <3>5. share'.key \in seen_shares_current'
        BY <3>1, Zenon DEF Remember, Rotate
      <3>6. Remembered(share.key, share.gen)'
        <4>1. \A r \in Nat : r <= r /\ r # r - 1
          OBVIOUS
        <4> QED
          BY <3>1, <3>4, <3>5, <4>1, Zenon DEF Remembered
      <3>7. Fresh'
        <4>1. \A i \in DOMAIN ledger :
                Remembered(ledger[i].key, ledger[i].gen) /\ ledger[i].key = share'.key
                  => ledger[i].gen \in Nat /\ ledger[i].gen + 2 <= rotations
          BY <3>1, <3>4 DEF Remembered
        <4> QED
          BY <1>0, <3>1, <3>4, <4>1
      <3> QED
        BY <3>3, <3>6, <3>7, Zenon
    <2> QED
      BY <2>1, <2>2, Zenon
  <1>5. CASE Validate
    <2>1. /\ UNCHANGED dedup /\ pc' # "validate"
          /\ Remembered(share.key, share.gen) /\ Fresh
      BY <1>0, <1>5, ValidateCredits, Zenon
    <2>2. CASE ledger' = ledger
      BY <1>2, <2>1, <2>2, Zenon DEF Rotated
    <2>3. ASSUME NEW e, ledger' = Append(ledger, e), e.key = share.key, e.gen = share.gen
          PROVE  Apart' /\ Bounded' /\ Logged'
      <3>1. /\ Len(ledger) \in Nat /\ DOMAIN ledger = 1..Len(ledger)
            /\ DOMAIN ledger' = 1..(Len(ledger) + 1)
            /\ ledger'[Len(ledger) + 1] = e
            /\ \A i \in 1..Len(ledger) : ledger'[i] = ledger[i]
        BY <2>3, Extended DEF Types
      <3>2. Bounded'
        BY <1>0, <2>1, Zenon
      <3>3. \A i \in DOMAIN ledger' : i \in DOMAIN ledger \/ i = Len(ledger) + 1
        BY <3>1
      <3>4. Logged'
        <4>1. \A key, g : Remembered(key, g) => Remembered(key, g)'
          BY <2>1, StaysRemembered, Zenon DEF Rotated
        <4>2. Remembered(e.key, e.gen)
          BY <2>1, <2>3, Zenon
        <4>3. ASSUME NEW i \in DOMAIN ledger'
              PROVE  Remembered(ledger[i].key, ledger[i].gen)'
          <5>1. CASE i \in DOMAIN ledger
            BY <1>0, <3>1, <4>1, <5>1, Zenon DEF Remembered
          <5>2. CASE i = Len(ledger) + 1
            BY <3>1, <4>1, <4>2, <5>2, Zenon DEF Remembered
          <5> QED
            BY <3>3, <5>1, <5>2, Zenon
        <4> QED
          BY <4>3, Zenon
      <3>5. Apart'
        <4>1. ASSUME NEW i \in DOMAIN ledger', NEW j \in DOMAIN ledger', i < j,
                     ledger'[i].key = ledger'[j].key
              PROVE  ledger'[j].gen >= ledger'[i].gen + 2
          <5>1. i \in DOMAIN ledger
            BY <3>1, <4>1
          <5>2. CASE j \in DOMAIN ledger
            BY <1>0, <3>1, <4>1, <5>1, <5>2, Zenon
          <5>3. CASE j = Len(ledger) + 1
            BY <2>1, <2>3, <3>1, <4>1, <5>1, <5>3, Zenon
          <5> QED
            BY <3>3, <5>2, <5>3, Zenon
        <4> QED
          BY <4>1, Zenon
      <3> QED
        BY <3>2, <3>4, <3>5, Zenon
    <2>4. Apart' /\ Bounded' /\ Logged'
      <3> HIDE DEF Apart, Bounded, Logged
      <3>1. \/ ledger' = ledger
            \/ \E e : ledger' = Append(ledger, e) /\ e.key = share.key /\ e.gen = share.gen
        BY <1>5, ValidateCredits, Zenon
      <3> QED
        BY <2>2, <2>3, <3>1, Zenon
    <2> QED
      BY <2>1, <2>4, Zenon
  <1>6. CASE Finish
    BY <1>0, <1>2, <1>6, FinishLeaves, Zenon DEF Rotated
  <1> QED
    BY <1>3, <1>4, <1>5, <1>6, Zenon DEF Next, Quiet

\* The invariant holds from the start.
LEMMA InitSession ==
  ASSUME Init
  PROVE  SessionInv
  <1>1. Types
    <2>1. Larger(InitialDifficulty, MinimumDifficulty) \in Nat
      BY DifficultiesAssumption, VardiffAssumption, Zenon DEF Larger
    <2>2. ledger \in Seq(Range(ledger))
      BY DEF Init, Range
    <2> QED
      BY <2>1, <2>2, FS_EmptySet, Zenon DEF Init, Types
  <1>2. DOMAIN ledger = {} /\ pc # "validate"
    BY DEF Init
  <1>3. Levels
    BY DEF Init, Levels, MinerKnowsDifficulty
  <1>4. Paying /\ CreditIsEarned
    BY <1>2, Zenon DEF Init, Paying, CreditPaysMiner, CreditIsEarned
  <1>5. Seen
    <2>1. SeenLimit \in Nat /\ Cardinality({}) = 0
      BY BoundsAssumption, FS_EmptySet, Zenon
    <2>2. Cardinality(seen_shares_current) <= SeenLimit
          /\ Cardinality(seen_shares_previous) <= SeenLimit
      BY <2>1 DEF Init
    <2> QED
      BY <1>2, <2>2, Zenon DEF Seen, RememberedForAGeneration
  <1> QED
    BY <1>1, <1>3, <1>4, <1>5, Zenon DEF SessionInv

\* And always.
LEMMA AlwaysSession == Spec => []SessionInv
  <1>1. Init => SessionInv
    BY InitSession, Zenon
  <1>2. SessionInv /\ [Next]_vars => SessionInv'
    BY NextTypes, NextLevels, NextPaying, NextEarned, NextSeen, Zenon DEF SessionInv
  <1> QED
    BY <1>1, <1>2, PTL DEF Spec

-----------------------------------------------------------------------------
(* The theorems.                                                            *)

\* In whatever order a client subscribes, authorizes and suggests, and whenever
\* the vardiff thread comes in between, it knows the difficulty it is held to.
THEOREM DifficultyIsTold == Spec => []MinerKnowsDifficulty
  <1>1. SessionInv => MinerKnowsDifficulty
    BY Zenon DEF SessionInv, Levels
  <1> QED
    BY <1>1, AlwaysSession, PTL

\* No number of changes holds a miner to more than its newest job came with.
THEOREM SentDifficultyIsHonoured == Spec => []HonoursSentDifficulty
  <1>1. SessionInv => HonoursSentDifficulty
    BY DEF SessionInv, Types, Levels, HonoursSentDifficulty, Required, Smaller
  <1> QED
    BY <1>1, AlwaysSession, PTL

\* The address a share is credited to is the one its coinbase pays.
THEOREM CreditGoesToPayee == Spec => []CreditPaysMiner
  <1>1. SessionInv => CreditPaysMiner
    BY Zenon DEF SessionInv, Paying
  <1> QED
    BY <1>1, AlwaysSession, PTL

\* No share is credited more than its hash met, short of a block.
THEOREM CreditIsForWork == Spec => []CreditIsEarned
  <1>1. SessionInv => CreditIsEarned
    BY Zenon DEF SessionInv
  <1> QED
    BY <1>1, AlwaysSession, PTL

\* A key is credited once in two generations, in sets of bounded size.
THEOREM SharesAreRemembered == Spec => []RememberedForAGeneration
  <1>1. SessionInv => RememberedForAGeneration
    BY Zenon DEF SessionInv, Seen
  <1> QED
    BY <1>1, AlwaysSession, PTL
=============================================================================
