------------------------- MODULE Credentials_proof -------------------------
(***************************************************************************)
(* The files the credential tool leaves behind belong together, for any    *)
(* number of overlapping runs, failures, kills and removals.  The          *)
(* inductive invariant says, for a run in the middle of a command, which   *)
(* of its files exist and what it may still remove.                        *)
(***************************************************************************)
EXTENDS Credentials, TLAPS

Contents == SecretKeys \cup PublicKeys \cup Certificates
States == {"idle", "secret", "public", "write", "link", "unlink", "undo"}
Runs ==
  [at : States, command : {"none", "keypair", "issue"}, role : Roles, from : Nat,
   until : Nat, key : 0..MaxKey, todo : Seq(Paths \X Contents), created : SUBSET Paths]

FilesOK ==
  /\ file \in [Paths -> Contents \cup {None}]
  /\ \A r \in Roles : /\ file[Secret(r)] \in SecretKeys \cup {None}
                      /\ file[Public(r)] \in PublicKeys \cup {None}
  /\ file[AuthorityOut] \in PublicKeys \cup {None}
  /\ file[CertificateOut] \in Certificates \cup {None}

RunOK(pc) ==
  /\ pc \in Runs
  /\ pc.at = "idle" <=> pc.command = "none"
  /\ pc.command = "issue" => pc.from \in Times /\ pc.until \in Times
  /\ pc.at \notin {"idle", "secret"} => pc.key \in Keys

\* A keypair run: the public file is missing until it is linked, and then the
\* secret is the one it was derived from.
Pairing(pc) ==
  LET secret == file[Secret(pc.role)]
      public == file[Public(pc.role)]
      writeSecret == <<Secret(pc.role), SecretKey(pc.key)>>
      writePublic == <<Public(pc.role), PublicKey(pc.key)>>
      last == pc.todo = <<writePublic>> IN
  /\ pc.at /= "public"
  /\ pc.created \subseteq {Secret(pc.role)}
  /\ pc.at \in {"write", "link", "unlink"} =>
       \/ pc.todo = <<writeSecret, writePublic>>
       \/ last /\ secret = SecretKey(pc.key)
  /\ IF pc.at = "unlink" /\ last THEN public = PublicKey(pc.key) ELSE public = None
  /\ pc.at = "unlink" => secret = SecretKey(pc.key)

\* An issue run has made the authority file and may remove it again.
Has(pc) ==
  /\ pc.command = "issue"
  /\ pc.created = {AuthorityOut} \/ (pc.at = "unlink" /\ pc.created = {})

\* An issue run: it creates the certificate only while the authority file is
\* its own, and no certificate is there without one.
Issuing(pc) ==
  LET authority == file[AuthorityOut]
      certificate == file[CertificateOut]
      last == pc.created = {AuthorityOut} IN
  /\ pc.created \in {{}, {AuthorityOut}}
  /\ pc.at \in {"secret", "public"} => ~last
  /\ pc.at \in {"write", "link", "unlink"} =>
       \E c \in Certificates :
         /\ c.by = pc.key
         /\ pc.todo = IF last THEN << <<CertificateOut, c>> >>
                      ELSE << <<AuthorityOut, PublicKey(pc.key)>>, <<CertificateOut, c>> >>
         /\ last /\ pc.at = "unlink" => certificate = c
  /\ Has(pc) => /\ authority = PublicKey(pc.key)
                /\ ~(last /\ pc.at = "unlink") => certificate = None
  /\ certificate /= None => authority /= None

\* What is found side by side belongs together.
Issued ==
  file[CertificateOut] /= None /\ file[AuthorityOut] /= None
    => file[CertificateOut].by = file[AuthorityOut].key

\* A run in the middle of its command is as described.
Ok(pc) ==
  /\ RunOK(pc)
  /\ pc.command = "keypair" => Pairing(pc)
  /\ pc.command = "issue" => Issuing(pc)

\* Two runs: not on one key pair, and not both owners of the authority file.
Apart(pc, qc) ==
  /\ pc.command = "keypair" /\ qc.command = "keypair" => pc.role /= qc.role
  /\ ~(Has(pc) /\ Has(qc))

\* The inductive invariant.
Inv ==
  /\ lastKey \in 0..MaxKey /\ proc \in [Procs -> Runs]
  /\ FilesOK /\ PairMatches /\ Issued
  /\ \A p \in Procs : Ok(proc[p])
  /\ \A p, q \in Procs : p /= q => Apart(proc[p], proc[q])

------------------------------------------------------------------------------
\* The terms

\* The paths of the tool are distinct files.
LEMMA PathFacts ==
  /\ \A r \in Roles : /\ Secret(r) \in Paths /\ Public(r) \in Paths
                      /\ Secret(r) /= AuthorityOut /\ Secret(r) /= CertificateOut
                      /\ Public(r) /= AuthorityOut /\ Public(r) /= CertificateOut
                      /\ \A s \in Roles : /\ Secret(r) /= Public(s)
                                          /\ r /= s => Secret(r) /= Secret(s)
                                          /\ r /= s => Public(r) /= Public(s)
  /\ AuthorityOut \in Paths /\ CertificateOut \in Paths
  /\ AuthorityOut /= CertificateOut
  /\ "server" \in Roles
BY Zenon DEF Paths, Roles, Secret, Public, AuthorityOut, CertificateOut

\* What a file may hold is not None, and a key file names its key.
LEMMA KeyFacts ==
  /\ None \notin SecretKeys /\ None \notin PublicKeys /\ None \notin Certificates
  /\ \A k \in Keys : /\ SecretKey(k) \in SecretKeys /\ SecretKey(k) /= None
                     /\ PublicKey(k) \in PublicKeys /\ PublicKey(k) /= None
                     /\ SecretKey(k).key = k /\ PublicKey(k).key = k
  /\ \A f \in SecretKeys : f.key \in Keys /\ f = SecretKey(f.key)
  /\ \A f \in PublicKeys : f.key \in Keys /\ f = PublicKey(f.key)
  /\ \A c \in Certificates : c.by \in Keys /\ c.version = 0
                             /\ c.from \in Nat /\ c.until \in Nat
<1>1. /\ None \notin SecretKeys /\ None \notin PublicKeys /\ None \notin Certificates
  BY CredentialsAssumption, Zenon
<1>2. \A k \in Keys : /\ SecretKey(k) \in SecretKeys /\ PublicKey(k) \in PublicKeys
                      /\ SecretKey(k).key = k /\ PublicKey(k).key = k
  BY Zenon DEF SecretKeys, PublicKeys, SecretKey, PublicKey
<1>3. /\ \A f \in SecretKeys : f.key \in Keys /\ f = SecretKey(f.key)
      /\ \A f \in PublicKeys : f.key \in Keys /\ f = PublicKey(f.key)
  BY DEF SecretKeys, PublicKeys, SecretKey, PublicKey
<1>4. \A c \in Certificates : c.by \in Keys /\ c.version = 0
                             /\ c.from \in Nat /\ c.until \in Nat
  BY CredentialsAssumption DEF Certificates, Certificate
<1> QED BY <1>1, <1>2, <1>3, <1>4, Zenon

\* A certificate of given keys and interval.
LEMMA CertificateIs ==
  ASSUME NEW for \in Keys, NEW by \in Keys, NEW from \in Times, NEW until \in Times
  PROVE  /\ Certificate(for, by, from, until) \in Certificates
         /\ Certificate(for, by, from, until).by = by
BY DEF Certificates, Certificate

\* A run that has not begun.
LEMMA IdleIs ==
  /\ Idle \in Runs /\ Idle.at = "idle" /\ Idle.command = "none" /\ Idle.created = {}
  /\ Idle.key = 0
  /\ Ok(Idle) /\ \A qc : Apart(Idle, qc)
<1>1. Idle \in Runs /\ Idle.at = "idle" /\ Idle.command = "none" /\ Idle.created = {}
      /\ Idle.key = 0
  BY CredentialsAssumption DEF Idle, Runs, States, Roles
<1>2. Ok(Idle) BY <1>1, Zenon DEF Ok, RunOK
<1>3. \A qc : Apart(Idle, qc) BY <1>1, Zenon DEF Apart, Has
<1> QED BY <1>1, <1>2, <1>3, Zenon

------------------------------------------------------------------------------
\* A step of one run

\* A step of run p to rec keeps the invariant when it leaves the key files of
\* the other keypair runs alone, and does the authority file and the
\* certificate only what the other issue runs can stand.
LEMMA StepOf ==
  ASSUME Inv, NEW p \in Procs, NEW rec,
         proc' = [proc EXCEPT ![p] = rec], lastKey' \in 0..MaxKey,
         FilesOK', PairMatches', Issued', Ok(rec)',
         \A q \in Procs : q /= p => Apart(rec, proc[q]),
         \A q \in Procs : q /= p /\ proc[q].command = "keypair" =>
           /\ file'[Secret(proc[q].role)] = file[Secret(proc[q].role)]
           /\ file'[Public(proc[q].role)] = file[Public(proc[q].role)],
         \A q \in Procs : q /= p /\ proc[q].command = "issue" =>
           /\ file'[CertificateOut] /= None => file'[AuthorityOut] /= None
           /\ \/ /\ file'[AuthorityOut] = file[AuthorityOut]
                 /\ file'[CertificateOut] = file[CertificateOut]
              \/ ~Has(proc[q])
  PROVE  Inv'
<1>1. rec \in Runs BY Zenon DEF Ok, RunOK
<1>2. proc' \in [Procs -> Runs] /\ proc'[p] = rec
      /\ \A q \in Procs : q /= p => proc'[q] = proc[q]
  BY <1>1, Zenon DEF Inv
<1>3. ASSUME NEW q \in Procs PROVE Ok(proc[q])'
  <2>1. CASE q = p BY <1>2, <2>1, Zenon DEF Ok, RunOK, Pairing, Issuing, Has
  <2>2. CASE q /= p
    <3>1. proc'[q] = proc[q] /\ Ok(proc[q]) BY <1>2, <2>2, Zenon DEF Inv
    <3>2. RunOK(proc[q])' BY <3>1, Zenon DEF Ok, RunOK
    <3>3. proc'[q].command = "keypair" => Pairing(proc[q])'
      BY <3>1, <2>2, Zenon DEF Ok, Pairing
    <3>4. ASSUME proc'[q].command = "issue" PROVE Issuing(proc[q])'
      <4>1. Issuing(proc[q]) BY <3>1, <3>4, Zenon DEF Ok
      <4>2. CASE /\ file'[AuthorityOut] = file[AuthorityOut]
                 /\ file'[CertificateOut] = file[CertificateOut]
        BY <4>1, <4>2, <3>1, <3>4, <2>2, Zenon DEF Issuing, Has
      <4>3. CASE ~Has(proc[q])
        BY <4>1, <4>3, <3>1, <3>4, <2>2, Zenon DEF Issuing, Has
      <4> QED BY <4>2, <4>3, <3>1, <3>4, <2>2, Zenon
    <3> QED BY <3>2, <3>3, <3>4, Zenon DEF Ok
  <2> QED BY <2>1, <2>2, Zenon
<1>4. ASSUME NEW q \in Procs, NEW s \in Procs, q /= s
      PROVE  Apart(proc[q], proc[s])'
  BY <1>2, <1>4 DEF Inv, Apart, Has
<1> QED BY <1>2, <1>3, <1>4, Zenon DEF Inv

\* A step that changes no file.
LEMMA QuietStep ==
  ASSUME Inv, NEW p \in Procs, NEW rec,
         proc' = [proc EXCEPT ![p] = rec], lastKey' \in 0..MaxKey, file' = file,
         Ok(rec), \A q \in Procs : q /= p => Apart(rec, proc[q])
  PROVE  Inv'
<1>1. FilesOK' /\ PairMatches' /\ Issued'
  BY Zenon DEF Inv, FilesOK, PairMatches, Issued
<1>2. Ok(rec)' BY Zenon DEF Ok, RunOK, Pairing, Issuing, Has
<1>3. ASSUME NEW q \in Procs, proc[q].command = "issue"
      PROVE  file'[CertificateOut] /= None => file'[AuthorityOut] /= None
  BY <1>3, Zenon DEF Inv, Ok, Issuing
<1> QED BY <1>1, <1>2, <1>3, StepOf, Zenon

\* Run p, as the invariant knows it.
LEMMA RunIs ==
  ASSUME Inv, NEW p \in Procs
  PROVE  /\ proc[p] \in Runs /\ RunOK(proc[p])
         /\ proc[p].command = "keypair" => Pairing(proc[p])
         /\ proc[p].command = "issue" => Issuing(proc[p])
         /\ \A q \in Procs : q /= p => Apart(proc[p], proc[q])
         /\ lastKey \in 0..MaxKey
BY Zenon DEF Inv, Ok

\* A run that ends without touching a file.
LEMMA Ends ==
  ASSUME Inv, NEW p \in Procs, Step(p, Idle), UNCHANGED <<file, lastKey>>
  PROVE  Inv'
BY IdleIs, QuietStep, RunIs, Zenon DEF Step

\* keypair starts.
LEMMA BeginKeypairKeeps ==
  ASSUME Inv, NEW p \in Procs, NEW r \in Roles, BeginKeypair(p, r)
  PROVE  Inv'
<1> DEFINE rec == [Idle EXCEPT !.at = "secret", !.command = "keypair", !.role = r]
<1>1. /\ rec \in Runs /\ rec.at = "secret" /\ rec.command = "keypair" /\ rec.role = r
      /\ rec.created = {}
  BY IdleIs, Zenon DEF Runs, States
<1>2. Step(p, rec) /\ file' = file /\ lastKey' = lastKey /\ file[Public(r)] = None
      /\ \A q \in Procs : ~(proc[q].command = "keypair" /\ proc[q].role = r)
  BY Zenon DEF BeginKeypair
<1> HIDE DEF rec
<1>3. Ok(rec) BY <1>1, <1>2, Zenon DEF Ok, RunOK, Pairing
<1>4. \A q \in Procs : q /= p => Apart(rec, proc[q])
  BY <1>1, <1>2, Zenon DEF Apart, Has
<1> QED BY <1>2, <1>3, <1>4, QuietStep, RunIs, Zenon DEF Step

\* issue starts: neither output is there.
LEMMA BeginIssueKeeps ==
  ASSUME Inv, NEW p \in Procs, NEW r \in Roles, NEW from \in Times, NEW until \in Times,
         BeginIssue(p, r, from, until)
  PROVE  Inv'
<1> DEFINE rec == [Idle EXCEPT !.at = "secret", !.command = "issue", !.role = r,
                               !.from = from, !.until = until]
<1>1. /\ rec \in Runs /\ rec.at = "secret" /\ rec.command = "issue"
      /\ rec.created = {} /\ rec.from = from /\ rec.until = until
  BY IdleIs, CredentialsAssumption, Zenon DEF Runs, States
<1>2. Step(p, rec) /\ file' = file /\ lastKey' = lastKey
      /\ file[AuthorityOut] = None /\ file[CertificateOut] = None
  BY Zenon DEF BeginIssue
<1> HIDE DEF rec
<1>3. Ok(rec) BY <1>1, <1>2, Zenon DEF Ok, RunOK, Issuing, Has
<1>4. \A q \in Procs : q /= p => Apart(rec, proc[q])
  BY <1>1, Zenon DEF Apart, Has
<1> QED BY <1>2, <1>3, <1>4, QuietStep, RunIs, Zenon DEF Step

\* keypair reads the secret, or draws a new one.
LEMMA ReadSecretKeeps ==
  ASSUME Inv, NEW p \in Procs, ReadSecret(p)
  PROVE  Inv'
<1> DEFINE pc == proc[p]
           found == file[Secret(pc.role)]
<1>1. /\ pc \in Runs /\ pc.at = "secret" /\ pc.command = "keypair" /\ pc.role \in Roles
      /\ RunOK(pc) /\ Pairing(pc) /\ file' = file
  BY RunIs, Zenon DEF ReadSecret, Runs
<1>2. ASSUME NEW k \in Keys, NEW todo \in Seq(Paths \X Contents), lastKey' \in 0..MaxKey,
             Step(p, [pc EXCEPT !.at = "write", !.key = k, !.todo = todo]),
             \/ todo = << <<Secret(pc.role), SecretKey(k)>>, <<Public(pc.role), PublicKey(k)>> >>
             \/ /\ todo = << <<Public(pc.role), PublicKey(k)>> >>
                /\ found = SecretKey(k)
      PROVE  Inv'
  <2> DEFINE rec == [pc EXCEPT !.at = "write", !.key = k, !.todo = todo]
  <2>1. /\ rec \in Runs /\ rec.at = "write" /\ rec.command = "keypair"
        /\ rec.role = pc.role /\ rec.created = pc.created /\ rec.key = k
        /\ rec.todo = todo
    <3>1. k \in 0..MaxKey BY CredentialsAssumption DEF Keys
    <3> QED BY <3>1, <1>1, Zenon DEF Runs, States
  <2>2. Step(p, rec) BY <1>2, Zenon
  <2> HIDE DEF rec
  <2>3. Ok(rec) BY <1>1, <1>2, <2>1, Zenon DEF Ok, RunOK, Pairing
  <2>4. \A q \in Procs : q /= p => Apart(rec, proc[q])
    BY <1>1, <2>1, RunIs, Zenon DEF Apart, Has
  <2> QED BY <1>1, <1>2, <2>2, <2>3, <2>4, QuietStep, Zenon DEF Step
<1>3. CASE found /= None
  <2>1. found \in SecretKeys BY <1>1, <1>3, Zenon DEF Inv, FilesOK
  <2>2. found.key \in Keys /\ found = SecretKey(found.key) /\ PublicKey(found.key) \in Contents
        /\ Public(pc.role) \in Paths
    BY <2>1, <1>1, KeyFacts, PathFacts, Zenon DEF Contents
  <2>3. << <<Public(pc.role), PublicKey(found.key)>> >> \in Seq(Paths \X Contents)
    BY <2>2
  <2>4. /\ lastKey' = lastKey
        /\ Step(p, [pc EXCEPT !.at = "write", !.key = found.key,
                              !.todo = << <<Public(pc.role), PublicKey(found.key)>> >>])
    BY <1>3, Zenon DEF ReadSecret
  <2> QED BY <1>2, <2>2, <2>3, <2>4, RunIs, Zenon
<1>4. CASE found = None
  <2>1. /\ lastKey' = lastKey + 1 /\ lastKey < MaxKey
        /\ Step(p, [pc EXCEPT !.at = "write", !.key = lastKey + 1,
                              !.todo = << <<Secret(pc.role), SecretKey(lastKey + 1)>>,
                                          <<Public(pc.role), PublicKey(lastKey + 1)>> >>])
    BY <1>4, Zenon DEF ReadSecret
  <2>2. lastKey + 1 \in Keys /\ lastKey' \in 0..MaxKey
    BY <2>1, RunIs, CredentialsAssumption DEF Keys
  <2>3. /\ SecretKey(lastKey + 1) \in Contents /\ PublicKey(lastKey + 1) \in Contents
        /\ Secret(pc.role) \in Paths /\ Public(pc.role) \in Paths
    BY <2>2, <1>1, KeyFacts, PathFacts, Zenon DEF Contents
  <2>4. << <<Secret(pc.role), SecretKey(lastKey + 1)>>,
           <<Public(pc.role), PublicKey(lastKey + 1)>> >> \in Seq(Paths \X Contents)
    BY <2>3
  <2> QED BY <1>2, <2>1, <2>2, <2>4, Zenon
<1> QED BY <1>3, <1>4, Zenon

\* issue reads the authority's secret.
LEMMA ReadAuthorityKeeps ==
  ASSUME Inv, NEW p \in Procs, ReadAuthority(p)
  PROVE  Inv'
<1> DEFINE pc == proc[p]
           found == file[Secret(pc.role)]
           rec == [pc EXCEPT !.at = "public", !.key = found.key]
<1>1. /\ pc \in Runs /\ pc.at = "secret" /\ pc.command = "issue" /\ pc.role \in Roles
      /\ RunOK(pc) /\ Issuing(pc) /\ file' = file /\ lastKey' = lastKey
  BY RunIs, Zenon DEF ReadAuthority, Runs
<1>2. CASE found = None BY <1>1, <1>2, Ends, Zenon DEF ReadAuthority
<1>3. CASE found /= None
  <2>1. found \in SecretKeys BY <1>1, <1>3, Zenon DEF Inv, FilesOK
  <2>2. found.key \in Keys BY <2>1, KeyFacts, Zenon
  <2>3. found.key \in 0..MaxKey BY <2>2, CredentialsAssumption DEF Keys
  <2>4. /\ rec \in Runs /\ rec.at = "public" /\ rec.command = "issue"
        /\ rec.created = pc.created /\ rec.key = found.key
        /\ rec.from = pc.from /\ rec.until = pc.until
    BY <1>1, <2>3, Zenon DEF Runs, States
  <2>5. Step(p, rec) BY <1>3, Zenon DEF ReadAuthority
  <2> HIDE DEF rec
  <2>6. Ok(rec) BY <1>1, <2>2, <2>4, Zenon DEF Ok, RunOK, Issuing, Has
  <2>7. \A q \in Procs : q /= p => Apart(rec, proc[q])
    BY <1>1, <2>4, RunIs, Zenon DEF Apart, Has
  <2> QED BY <1>1, <2>5, <2>6, <2>7, QuietStep, RunIs, Zenon DEF Step
<1> QED BY <1>2, <1>3, Zenon

\* issue reads the server's public key and signs.
LEMMA ReadServerPublicKeeps ==
  ASSUME Inv, NEW p \in Procs, ReadServerPublic(p)
  PROVE  Inv'
<1> DEFINE pc == proc[p]
           found == file[Public("server")]
           cert == Certificate(found.key, pc.key, pc.from, pc.until)
           todo == << <<AuthorityOut, PublicKey(pc.key)>>, <<CertificateOut, cert>> >>
           rec == [pc EXCEPT !.at = "write", !.todo = todo]
<1>1. /\ pc \in Runs /\ pc.at = "public" /\ RunOK(pc) /\ pc.key \in Keys
      /\ file' = file /\ lastKey' = lastKey
  BY RunIs, Zenon DEF ReadServerPublic, RunOK
<1>2. pc.command = "issue" /\ Issuing(pc) /\ pc.from \in Times /\ pc.until \in Times
  <2>1. pc.command \in {"none", "keypair", "issue"} BY <1>1, Zenon DEF Runs
  <2> QED BY <2>1, <1>1, RunIs, Zenon DEF RunOK, Pairing
<1>3. CASE found \in {None, PublicKey(pc.key)}
  BY <1>1, <1>3, Ends, Zenon DEF ReadServerPublic
<1>4. CASE found \notin {None, PublicKey(pc.key)}
  <2>1. found \in PublicKeys BY <1>4, PathFacts, Zenon DEF Inv, FilesOK
  <2>2. found.key \in Keys BY <2>1, KeyFacts, Zenon
  <2>3. cert \in Certificates /\ cert.by = pc.key
    BY <2>2, <1>1, <1>2, CertificateIs
  <2>4. Step(p, rec) BY <1>4, Zenon DEF ReadServerPublic
  <2> HIDE DEF cert
  <2>5. todo \in Seq(Paths \X Contents)
    <3>1. PublicKey(pc.key) \in Contents /\ cert \in Contents
      BY <2>3, <1>1, KeyFacts, Zenon DEF Contents
    <3> QED BY <3>1, PathFacts
  <2>6. rec.todo = todo BY <1>1, Zenon DEF Runs
  <2>7. todo = << <<AuthorityOut, PublicKey(pc.key)>>, <<CertificateOut, cert>> >>
    BY Zenon
  <2> HIDE DEF todo
  <2>8. /\ rec \in Runs /\ rec.at = "write" /\ rec.command = "issue"
        /\ rec.created = pc.created /\ rec.key = pc.key
        /\ rec.from = pc.from /\ rec.until = pc.until
    BY <1>1, <1>2, <2>5, Zenon DEF Runs, States
  <2> HIDE DEF rec
  <2>9. Issuing(rec) BY <1>1, <1>2, <2>3, <2>6, <2>7, <2>8, Zenon DEF Issuing, Has
  <2>10. Ok(rec) BY <1>1, <1>2, <2>8, <2>9, Zenon DEF Ok, RunOK
  <2>11. \A q \in Procs : q /= p => Apart(rec, proc[q])
    BY <1>1, <1>2, <2>8, Zenon DEF Apart, Has, Issuing
  <2> QED BY <1>1, <2>4, <2>10, <2>11, QuietStep, RunIs, Zenon DEF Step
<1> QED BY <1>3, <1>4, Zenon

\* A run with a file to write, and that file.
LEMMA WritesIs ==
  ASSUME Inv, NEW p \in Procs, proc[p].at \in {"write", "link", "unlink"}
  PROVE  LET pc == proc[p] IN
         /\ pc.key \in Keys /\ pc.role \in Roles
         /\ \/ /\ pc.command = "keypair" /\ Pairing(pc)
               /\ \/ pc.todo = << <<Secret(pc.role), SecretKey(pc.key)>>,
                                  <<Public(pc.role), PublicKey(pc.key)>> >>
                  \/ /\ pc.todo = << <<Public(pc.role), PublicKey(pc.key)>> >>
                     /\ file[Secret(pc.role)] = SecretKey(pc.key)
            \/ /\ pc.command = "issue" /\ Issuing(pc)
               /\ \E c \in Certificates :
                    /\ c.by = pc.key
                    /\ \/ /\ pc.created = {}
                          /\ pc.todo = << <<AuthorityOut, PublicKey(pc.key)>>,
                                          <<CertificateOut, c>> >>
                       \/ /\ pc.created = {AuthorityOut}
                          /\ pc.todo = << <<CertificateOut, c>> >>
                          /\ pc.at = "unlink" => file[CertificateOut] = c
<1> DEFINE pc == proc[p]
<1>1. pc \in Runs /\ RunOK(pc) BY RunIs, Zenon
<1>2. pc.key \in Keys /\ pc.role \in Roles /\ pc.command \in {"keypair", "issue"}
  BY <1>1, Zenon DEF Runs, RunOK
<1>3. CASE pc.command = "keypair"
  BY <1>2, <1>3, RunIs, Zenon DEF Pairing
<1>4. CASE pc.command = "issue"
  <2>1. Issuing(pc) BY <1>4, RunIs, Zenon
  <2>2. pc.created \in {{}, {AuthorityOut}} BY <2>1, Zenon DEF Issuing
  <2> QED BY <1>2, <1>4, <2>1, <2>2, Zenon DEF Issuing
<1> QED BY <1>2, <1>3, <1>4, Zenon

\* A run that goes on to link, or gives up, before it has linked the file.
LEMMA OnOrUndo ==
  ASSUME Inv, NEW p \in Procs, proc[p].at \in {"write", "link"},
         NEW at \in {"link", "undo"}, Step(p, [proc[p] EXCEPT !.at = at]),
         UNCHANGED <<file, lastKey>>
  PROVE  Inv'
<1> DEFINE pc == proc[p]
           rec == [pc EXCEPT !.at = at]
<1>1. pc \in Runs /\ RunOK(pc) BY RunIs, Zenon
<1>2. /\ rec \in Runs /\ rec.at = at /\ rec.command = pc.command /\ rec.role = pc.role
      /\ rec.key = pc.key /\ rec.from = pc.from /\ rec.until = pc.until
      /\ rec.todo = pc.todo /\ rec.created = pc.created
  BY <1>1, Zenon DEF Runs, States
<1>3. Step(p, rec) BY Zenon
<1> HIDE DEF rec
<1>4. RunOK(rec) BY <1>1, <1>2, Zenon DEF RunOK
<1>5. rec.command = "keypair" => Pairing(rec)
  BY <1>2, RunIs, Zenon DEF Pairing
<1>6. rec.command = "issue" => Issuing(rec)
  BY <1>2, RunIs, Zenon DEF Issuing, Has
<1>7. \A q \in Procs : q /= p => Apart(rec, proc[q])
  BY <1>2, RunIs, Zenon DEF Apart, Has
<1> QED BY <1>3, <1>4, <1>5, <1>6, <1>7, QuietStep, RunIs, Zenon DEF Step, Ok

\* The temporary file is written, or is not.
LEMMA WriteTemporaryKeeps ==
  ASSUME Inv, NEW p \in Procs, WriteTemporary(p)
  PROVE  Inv'
<1>1. PICK succeeds \in BOOLEAN :
        Step(p, [proc[p] EXCEPT !.at = IF succeeds /\ file[NextPath(proc[p])] = None
                                       THEN "link" ELSE "undo"])
  BY Zenon DEF WriteTemporary
<1>2. PICK at \in {"link", "undo"} : Step(p, [proc[p] EXCEPT !.at = at])
  BY <1>1, Zenon
<1>3. proc[p].at = "write" /\ UNCHANGED <<file, lastKey>> BY Zenon DEF WriteTemporary
<1> QED BY <1>2, <1>3, OnOrUndo, Zenon

\* Content that suits its path, or a removal, keeps the files well-formed.
LEMMA FilePut ==
  ASSUME FilesOK, NEW path \in Paths, NEW content,
         file' = [file EXCEPT ![path] = content],
         \/ content = None
         \/ \E r \in Roles : path = Secret(r) /\ content \in SecretKeys
         \/ \E r \in Roles : path = Public(r) /\ content \in PublicKeys
         \/ path = AuthorityOut /\ content \in PublicKeys
         \/ path = CertificateOut /\ content \in Certificates
  PROVE  /\ FilesOK' /\ file'[path] = content
         /\ \A q \in Paths : q /= path => file'[q] = file[q]
<1>1. /\ file'[path] = content
      /\ \A q \in Paths : q /= path => file'[q] = file[q]
      /\ file' \in [Paths -> Contents \cup {None}]
  BY Zenon DEF FilesOK, Contents
<1>2. /\ \A r \in Roles : /\ file'[Secret(r)] \in SecretKeys \cup {None}
                          /\ file'[Public(r)] \in PublicKeys \cup {None}
      /\ file'[AuthorityOut] \in PublicKeys \cup {None}
      /\ file'[CertificateOut] \in Certificates \cup {None}
  BY <1>1, PathFacts DEF FilesOK
<1> QED BY <1>1, <1>2, Zenon DEF FilesOK

\* The run that has the authority file finds it there.
LEMMA HasMeans ==
  ASSUME Inv, NEW q \in Procs, Has(proc[q])
  PROVE  /\ proc[q].key \in Keys /\ Issuing(proc[q])
         /\ file[AuthorityOut] = PublicKey(proc[q].key) /\ file[AuthorityOut] /= None
<1>1. Issuing(proc[q]) /\ RunOK(proc[q]) BY RunIs, Zenon DEF Has
<1>2. proc[q].key \in Keys BY <1>1, Zenon DEF Issuing, Has, RunOK
<1> QED BY <1>1, <1>2, KeyFacts, Zenon DEF Issuing

\* A keypair run that sets or removes a file of its pair keeps the invariant if
\* the pair still matches and the run is as described.
LEMMA PairStep ==
  ASSUME Inv, NEW p \in Procs, NEW rec, proc[p].command = "keypair",
         NEW path \in {Secret(proc[p].role), Public(proc[p].role)}, NEW content,
         file' = [file EXCEPT ![path] = content], lastKey' = lastKey,
         \/ content = None
         \/ path = Secret(proc[p].role) /\ content \in SecretKeys
         \/ path = Public(proc[p].role) /\ content \in PublicKeys,
         proc' = [proc EXCEPT ![p] = rec], Ok(rec)',
         rec.command \in {"none", "keypair"}, rec.command = "keypair" => rec.role = proc[p].role,
         file'[Secret(proc[p].role)] /= None /\ file'[Public(proc[p].role)] /= None
           => file'[Secret(proc[p].role)].key = file'[Public(proc[p].role)].key
  PROVE  Inv'
<1> DEFINE r == proc[p].role
<1>1. r \in Roles BY RunIs, Zenon DEF Runs
<1>2. /\ FilesOK'
      /\ \A q \in Paths : q /= path => file'[q] = file[q]
  <2>1. path \in Paths BY <1>1, PathFacts, Zenon
  <2>2. \/ content = None
        \/ \E s \in Roles : path = Secret(s) /\ content \in SecretKeys
        \/ \E s \in Roles : path = Public(s) /\ content \in PublicKeys
    BY <1>1, Zenon
  <2> QED BY <2>1, <2>2, FilePut, Zenon DEF Inv
<1>3. /\ file'[AuthorityOut] = file[AuthorityOut]
      /\ file'[CertificateOut] = file[CertificateOut]
      /\ \A s \in Roles : s /= r => /\ file'[Secret(s)] = file[Secret(s)]
                                    /\ file'[Public(s)] = file[Public(s)]
  <2>1. /\ file'[AuthorityOut] = file[AuthorityOut]
        /\ file'[CertificateOut] = file[CertificateOut]
    BY <1>1, <1>2, PathFacts, Zenon
  <2>2. ASSUME NEW s \in Roles, s /= r
        PROVE  Secret(s) \in Paths /\ Secret(s) /= path
               /\ Public(s) \in Paths /\ Public(s) /= path
    BY <1>1, <2>2, PathFacts, Zenon
  <2> QED BY <1>2, <2>1, <2>2, Zenon
<1>4. Issued' BY <1>3, Zenon DEF Inv, Issued
<1>5. PairMatches' BY <1>3, Zenon DEF Inv, PairMatches
<1>6. \A q \in Procs : q /= p => Apart(rec, proc[q])
  BY RunIs, Zenon DEF Apart, Has
<1>7. \A q \in Procs : q /= p /\ proc[q].command = "keypair" =>
           /\ file'[Secret(proc[q].role)] = file[Secret(proc[q].role)]
           /\ file'[Public(proc[q].role)] = file[Public(proc[q].role)]
  <2> SUFFICES ASSUME NEW q \in Procs, q /= p, proc[q].command = "keypair"
               PROVE  /\ file'[Secret(proc[q].role)] = file[Secret(proc[q].role)]
                      /\ file'[Public(proc[q].role)] = file[Public(proc[q].role)]
    BY Zenon
  <2>1. proc[q].role \in Roles BY RunIs, Zenon DEF Runs
  <2>2. proc[q].role /= r BY RunIs, Zenon DEF Apart
  <2> QED BY <1>3, <2>1, <2>2, Zenon
<1>8. \A q \in Procs : q /= p /\ proc[q].command = "issue" =>
           (file'[CertificateOut] /= None => file'[AuthorityOut] /= None)
  BY <1>3, RunIs, Zenon DEF Issuing
<1>9. lastKey' \in 0..MaxKey BY RunIs, Zenon
<1> QED BY <1>2, <1>3, <1>4, <1>5, <1>6, <1>7, <1>8, <1>9, StepOf, Zenon

\* The secret or the public file of a pair is linked.
LEMMA LinkPair ==
  ASSUME Inv, NEW p \in Procs, Link(p), proc[p].command = "keypair",
         file[NextPath(proc[p])] = None,
         file' = [file EXCEPT ![NextPath(proc[p])] = proc[p].todo[1][2]],
         Step(p, [proc[p] EXCEPT !.at = "unlink"])
  PROVE  Inv'
<1> DEFINE pc == proc[p]
           secret == Secret(pc.role)
           public == Public(pc.role)
<1>1. /\ pc.at = "link" /\ lastKey' = lastKey /\ pc \in Runs /\ RunOK(pc) /\ Pairing(pc)
  BY RunIs, Zenon DEF Link
<1>0. PICK rec : rec = [pc EXCEPT !.at = "unlink"] BY Zenon
<1>2. /\ rec \in Runs /\ rec.at = "unlink" /\ rec.command = "keypair" /\ rec.role = pc.role
      /\ rec.key = pc.key /\ rec.from = pc.from /\ rec.until = pc.until
      /\ rec.todo = pc.todo /\ rec.created = pc.created
  BY <1>0, <1>1, Zenon DEF Runs, States
<1>3. proc' = [proc EXCEPT ![p] = rec] BY <1>0, Zenon DEF Step
<1>4. RunOK(rec) BY <1>1, <1>2, Zenon DEF RunOK
<1>5. pc.key \in Keys /\ pc.role \in Roles BY <1>1, WritesIs, Zenon
<1>6. /\ SecretKey(pc.key) \in SecretKeys /\ PublicKey(pc.key) \in PublicKeys
      /\ SecretKey(pc.key).key = PublicKey(pc.key).key
      /\ secret \in Paths /\ public \in Paths /\ secret /= public
  BY <1>5, KeyFacts, PathFacts, Zenon
<1>7. file[public] = None BY <1>1, Zenon DEF Pairing
<1>8. CASE pc.todo = << <<secret, SecretKey(pc.key)>>, <<public, PublicKey(pc.key)>> >>
  <2>1. file' = [file EXCEPT ![secret] = SecretKey(pc.key)] BY <1>8 DEF NextPath
  <2>2. file'[secret] = SecretKey(pc.key) /\ file'[public] = None
    BY <2>1, <1>6, <1>7, Zenon DEF Inv, FilesOK
  <2>3. pc.todo /= << <<public, PublicKey(pc.key)>> >> BY <1>8
  <2>4. Pairing(rec)' BY <1>1, <1>2, <1>8, <2>2, <2>3, Zenon DEF Pairing
  <2>5. Ok(rec)' BY <2>4, <1>2, <1>4 DEF Ok, RunOK
  <2> QED BY <1>1, <1>2, <1>3, <1>6, <2>1, <2>2, <2>5, PairStep, Zenon
<1>9. CASE pc.todo = << <<public, PublicKey(pc.key)>> >> /\ file[secret] = SecretKey(pc.key)
  <2>1. file' = [file EXCEPT ![public] = PublicKey(pc.key)] BY <1>9 DEF NextPath
  <2>2. file'[public] = PublicKey(pc.key) /\ file'[secret] = SecretKey(pc.key)
    BY <2>1, <1>6, <1>9, Zenon DEF Inv, FilesOK
  <2>3. Pairing(rec)' BY <1>1, <1>2, <1>9, <2>2, Zenon DEF Pairing
  <2>4. Ok(rec)' BY <2>3, <1>2, <1>4 DEF Ok, RunOK
  <2>5. file'[secret].key = file'[public].key BY <2>2, <1>6, Zenon
  <2>6. public \in {secret, public} BY Zenon
  <2>7. lastKey' = lastKey /\ rec.command \in {"none", "keypair"} BY <1>1, <1>2, Zenon
  <2>8. PublicKey(pc.key) \in PublicKeys BY <1>6, Zenon
  <2> QED BY <1>2, <1>3, <2>1, <2>4, <2>5, <2>6, <2>7, <2>8, PairStep, Zenon
<1> QED BY <1>1, <1>8, <1>9, Zenon DEF Pairing

\* An issue run that sets or removes an output while no other run has the
\* authority file.
LEMMA IssueStep ==
  ASSUME Inv, NEW p \in Procs, NEW rec, proc[p].command = "issue",
         NEW path \in {AuthorityOut, CertificateOut}, NEW content,
         file' = [file EXCEPT ![path] = content], lastKey' = lastKey,
         \/ content = None
         \/ path = AuthorityOut /\ content \in PublicKeys
         \/ path = CertificateOut /\ content \in Certificates,
         proc' = [proc EXCEPT ![p] = rec], Ok(rec)', rec.command \in {"none", "issue"},
         Issued', file'[CertificateOut] /= None => file'[AuthorityOut] /= None,
         \A q \in Procs : q /= p => ~Has(proc[q])
  PROVE  Inv'
<1>1. /\ FilesOK'
      /\ \A q \in Paths : q /= path => file'[q] = file[q]
  <2>1. path \in Paths BY PathFacts, Zenon
  <2> QED BY <2>1, FilePut, Zenon DEF Inv
<1>2. \A s \in Roles : /\ file'[Secret(s)] = file[Secret(s)]
                       /\ file'[Public(s)] = file[Public(s)]
  BY <1>1, PathFacts, Zenon
<1>3. PairMatches' BY <1>2, Zenon DEF Inv, PairMatches
<1>4. \A q \in Procs : q /= p => Apart(rec, proc[q]) BY Zenon DEF Apart
<1>5. \A q \in Procs : q /= p /\ proc[q].command = "keypair" =>
           /\ file'[Secret(proc[q].role)] = file[Secret(proc[q].role)]
           /\ file'[Public(proc[q].role)] = file[Public(proc[q].role)]
  <2>1. \A q \in Procs : proc[q].role \in Roles BY Zenon DEF Inv, Runs
  <2> QED BY <1>2, <2>1, Zenon
<1>6. lastKey' \in 0..MaxKey BY RunIs, Zenon
<1> QED BY <1>1, <1>3, <1>4, <1>5, <1>6, StepOf, Zenon

\* The authority file or the certificate is linked.
LEMMA LinkIssued ==
  ASSUME Inv, NEW p \in Procs, Link(p), proc[p].command = "issue",
         file[NextPath(proc[p])] = None,
         file' = [file EXCEPT ![NextPath(proc[p])] = proc[p].todo[1][2]],
         Step(p, [proc[p] EXCEPT !.at = "unlink"])
  PROVE  Inv'
<1> DEFINE pc == proc[p]
<1>1. pc.at = "link" /\ lastKey' = lastKey /\ pc \in Runs /\ RunOK(pc) /\ Issuing(pc)
  BY RunIs, Zenon DEF Link
<1>2. PICK rec : rec = [pc EXCEPT !.at = "unlink"] BY Zenon
<1>3. /\ rec \in Runs /\ rec.at = "unlink" /\ rec.command = "issue" /\ rec.role = pc.role
      /\ rec.key = pc.key /\ rec.from = pc.from /\ rec.until = pc.until
      /\ rec.todo = pc.todo /\ rec.created = pc.created
  BY <1>1, <1>2, Zenon DEF Runs, States
<1>4. proc' = [proc EXCEPT ![p] = rec] BY <1>2, Zenon DEF Step
<1>5. RunOK(rec) BY <1>1, <1>3, Zenon DEF RunOK
<1>6. pc.key \in Keys BY <1>1, WritesIs, Zenon
<1>7. /\ PublicKey(pc.key) \in PublicKeys /\ PublicKey(pc.key) /= None
      /\ PublicKey(pc.key).key = pc.key
      /\ AuthorityOut \in Paths /\ CertificateOut \in Paths /\ AuthorityOut /= CertificateOut
  BY <1>6, KeyFacts, PathFacts, Zenon
<1>8. PICK c \in Certificates :
        /\ c.by = pc.key
        /\ \/ /\ pc.created = {}
              /\ pc.todo = << <<AuthorityOut, PublicKey(pc.key)>>, <<CertificateOut, c>> >>
           \/ /\ pc.created = {AuthorityOut}
              /\ pc.todo = << <<CertificateOut, c>> >>
  BY <1>1, WritesIs, Zenon
<1>9. CASE /\ pc.created = {}
           /\ pc.todo = << <<AuthorityOut, PublicKey(pc.key)>>, <<CertificateOut, c>> >>
  <2>1. /\ file' = [file EXCEPT ![AuthorityOut] = PublicKey(pc.key)]
        /\ file[AuthorityOut] = None
    BY <1>9 DEF NextPath
  <2>2. file[CertificateOut] = None BY <2>1, <1>1, Zenon DEF Issuing
  <2>3. file'[AuthorityOut] = PublicKey(pc.key) /\ file'[CertificateOut] = None
    BY <2>1, <2>2, <1>7, Zenon DEF Inv, FilesOK
  <2>4. Issuing(rec)' BY <1>1, <1>3, <1>8, <1>9, <2>3, <1>7, Zenon DEF Issuing, Has
  <2>5. Ok(rec)' BY <2>4, <1>3, <1>5, Zenon DEF Ok, RunOK
  <2>6. \A q \in Procs : ~Has(proc[q]) BY <2>1, HasMeans, Zenon
  <2>7. Issued' BY <2>3, Zenon DEF Issued
  <2> QED BY <1>1, <1>3, <1>4, <1>7, <2>1, <2>3, <2>5, <2>6, <2>7, IssueStep, Zenon
<1>10. CASE pc.created = {AuthorityOut} /\ pc.todo = << <<CertificateOut, c>> >>
  <2>1. file' = [file EXCEPT ![CertificateOut] = c] BY <1>10 DEF NextPath
  <2>2. Has(pc) BY <1>10, Zenon DEF Has
  <2>3. file[AuthorityOut] = PublicKey(pc.key) BY <2>2, <1>1, Zenon DEF Issuing
  <2>4. file'[AuthorityOut] = PublicKey(pc.key) /\ file'[CertificateOut] = c
    BY <2>1, <2>3, <1>7, Zenon DEF Inv, FilesOK
  <2>5. Issuing(rec)' BY <1>1, <1>3, <1>8, <1>10, <2>4, <1>7, Zenon DEF Issuing, Has
  <2>6. Ok(rec)' BY <2>5, <1>3, <1>5, Zenon DEF Ok, RunOK
  <2>7. \A q \in Procs : q /= p => ~Has(proc[q]) BY <2>2, RunIs, Zenon DEF Apart
  <2>8. Issued' BY <2>4, <1>7, <1>8, Zenon DEF Issued
  <2> QED BY <1>1, <1>3, <1>4, <1>7, <2>1, <2>4, <2>6, <2>7, <2>8, IssueStep, Zenon
<1> QED BY <1>8, <1>9, <1>10, Zenon

\* link(2) succeeds on a path that is free, or fails.
LEMMA LinkKeeps ==
  ASSUME Inv, NEW p \in Procs, Link(p)
  PROVE  Inv'
<1>1. proc[p].at = "link" /\ lastKey' = lastKey BY Zenon DEF Link
<1>2. proc[p].command \in {"keypair", "issue"} BY <1>1, WritesIs, Zenon
<1>3. CASE /\ file[NextPath(proc[p])] = None
           /\ file' = [file EXCEPT ![NextPath(proc[p])] = proc[p].todo[1][2]]
           /\ Step(p, [proc[p] EXCEPT !.at = "unlink"])
  BY <1>2, <1>3, LinkPair, LinkIssued, Zenon
<1>4. CASE Step(p, [proc[p] EXCEPT !.at = "undo"]) /\ UNCHANGED file
  BY <1>1, <1>4, OnOrUndo, Zenon
<1> QED BY <1>3, <1>4, Zenon DEF Link

\* The temporary name is gone: on to the next file.
LEMMA UnlinkOn ==
  ASSUME Inv, NEW p \in Procs, proc[p].at = "unlink", Tail(proc[p].todo) /= <<>>,
         Step(p, [proc[p] EXCEPT !.at = "write", !.todo = Tail(proc[p].todo),
                                 !.created = @ \cup {NextPath(proc[p])}]),
         UNCHANGED <<file, lastKey>>
  PROVE  Inv'
<1> DEFINE pc == proc[p]
<1>1. pc \in Runs /\ RunOK(pc) /\ pc.key \in Keys /\ pc.role \in Roles
  BY RunIs, WritesIs, Zenon
<1>2. /\ PublicKey(pc.key) \in Contents /\ Certificates \subseteq Contents
      /\ Public(pc.role) \in Paths /\ Secret(pc.role) \in Paths
      /\ AuthorityOut \in Paths /\ CertificateOut \in Paths
  BY <1>1, KeyFacts, PathFacts, Zenon DEF Contents
<1>3. PICK rec : rec = [pc EXCEPT !.at = "write", !.todo = Tail(pc.todo),
                                  !.created = pc.created \cup {NextPath(pc)}]
  BY Zenon
<1>4. /\ proc' = [proc EXCEPT ![p] = rec]
      /\ rec.at = "write" /\ rec.command = pc.command /\ rec.role = pc.role
      /\ rec.key = pc.key /\ rec.from = pc.from /\ rec.until = pc.until
      /\ rec.todo = Tail(pc.todo) /\ rec.created = pc.created \cup {NextPath(pc)}
  BY <1>1, <1>3, Zenon DEF Step, Runs
<1>5. rec.todo \in Seq(Paths \X Contents) /\ rec.created \in SUBSET Paths => rec \in Runs
  <2> SUFFICES ASSUME NEW todo \in Seq(Paths \X Contents), NEW created \in SUBSET Paths,
                      rec = [pc EXCEPT !.at = "write", !.todo = todo, !.created = created]
               PROVE  rec \in Runs
    BY <1>3, <1>4, Zenon
  <2> QED BY <1>1, Zenon DEF Runs, States
<1>6. ASSUME pc.command = "keypair", Pairing(pc),
             pc.todo = << <<Secret(pc.role), SecretKey(pc.key)>>,
                          <<Public(pc.role), PublicKey(pc.key)>> >>
      PROVE  Inv'
  <2> DEFINE todo == << <<Public(pc.role), PublicKey(pc.key)>> >>
  <2>1. Tail(pc.todo) = todo /\ NextPath(pc) = Secret(pc.role) BY <1>6 DEF NextPath
  <2>2. todo \in Seq(Paths \X Contents) BY <1>2
  <2>3. pc.todo /= todo BY <1>6
  <2>4. pc.created \cup {Secret(pc.role)} \in SUBSET Paths
        /\ pc.created \cup {Secret(pc.role)} \subseteq {Secret(pc.role)}
    BY <1>2, <1>6, Zenon DEF Pairing
  <2>5. rec.todo = todo /\ rec.created = pc.created \cup {Secret(pc.role)} /\ rec \in Runs
    BY <1>4, <1>5, <2>1, <2>2, <2>4, Zenon
  <2>6. file[Secret(pc.role)] = SecretKey(pc.key) /\ file[Public(pc.role)] = None
    BY <1>6, <2>3, Zenon DEF Pairing
  <2>7. Pairing(rec) BY <2>4, <1>4, <2>5, <2>6, Zenon DEF Pairing
  <2>8. Ok(rec) BY <1>1, <1>4, <1>6, <2>5, <2>7, Zenon DEF Ok, RunOK
  <2>9. \A q \in Procs : q /= p => Apart(rec, proc[q])
    BY <1>6, <1>4, <2>5, RunIs, Zenon DEF Apart, Has
  <2> QED BY <1>4, <2>8, <2>9, QuietStep, RunIs, Zenon
<1>7. ASSUME pc.command = "issue", Issuing(pc), pc.created = {}, NEW c \in Certificates,
             c.by = pc.key,
             pc.todo = << <<AuthorityOut, PublicKey(pc.key)>>, <<CertificateOut, c>> >>
      PROVE  Inv'
  <2> DEFINE todo == << <<CertificateOut, c>> >>
  <2>1. Tail(pc.todo) = todo /\ NextPath(pc) = AuthorityOut BY <1>7 DEF NextPath
  <2>2. todo \in Seq(Paths \X Contents) BY <1>2
  <2>3. {AuthorityOut} \in SUBSET Paths /\ pc.created \cup {AuthorityOut} = {AuthorityOut}
    BY <1>2, <1>7, Zenon
  <2>4. rec.todo = todo /\ rec.created = {AuthorityOut} /\ rec \in Runs
    BY <1>4, <1>5, <2>1, <2>2, <2>3, Zenon
  <2>5. Has(pc) BY <1>7, Zenon DEF Has
  <2>6. file[AuthorityOut] = PublicKey(pc.key) /\ file[CertificateOut] = None
    BY <1>7, <2>5, Zenon DEF Issuing
  <2>7. Issuing(rec) BY <1>7, <1>4, <2>4, <2>6, Zenon DEF Issuing, Has
  <2>8. Ok(rec) BY <1>1, <1>4, <1>7, <2>4, <2>7, Zenon DEF Ok, RunOK
  <2>9. \A q \in Procs : q /= p => Apart(rec, proc[q])
    BY <1>7, <1>4, <2>4, <2>5, RunIs, Zenon DEF Apart
  <2> QED BY <1>4, <2>8, <2>9, QuietStep, RunIs, Zenon
<1>8. ASSUME NEW e, pc.todo = <<e>> PROVE FALSE BY <1>8
<1> QED BY <1>6, <1>7, <1>8, WritesIs, Zenon

\* The temporary name stays: the path is removed and the command gives up.
LEMMA UnlinkFails ==
  ASSUME Inv, NEW p \in Procs, proc[p].at = "unlink",
         file' = [file EXCEPT ![NextPath(proc[p])] = None],
         Step(p, [proc[p] EXCEPT !.at = "undo"]), lastKey' = lastKey
  PROVE  Inv'
<1> DEFINE pc == proc[p]
<1>1. pc \in Runs /\ RunOK(pc) /\ pc.key \in Keys /\ pc.role \in Roles
  BY RunIs, WritesIs, Zenon
<1>2. PICK rec : rec = [pc EXCEPT !.at = "undo"] BY Zenon
<1>3. /\ rec \in Runs /\ rec.at = "undo" /\ rec.command = pc.command /\ rec.role = pc.role
      /\ rec.key = pc.key /\ rec.from = pc.from /\ rec.until = pc.until
      /\ rec.todo = pc.todo /\ rec.created = pc.created
  BY <1>1, <1>2, Zenon DEF Runs, States
<1>4. proc' = [proc EXCEPT ![p] = rec] BY <1>2, Zenon DEF Step
<1>5. RunOK(rec) BY <1>1, <1>3, Zenon DEF RunOK
<1>6. /\ Public(pc.role) \in Paths /\ Secret(pc.role) \in Paths
      /\ Public(pc.role) /= Secret(pc.role)
      /\ AuthorityOut \in Paths /\ CertificateOut \in Paths /\ AuthorityOut /= CertificateOut
  BY <1>1, PathFacts, Zenon
<1>7. CASE pc.command = "keypair"
  <2>1. Pairing(pc) BY <1>7, RunIs, Zenon
  <2>2. /\ NextPath(pc) \in {Secret(pc.role), Public(pc.role)}
        /\ NextPath(pc) = Secret(pc.role) => file[Public(pc.role)] = None
    <3>1. CASE pc.todo = << <<Secret(pc.role), SecretKey(pc.key)>>,
                            <<Public(pc.role), PublicKey(pc.key)>> >>
      <4>1. pc.todo /= << <<Public(pc.role), PublicKey(pc.key)>> >> BY <3>1
      <4> QED BY <3>1, <4>1, <2>1 DEF NextPath, Pairing
    <3>2. CASE pc.todo = << <<Public(pc.role), PublicKey(pc.key)>> >>
      BY <3>2, <1>6 DEF NextPath
    <3> QED BY <3>1, <3>2, <2>1, Zenon DEF Pairing
  <2>3. file'[Public(pc.role)] = None
    BY <2>2, <1>6, Zenon DEF Inv, FilesOK
  <2>4. Pairing(rec)' BY <1>3, <2>1, <2>3, Zenon DEF Pairing
  <2>5. Ok(rec)' BY <2>4, <1>3, <1>5, <1>7, Zenon DEF Ok, RunOK
  <2> QED BY <1>3, <1>4, <1>7, <2>2, <2>3, <2>5, PairStep, Zenon
<1>8. CASE pc.command = "issue"
  <2>1. Issuing(pc) BY <1>8, RunIs, Zenon
  <2>2. PICK c \in Certificates :
          \/ /\ pc.created = {}
             /\ pc.todo = << <<AuthorityOut, PublicKey(pc.key)>>, <<CertificateOut, c>> >>
          \/ /\ pc.created = {AuthorityOut}
             /\ pc.todo = << <<CertificateOut, c>> >>
    BY <1>8, WritesIs, Zenon
  <2>3. Has(pc) BY <1>8, <2>2, Zenon DEF Has
  <2>4. \A q \in Procs : q /= p => ~Has(proc[q]) BY <2>3, RunIs, Zenon DEF Apart
  <2>5. file[AuthorityOut] = PublicKey(pc.key) BY <2>1, <2>3, Zenon DEF Issuing
  <2>6. /\ NextPath(pc) \in {AuthorityOut, CertificateOut}
        /\ file'[CertificateOut] = None
        /\ pc.created = {AuthorityOut} => file'[AuthorityOut] = file[AuthorityOut]
    <3>1. CASE /\ pc.created = {}
               /\ pc.todo = << <<AuthorityOut, PublicKey(pc.key)>>, <<CertificateOut, c>> >>
      <4>1. NextPath(pc) = AuthorityOut BY <3>1 DEF NextPath
      <4>2. file[CertificateOut] = None BY <3>1, <2>1, <2>3, Zenon DEF Issuing
      <4> QED BY <3>1, <4>1, <4>2, <1>6, Zenon DEF Inv, FilesOK
    <3>2. CASE pc.created = {AuthorityOut} /\ pc.todo = << <<CertificateOut, c>> >>
      <4>1. NextPath(pc) = CertificateOut BY <3>2 DEF NextPath
      <4> QED BY <4>1, <1>6, Zenon DEF Inv, FilesOK
    <3> QED BY <2>2, <3>1, <3>2, Zenon
  <2>7. Issuing(rec)' BY <1>3, <2>1, <2>5, <2>6, Zenon DEF Issuing, Has
  <2>8. Ok(rec)' BY <2>7, <1>3, <1>5, <1>8, Zenon DEF Ok, RunOK
  <2>9. Issued' BY <2>6, Zenon DEF Issued
  <2> QED BY <1>3, <1>4, <1>8, <2>4, <2>6, <2>8, <2>9, IssueStep, Zenon
<1> QED BY <1>7, <1>8, WritesIs, Zenon

\* The end of writing one file.
LEMMA UnlinkTemporaryKeeps ==
  ASSUME Inv, NEW p \in Procs, UnlinkTemporary(p)
  PROVE  Inv'
<1> DEFINE pc == proc[p]
           rest == Tail(pc.todo)
<1>1. pc.at = "unlink" /\ lastKey' = lastKey BY Zenon DEF UnlinkTemporary
<1>2. CASE rest = <<>> /\ Step(p, Idle) /\ UNCHANGED file
  BY <1>1, <1>2, Ends, Zenon
<1>3. CASE /\ rest /= <<>> /\ UNCHANGED file
           /\ Step(p, [pc EXCEPT !.at = "write", !.todo = rest,
                                 !.created = @ \cup {NextPath(pc)}])
  BY <1>1, <1>3, UnlinkOn, Zenon
<1>4. CASE /\ file' = [file EXCEPT ![NextPath(pc)] = None]
           /\ Step(p, [pc EXCEPT !.at = "undo"])
  BY <1>1, <1>4, UnlinkFails, Zenon
<1> QED BY <1>2, <1>3, <1>4, Zenon DEF UnlinkTemporary

\* A command that failed removes the file it created before.
LEMMA UndoKeeps ==
  ASSUME Inv, NEW p \in Procs, Undo(p)
  PROVE  Inv'
<1> DEFINE pc == proc[p]
<1>1. /\ pc.at = "undo" /\ proc' = [proc EXCEPT ![p] = Idle] /\ lastKey' = lastKey
      /\ file' = [q \in Paths |-> IF q \in pc.created THEN None ELSE file[q]]
  BY Zenon DEF Undo, Step
<1>2. pc \in Runs /\ RunOK(pc) /\ pc.role \in Roles /\ pc.command \in {"keypair", "issue"}
  <2>1. pc \in Runs /\ RunOK(pc) BY RunIs, Zenon
  <2> QED BY <2>1, <1>1, Zenon DEF Runs, RunOK
<1>3. Ok(Idle)' /\ Idle.command = "none" BY IdleIs, Zenon DEF Ok, RunOK
<1>4. file \in [Paths -> Contents \cup {None}] BY Zenon DEF Inv, FilesOK
<1>5. CASE pc.created = {}
  <2>1. file' = file BY <1>1, <1>4, <1>5, Zenon
  <2> QED BY <1>1, <2>1, Ends, Zenon DEF Step
<1>6. ASSUME NEW path \in Paths, pc.created = {path}
      PROVE  file' = [file EXCEPT ![path] = None] /\ file'[path] = None
  BY <1>1, <1>4, <1>6, Zenon
<1>7. CASE pc.command = "keypair" /\ pc.created /= {}
  <2>1. pc.created = {Secret(pc.role)} BY <1>7, RunIs, Zenon DEF Pairing
  <2>2. /\ file' = [file EXCEPT ![Secret(pc.role)] = None]
        /\ file'[Secret(pc.role)] = None
    BY <1>2, <1>6, <2>1, PathFacts, Zenon
  <2> QED BY <1>1, <1>3, <1>7, <2>2, PairStep, Zenon
<1>8. CASE pc.command = "issue" /\ pc.created /= {}
  <2>1. Issuing(pc) BY <1>8, RunIs, Zenon
  <2>2. pc.created = {AuthorityOut} BY <1>8, <2>1, Zenon DEF Issuing
  <2>3. Has(pc) BY <1>8, <2>2, Zenon DEF Has
  <2>4. file[CertificateOut] = None BY <1>1, <2>1, <2>3, Zenon DEF Issuing
  <2>5. file' = [file EXCEPT ![AuthorityOut] = None] BY <1>6, <2>2, PathFacts, Zenon
  <2>6. file'[CertificateOut] = None BY <2>4, <2>5, <1>4, PathFacts, Zenon
  <2>7. Issued' BY <2>6, Zenon DEF Issued
  <2>8. \A q \in Procs : q /= p => ~Has(proc[q]) BY <2>3, RunIs, Zenon DEF Apart
  <2> QED BY <1>1, <1>3, <1>8, <2>5, <2>6, <2>7, <2>8, IssueStep, Zenon
<1> QED BY <1>2, <1>5, <1>7, <1>8, Zenon

\* The administrator removes a file while no run is under way.
LEMMA RemoveKeeps ==
  ASSUME Inv, NEW path \in Paths, Remove(path)
  PROVE  Inv'
<1>1. /\ file' = [file EXCEPT ![path] = None] /\ proc' = proc /\ lastKey' = lastKey
      /\ \A p \in Procs : proc[p].at = "idle"
  BY Zenon DEF Remove
<1>2. \A p \in Procs : proc[p].command = "none" BY <1>1, RunIs, Zenon DEF RunOK
<1>3. FilesOK' /\ file'[path] = None /\ \A q \in Paths : q /= path => file'[q] = file[q]
  BY <1>1, FilePut, Zenon DEF Inv
<1>4. PairMatches' BY <1>3, PathFacts, Zenon DEF Inv, PairMatches
<1>5. Issued' BY <1>3, PathFacts, Zenon DEF Inv, Issued
<1>6. \A p \in Procs : Ok(proc[p])' BY <1>1, <1>2, RunIs, Zenon DEF Ok, RunOK
<1>7. \A p, q \in Procs : Apart(proc[p], proc[q])' BY <1>1, <1>2, Zenon DEF Apart, Has
<1> QED BY <1>1, <1>3, <1>4, <1>5, <1>6, <1>7, Zenon DEF Inv

------------------------------------------------------------------------------
\* The theorems

\* The invariant holds at the start, when no file exists.
LEMMA InitInv == Init => Inv
<1> SUFFICES ASSUME Init PROVE Inv BY Zenon
<1>1. file \in [Paths -> Contents \cup {None}] /\ \A q \in Paths : file[q] = None
  BY Zenon DEF Init
<1>2. FilesOK /\ PairMatches /\ Issued
  BY <1>1, PathFacts, Zenon DEF FilesOK, PairMatches, Issued
<1>3. /\ lastKey \in 0..MaxKey /\ proc \in [Procs -> Runs]
      /\ \A p \in Procs : proc[p] = Idle
  BY IdleIs, CredentialsAssumption DEF Init
<1> QED BY <1>2, <1>3, IdleIs, Zenon DEF Inv

\* The invariant holds always.
LEMMA AlwaysInv == Spec => []Inv
<1>1. ASSUME Inv, [Next]_vars PROVE Inv'
  <2>1. CASE UNCHANGED vars
    <3>1. file' = file /\ lastKey' = lastKey /\ proc' = proc BY <2>1, Zenon DEF vars
    <3>2. FilesOK' /\ PairMatches' /\ Issued'
      BY <1>1, <3>1, Zenon DEF Inv, FilesOK, PairMatches, Issued
    <3>3. ASSUME NEW p \in Procs PROVE Ok(proc[p])'
      <4>1. Ok(proc[p]) BY <1>1, Zenon DEF Inv
      <4>2. Pairing(proc[p]) => Pairing(proc[p])' BY <3>1, Zenon DEF Pairing
      <4>3. Issuing(proc[p]) => Issuing(proc[p])' BY <3>1, Zenon DEF Issuing, Has
      <4> QED BY <3>1, <4>1, <4>2, <4>3, Zenon DEF Ok, RunOK
    <3>4. \A p, q \in Procs : p /= q => Apart(proc[p], proc[q])'
      BY <1>1, <3>1, Zenon DEF Inv, Apart, Has
    <3> QED BY <1>1, <3>1, <3>2, <3>3, <3>4, Zenon DEF Inv
  <2>2. ASSUME NEW p \in Procs, NEW r \in Roles, BeginKeypair(p, r) PROVE Inv'
    BY <1>1, <2>2, BeginKeypairKeeps, Zenon
  <2>3. ASSUME NEW p \in Procs, NEW r \in Roles, NEW from \in Times, NEW until \in Times,
               BeginIssue(p, r, from, until)
        PROVE  Inv'
    BY <1>1, <2>3, BeginIssueKeeps, Zenon
  <2>4. ASSUME NEW p \in Procs, ReadSecret(p) \/ ReadAuthority(p) \/ ReadServerPublic(p)
        PROVE  Inv'
    BY <1>1, <2>4, ReadSecretKeeps, ReadAuthorityKeeps, ReadServerPublicKeeps, Zenon
  <2>5. ASSUME NEW p \in Procs,
               WriteTemporary(p) \/ Link(p) \/ UnlinkTemporary(p) \/ Undo(p)
        PROVE  Inv'
    BY <1>1, <2>5, WriteTemporaryKeeps, LinkKeeps, UnlinkTemporaryKeeps, UndoKeeps, Zenon
  <2>6. ASSUME NEW p \in Procs, Crash(p) PROVE Inv'
    BY <1>1, <2>6, Ends, Zenon DEF Crash
  <2>7. ASSUME NEW path \in Paths, Remove(path) PROVE Inv'
    BY <1>1, <2>7, RemoveKeeps, Zenon
  <2> QED BY <1>1, <2>1, <2>2, <2>3, <2>4, <2>5, <2>6, <2>7, Zenon DEF Next
<1> QED BY <1>1, InitInv, PTL DEF Spec

\* The secret and the public file of a pair, when both exist, are of one key
\* (sv2_credentials_keypair), whatever failed or was killed in between.
THEOREM KeyFilesMatch == Spec => []PairMatches
<1>1. Inv => PairMatches BY Zenon DEF Inv
<1> QED BY <1>1, AlwaysInv, PTL

\* An authority file and a certificate found side by side load in the server at
\* every time of the certificate's interval, with the secret it was issued for
\* (sv2_credentials_issue, sv2_noise_credentials_load).
THEOREM CertificatesLoad == Spec => []IssuedLoads
<1>1. ASSUME Inv PROVE IssuedLoads
  <2> DEFINE c == file[CertificateOut]
             a == file[AuthorityOut]
  <2> SUFFICES ASSUME c /= None, a /= None, NEW now \in Times,
                      c.from <= now, now <= c.until
               PROVE  LoadCredentials(SecretKey(c.for), a, c, now) = "ok"
    BY Zenon DEF IssuedLoads
  <2>1. c \in Certificates /\ a \in PublicKeys BY <1>1, Zenon DEF Inv, FilesOK
  <2>2. c.by = a.key BY <1>1, Zenon DEF Inv, Issued
  <2>3. c.version = 0 /\ c.from \in Nat /\ c.until \in Nat /\ now \in Nat
    BY <2>1, KeyFacts, CredentialsAssumption, Zenon
  <2>4. c.for \in Keys BY <2>1 DEF Certificates, Certificate
  <2>5. SecretKey(c.for) /= None /\ SecretKey(c.for).key = c.for BY <2>4, KeyFacts, Zenon
  <2>6. CertificateTime(c.from, c.until, now) = "ok" BY <2>3 DEF CertificateTime
  <2> QED BY <2>2, <2>3, <2>5, <2>6, Zenon DEF LoadCredentials
<1> QED BY <1>1, AlwaysInv, PTL

\* No step puts other content at a path that has some (link(2) in
\* write_new_file).
THEOREM FilesAreNotOverwritten == Spec => NeverOverwrites
<1> DEFINE Kept == \A path \in Paths :
             file[path] /= None /\ file'[path] /= None => file'[path] = file[path]
<1>1. ASSUME Inv, [Next]_vars PROVE [Kept]_vars
  <2>1. file \in [Paths -> Contents \cup {None}] BY <1>1, Zenon DEF Inv, FilesOK
  <2>2. CASE file' = file BY <2>2, Zenon
  <2>3. ASSUME NEW path, NEW content, file' = [file EXCEPT ![path] = content],
               content = None \/ file[path] = None
        PROVE  Kept
    BY <2>1, <2>3, Zenon
  <2>4. ASSUME NEW p \in Procs, Link(p) PROVE Kept
    BY <2>2, <2>3, <2>4, Zenon DEF Link
  <2>5. ASSUME NEW p \in Procs, UnlinkTemporary(p) PROVE Kept
    BY <2>2, <2>3, <2>5, Zenon DEF UnlinkTemporary
  <2>6. ASSUME NEW p \in Procs, Undo(p) PROVE Kept
    BY <2>6, Zenon DEF Undo
  <2>7. ASSUME NEW path \in Paths, Remove(path) PROVE Kept
    BY <2>3, <2>7, Zenon DEF Remove
  <2>8. ASSUME NEW p \in Procs,
               \/ \E r \in Roles : BeginKeypair(p, r)
               \/ \E r \in Roles, from, until \in Times : BeginIssue(p, r, from, until)
               \/ ReadSecret(p) \/ ReadAuthority(p) \/ ReadServerPublic(p)
               \/ WriteTemporary(p) \/ Crash(p)
        PROVE  file' = file
    BY <2>8, Zenon DEF BeginKeypair, BeginIssue, ReadSecret, ReadAuthority, ReadServerPublic,
                WriteTemporary, Crash
  <2> QED BY <1>1, <2>2, <2>4, <2>5, <2>6, <2>7, <2>8, Zenon DEF Next
<1> QED BY <1>1, AlwaysInv, PTL DEF Spec, NeverOverwrites
==============================================================================
