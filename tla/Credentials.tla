---------------------------- MODULE Credentials ----------------------------
(***************************************************************************)
(* Provisioning the credentials of authenticated SV2: the command-line     *)
(* tool that makes key pairs and issues the server's certificate           *)
(* (sv2_noise/tools/credentials.c), and what the server accepts of its     *)
(* files when it starts (sv2_noise_credentials_load).  A run of the tool   *)
(* is a process that may fail at any system call or be killed between two, *)
(* and an administrator who runs it again or removes files.                *)
(*                                                                         *)
(* A key is a number, the content of a file is a term.  Every file the     *)
(* tool reads has the size, mode and encoding it demands.                  *)
(***************************************************************************)
EXTENDS Naturals, Sequences, FiniteSets

CONSTANTS
  Procs,     \* runs of the tool that may overlap
  MaxKey,    \* bound: secrets ever generated
  Times,     \* Unix times, of certificates and of the server's clock
  None       \* no such file

Roles == {"server", "authority"}
Secret(r) == <<r, "secret">>
Public(r) == <<r, "public">>
AuthorityOut == <<"server", "authority public">>
CertificateOut == <<"server", "certificate">>
Paths == {Secret(r) : r \in Roles} \cup {Public(r) : r \in Roles}
           \cup {AuthorityOut, CertificateOut}

VARIABLES
  file,      \* per path: its content or None
  lastKey,   \* the secrets generated so far are 1..lastKey
  proc       \* per process: its command, where it is, what it has to write

vars == <<file, lastKey, proc>>

SecretKey(k) == [kind |-> "secret", key |-> k]
PublicKey(k) == [kind |-> "public", key |-> k]
Certificate(for, by, from, until) ==
  [kind |-> "certificate", version |-> 0, for |-> for, by |-> by,
   from |-> from, until |-> until]

\* What the files hold.
Keys == 1..MaxKey
SecretKeys == {SecretKey(k) : k \in Keys}
PublicKeys == {PublicKey(k) : k \in Keys}
Certificates ==
  {Certificate(for, by, from, until) : for, by \in Keys, from, until \in Times}

ASSUME CredentialsAssumption ==
  /\ MaxKey \in Nat /\ Times \subseteq Nat
  /\ None \notin SecretKeys \cup PublicKeys \cup Certificates

Idle == [at |-> "idle", command |-> "none", role |-> "server", from |-> 0,
         until |-> 0, key |-> 0, todo |-> <<>>, created |-> {}]

Init ==
  /\ file = [p \in Paths |-> None]
  /\ lastKey = 0
  /\ proc = [p \in Procs |-> Idle]

------------------------------------------------------------------------------
\* What the server accepts (sv2_noise.c)

CertificateTime(from, until, now) ==
  CASE until < from -> "invalid certificate"
    [] until >= from /\ now < from -> "not yet valid"
    [] until >= from /\ now > until -> "expired"
    [] OTHER -> "ok"

\* Three files are read; the first check that fails decides.
LoadCredentials(secret, authority, certificate, now) ==
  CASE None \in {secret, authority, certificate} -> "cannot open"
    [] OTHER ->
         IF certificate.version /= 0 THEN "unsupported version"
         ELSE IF CertificateTime(certificate.from, certificate.until, now) /= "ok"
              THEN CertificateTime(certificate.from, certificate.until, now)
         ELSE IF certificate.for = secret.key /\ certificate.by = authority.key
              THEN "ok" ELSE "invalid certificate"

------------------------------------------------------------------------------
\* The commands

Step(p, rec) == proc' = [proc EXCEPT ![p] = rec]

\* keypair: the public file must not exist.  The administrator does not run two
\* of these on one pair at a time.
BeginKeypair(p, r) ==
  /\ proc[p].at = "idle"
  /\ \A q \in Procs : ~(proc[q].command = "keypair" /\ proc[q].role = r)
  /\ file[Public(r)] = None
  /\ Step(p, [Idle EXCEPT !.at = "secret", !.command = "keypair", !.role = r])
  /\ UNCHANGED <<file, lastKey>>

\* Fault: a secret that exists is not reused.
ReadSecretAnew(p) ==
  LET pc == proc[p]
      k == lastKey + 1 IN
  /\ pc.at = "secret" /\ pc.command = "keypair" /\ k <= MaxKey
  /\ lastKey' = k
  /\ Step(p, [pc EXCEPT !.at = "write", !.key = k,
                        !.todo = (IF file[Secret(pc.role)] = None
                                  THEN << <<Secret(pc.role), SecretKey(k)>> >> ELSE <<>>)
                                 \o << <<Public(pc.role), PublicKey(k)>> >>])
  /\ UNCHANGED file

\* An existing secret is reused, otherwise one is generated and written first.
ReadSecret(p) ==
  LET pc == proc[p]
      found == file[Secret(pc.role)]
      public(k) == <<Public(pc.role), PublicKey(k)>> IN
  /\ pc.at = "secret" /\ pc.command = "keypair"
  /\ \/ /\ found /= None
        /\ Step(p, [pc EXCEPT !.at = "write", !.key = found.key,
                              !.todo = <<public(found.key)>>])
        /\ UNCHANGED lastKey
     \/ /\ found = None /\ lastKey < MaxKey
        /\ lastKey' = lastKey + 1
        /\ Step(p, [pc EXCEPT !.at = "write", !.key = lastKey + 1,
                              !.todo = << <<Secret(pc.role), SecretKey(lastKey + 1)>>,
                                          public(lastKey + 1) >>])
  /\ UNCHANGED file

\* issue: the interval is not empty and neither output exists.  r says whose
\* secret is given as the authority's.
BeginIssue(p, r, from, until) ==
  /\ proc[p].at = "idle"
  /\ from < until
  /\ file[AuthorityOut] = None /\ file[CertificateOut] = None
  /\ Step(p, [Idle EXCEPT !.at = "secret", !.command = "issue", !.role = r,
                          !.from = from, !.until = until])
  /\ UNCHANGED <<file, lastKey>>

ReadAuthority(p) ==
  LET pc == proc[p]
      found == file[Secret(pc.role)] IN
  /\ pc.at = "secret" /\ pc.command = "issue"
  /\ Step(p, IF found = None THEN Idle
             ELSE [pc EXCEPT !.at = "public", !.key = found.key])
  /\ UNCHANGED <<file, lastKey>>

\* The server's public key, which must not be the authority's own.
ReadServerPublic(p) ==
  LET pc == proc[p]
      found == file[Public("server")] IN
  /\ pc.at = "public"
  /\ Step(p, IF found \in {None, PublicKey(pc.key)} THEN Idle
             ELSE [pc EXCEPT !.at = "write",
                             !.todo = << <<AuthorityOut, PublicKey(pc.key)>>,
                                         <<CertificateOut,
                                           Certificate(found.key, pc.key,
                                                       pc.from, pc.until)>> >>])
  /\ UNCHANGED <<file, lastKey>>

------------------------------------------------------------------------------
\* write_new_file, for the next file the command has to write

NextPath(pc) == pc.todo[1][1]

\* The data goes to a temporary file next to the path, which must not exist.
WriteTemporary(p) ==
  LET pc == proc[p] IN
  /\ pc.at = "write"
  /\ \E succeeds \in BOOLEAN :
       Step(p, [pc EXCEPT !.at = IF succeeds /\ file[NextPath(pc)] = None
                                 THEN "link" ELSE "undo"])
  /\ UNCHANGED <<file, lastKey>>

\* Fault: the temporary file is renamed over the path.
LinkByRename(p) ==
  LET pc == proc[p] IN
  /\ pc.at = "link"
  /\ file' = [file EXCEPT ![NextPath(pc)] = pc.todo[1][2]]
  /\ Step(p, [pc EXCEPT !.at = "unlink"])
  /\ UNCHANGED lastKey

\* Fault: a path that exists by now counts as written.
LinkTolerant(p) ==
  LET pc == proc[p] IN
  /\ pc.at = "link"
  /\ file' = [file EXCEPT ![NextPath(pc)] = IF @ = None THEN pc.todo[1][2] ELSE @]
  /\ Step(p, [pc EXCEPT !.at = "unlink"])
  /\ UNCHANGED lastKey

\* link(2) fails when the path exists by now, or for another reason.
Link(p) ==
  LET pc == proc[p] IN
  /\ pc.at = "link"
  /\ \/ /\ file[NextPath(pc)] = None
        /\ file' = [file EXCEPT ![NextPath(pc)] = pc.todo[1][2]]
        /\ Step(p, [pc EXCEPT !.at = "unlink"])
     \/ /\ Step(p, [pc EXCEPT !.at = "undo"])
        /\ UNCHANGED file
  /\ UNCHANGED lastKey

\* When the temporary name cannot be removed the path goes too.
UnlinkTemporary(p) ==
  LET pc == proc[p]
      rest == Tail(pc.todo) IN
  /\ pc.at = "unlink"
  /\ \/ /\ Step(p, IF rest = <<>> THEN Idle
                   ELSE [pc EXCEPT !.at = "write", !.todo = rest,
                                   !.created = @ \cup {NextPath(pc)}])
        /\ UNCHANGED file
     \/ /\ file' = [file EXCEPT ![NextPath(pc)] = None]
        /\ Step(p, [pc EXCEPT !.at = "undo"])
  /\ UNCHANGED lastKey

\* The file a failed command created before is removed.
Undo(p) ==
  /\ proc[p].at = "undo"
  /\ file' = [q \in Paths |-> IF q \in proc[p].created THEN None ELSE file[q]]
  /\ Step(p, Idle)
  /\ UNCHANGED lastKey

\* The process is killed, or a step that touches no file fails.
Crash(p) ==
  /\ proc[p].at /= "idle"
  /\ Step(p, Idle)
  /\ UNCHANGED <<file, lastKey>>

\* Between runs of the tool the administrator removes what is in its way.
Remove(path) ==
  /\ \A p \in Procs : proc[p].at = "idle"
  /\ file[path] /= None
  /\ file' = [file EXCEPT ![path] = None]
  /\ UNCHANGED <<lastKey, proc>>

Next ==
  \/ \E p \in Procs :
       \/ \E r \in Roles : BeginKeypair(p, r)
       \/ \E r \in Roles, from, until \in Times : BeginIssue(p, r, from, until)
       \/ ReadSecret(p) \/ ReadAuthority(p) \/ ReadServerPublic(p)
       \/ WriteTemporary(p) \/ Link(p) \/ UnlinkTemporary(p)
       \/ Undo(p) \/ Crash(p)
  \/ \E path \in Paths : Remove(path)

Spec == Init /\ [][Next]_vars

------------------------------------------------------------------------------
\* Properties

\* The files of a key pair that both exist are of one key, whatever failed, was
\* killed or removed in between (sv2_credentials_keypair).
PairMatches ==
  \A r \in Roles :
    file[Secret(r)] /= None /\ file[Public(r)] /= None
      => file[Secret(r)].key = file[Public(r)].key

\* A certificate and an authority key found side by side belong together: for
\* the secret it was issued for the server loads them at every time from
\* valid_from to not_valid_after (sv2_credentials_issue against
\* sv2_noise_credentials_load).
IssuedLoads ==
  LET certificate == file[CertificateOut] IN
  certificate /= None /\ file[AuthorityOut] /= None =>
    \A now \in Times :
      certificate.from <= now /\ now <= certificate.until
        => LoadCredentials(SecretKey(certificate.for), file[AuthorityOut],
                           certificate, now) = "ok"

\* No run of the tool replaces a file, also when two overlap (link(2) decides,
\* not the check before it).
NeverOverwrites ==
  [][\A path \in Paths :
       file[path] /= None /\ file'[path] /= None => file'[path] = file[path]]_vars
==============================================================================
