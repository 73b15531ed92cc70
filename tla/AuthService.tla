----------------------------- MODULE AuthService -----------------------------
(***************************************************************************)
(* The auth service: services/auth/internal, and the tokens of pkg/jwtx.   *)
(*                                                                         *)
(* Registering looks for the address in one database call and inserts the  *)
(* user in another, with a slow hash in between; logging in reads the user *)
(* and signs a token.  Requests interleave between the calls.  An address  *)
(* is stored as Register normalises it, and only the unique index on the   *)
(* column keeps two rows of one address apart.                             *)
(*                                                                         *)
(* A token never expires and is never revoked.  The services share the     *)
(* secret it is signed with, so a token is the claims it was signed for.   *)
(***************************************************************************)
EXTENDS Integers

CONSTANTS Emails,       \* addresses as clients spell them
          Lower,        \* the address in lower case, without blanks around it
          Passwords,    \* passwords of six characters and more
          Hashable,     \* those that HashPassword takes (72 bytes at most)
          Digest,       \* what bcrypt tells apart: the first 72 bytes
          Ids,          \* user ids (uuids: each is issued at most once)
          Slots,        \* request slots: how many requests run at a time
          NoUser,       \* marks an address without a row in auth.users
          Idle          \* marks a request slot that serves nobody

Digests == {Digest[p] : p \in Passwords}
User    == [id : Ids, hash : Digests]
Token   == [id : Ids, email : Emails]

(* A 201 answer: the payload, and the password the client asked for.       *)
Welcome == [id : Ids, email : Emails, password : Passwords]

(* at: the database call the request makes next.                           *)
Request == [op : {"register", "login"}, email : Emails, password : Passwords,
            at : {"find", "insert"}]

ASSUME EmailAssumption ==
  Lower \in [Emails -> Emails] /\ \A e \in Emails : Lower[Lower[e]] = Lower[e]
ASSUME SentinelAssumption == NoUser \notin User /\ Idle \notin Request

VARIABLES users,        \* the table auth.users: the row under each address
          issued,       \* history: the user ids handed out
          req,          \* what each request slot is doing
          welcomes,     \* history: the registrations answered 201
          tokens        \* the tokens that clients hold

vars == <<users, issued, req, welcomes, tokens>>

(* Types; addresses are stored in one spelling only.  (entity.go:10-18,    *)
(* auth_service.go:79)                                                     *)
TypeOK ==
  /\ users \in [Emails -> User \cup {NoUser}]
  /\ \A e \in Emails : users[e] # NoUser => Lower[e] = e
  /\ issued \subseteq Ids
  /\ req \in [Slots -> Request \cup {Idle}]
  /\ welcomes \subseteq Welcome /\ tokens \subseteq Token

Init ==
  /\ users = [e \in Emails |-> NoUser] /\ issued = {}
  /\ req = [s \in Slots |-> Idle]
  /\ welcomes = {} /\ tokens = {}

At(s, op, at) == req[s] # Idle /\ req[s].op = op /\ req[s].at = at
Answer(s)     == req' = [req EXCEPT ![s] = Idle]

Verbatim(e)  == e
Normalise(e) == Lower[e]

Address(s) == Normalise(req[s].email)
Row(s)     == users[Address(s)]

-----------------------------------------------------------------------------
(* A register or login request that the JSON binding lets through.         *)
Start(s, op, e, p) ==
  /\ req[s] = Idle
  /\ req' = [req EXCEPT ![s] = [op |-> op, email |-> e, password |-> p, at |-> "find"]]
  /\ UNCHANGED <<users, issued, welcomes, tokens>>

(* Register's FindByEmail, and the hash, which bcrypt may refuse.          *)
FindFree(s) ==
  /\ At(s, "register", "find")
  /\ IF Row(s) = NoUser /\ req[s].password \in Hashable
     THEN req' = [req EXCEPT ![s].at = "insert"]
     ELSE Answer(s)
  /\ UNCHANGED <<users, issued, welcomes, tokens>>

Insert(s, id, free, acked) ==
  /\ At(s, "register", "insert")
  /\ id \in Ids \ issued
  /\ issued' = issued \cup {id}
  /\ users' = IF free THEN [users EXCEPT ![Address(s)] =
                              [id |-> id, hash |-> Digest[req[s].password]]]
                      ELSE users
  /\ welcomes' = IF free /\ acked
                 THEN welcomes \cup {[id |-> id, email |-> Address(s),
                                      password |-> req[s].password]}
                 ELSE welcomes
  /\ Answer(s)
  /\ UNCHANGED tokens

InsertOrReplace(s, id, acked) == Insert(s, id, TRUE, acked)

(* repo.Create under a new id: the unique index refuses an address that    *)
(* has got a row meanwhile.  The acknowledgement may be lost.              *)
InsertUser(s, id, acked) == Insert(s, id, Row(s) = NoUser, acked)

(* Login's FindByEmail, CompareHash and SignToken: no state but the row.   *)
Login(s) ==
  /\ At(s, "login", "find")
  /\ tokens' = IF Row(s) # NoUser /\ Row(s).hash = Digest[req[s].password]
               THEN tokens \cup {[id |-> Row(s).id, email |-> Address(s)]}
               ELSE tokens
  /\ Answer(s)
  /\ UNCHANGED <<users, issued, welcomes>>

(* The database call fails without effect: the request is answered 500.    *)
Fail(s) ==
  /\ req[s] # Idle /\ Answer(s)
  /\ UNCHANGED <<users, issued, welcomes, tokens>>

(* The service stops and starts: AutoMigrate keeps the table.              *)
Crash ==
  /\ req' = [s \in Slots |-> Idle]
  /\ UNCHANGED <<users, issued, welcomes, tokens>>

HandlerStep(s) ==
  \/ FindFree(s) \/ Login(s) \/ Fail(s)
  \/ \E id \in Ids, acked \in BOOLEAN : InsertUser(s, id, acked)

StartStep(s) ==
  \E op \in {"register", "login"}, e \in Emails, p \in Passwords : Start(s, op, e, p)

Next == Crash \/ \E s \in Slots : StartStep(s) \/ HandlerStep(s)

Spec == Init /\ [][Next]_vars

-----------------------------------------------------------------------------
(* A registration that was answered 201 stands for good: its address is    *)
(* the account it was told, and opens to the password it chose, whatever   *)
(* other registrations of the address overlapped it or came after it.      *)
(* Hence no two registrations of an address are both answered 201.         *)
(* (auth_service.go:84-109)                                                *)
RegistrationKept ==
  \A w \in welcomes :
    users[w.email] = [id |-> w.id, hash |-> Digest[w.password]]

(* However an address was spelt and however often it logged in, its tokens *)
(* name one user, and the tokens of another address name another: a client *)
(* finds its bookings again, and only its own.  (auth_service.go:79-84,    *)
(* 121-138)                                                                *)
OneIdentity ==
  \A t, u \in tokens : (Lower[t.email] = Lower[u.email]) <=> (t.id = u.id)
=============================================================================
