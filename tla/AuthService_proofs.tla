------------------------- MODULE AuthService_proofs -------------------------
(***************************************************************************)
(* Theorems about AuthService, for any number of addresses, passwords,     *)
(* users and concurrent requests.                                          *)
(***************************************************************************)
EXTENDS AuthService, TLAPS

Taken(e) == users[e] # NoUser

(* Every account has an id of its own, which was handed out before.        *)
IdsDistinct ==
  /\ \A e \in Emails : Taken(e) => users[e].id \in issued
  /\ \A e, f \in Emails : Taken(e) /\ Taken(f) /\ users[e].id = users[f].id => e = f

(* A token is that of the account its address has now.                     *)
TokensTrue == \A t \in tokens : Taken(t.email) /\ users[t.email].id = t.id

(* The inductive invariant.  OneIdentity does not carry itself: what makes *)
(* two tokens agree is that both still agree with the one row.             *)
IInv == TypeOK /\ IdsDistinct /\ RegistrationKept /\ TokensTrue

(* A row that is kept carries every invariant that looks at it; nothing    *)
(* but the tokens and the slots may change in such a step.                 *)
LEMMA RowsKept ==
  ASSUME IInv, req' \in [Slots -> Request \cup {Idle}],
         UNCHANGED <<users, issued, welcomes, tokens>>
  PROVE  IInv'
BY DEF IInv, TypeOK, IdsDistinct, RegistrationKept, TokensTrue, Taken

LEMMA InitIInv == Init => IInv
<1>1. Init => TypeOK
  BY DEF Init, TypeOK
<1>2. QED
  BY <1>1 DEF Init, IInv, IdsDistinct, RegistrationKept, TokensTrue, Taken

(* What a request that runs knows of itself.                               *)
LEMMA RequestKnown ==
  ASSUME TypeOK, NEW s \in Slots, req[s] # Idle
  PROVE  /\ req[s] \in Request
         /\ Address(s) \in Emails /\ Lower[Address(s)] = Address(s)
         /\ Digest[req[s].password] \in Digests
<1>1. req[s] \in Request
  BY DEF TypeOK
<1>2. req[s].email \in Emails /\ req[s].password \in Passwords
  BY <1>1 DEF Request
<1>3. QED
  BY <1>1, <1>2, EmailAssumption DEF Address, Normalise, Digests

LEMMA InsertStep ==
  ASSUME IInv, NEW s \in Slots, NEW id \in Ids, NEW acked \in BOOLEAN,
         InsertUser(s, id, acked)
  PROVE  IInv'
<1> DEFINE a   == Address(s)
           row == [id |-> id, hash |-> Digest[req[s].password]]
           w   == [id |-> id, email |-> a, password |-> req[s].password]
<1>1. req[s] \in Request /\ a \in Emails /\ Lower[a] = a /\ row.hash \in Digests
  BY RequestKnown DEF IInv, InsertUser, Insert, At
<1>2. row \in User /\ row # NoUser /\ w \in Welcome
  BY <1>1, SentinelAssumption DEF User, Welcome, Request
<1>3. req' \in [Slots -> Request \cup {Idle}]
  BY DEF IInv, TypeOK, InsertUser, Insert, Answer
<1>4. CASE Row(s) # NoUser
  <2>1. UNCHANGED <<users, welcomes, tokens>> /\ issued' = issued \cup {id}
    BY <1>4 DEF InsertUser, Insert
  <2>2. QED
    BY <2>1, <1>3 DEF IInv, TypeOK, IdsDistinct, RegistrationKept, TokensTrue, Taken
<1>5. CASE Row(s) = NoUser
  <2>1. /\ users[a] = NoUser
        /\ users' = [users EXCEPT ![a] = row]
        /\ issued' = issued \cup {id} /\ id \notin issued
        /\ welcomes' \subseteq welcomes \cup {w}
        /\ tokens' = tokens
    BY <1>5 DEF InsertUser, Insert, Row
  <2>2. users \in [Emails -> User \cup {NoUser}]
    BY DEF IInv, TypeOK
  <2>3. users'[a] = row /\ \A e \in Emails : e # a => users'[e] = users[e]
    BY <2>1, <2>2, <1>1
  <2>4. TypeOK'
    BY <2>1, <2>2, <2>3, <1>1, <1>2, <1>3 DEF IInv, TypeOK
  <2>5. IdsDistinct'
    <3>1. \A e \in Emails : Taken(e)' => users'[e].id \in issued'
      BY <2>1, <2>3 DEF IInv, IdsDistinct, Taken
    <3>2. ASSUME NEW e \in Emails, NEW f \in Emails,
                 Taken(e)', Taken(f)', users'[e].id = users'[f].id
          PROVE  e = f
      <4>1. \A g \in Emails : g # a /\ Taken(g)' => users'[g].id # id
        BY <2>1, <2>3 DEF IInv, IdsDistinct, Taken
      <4>2. QED
        BY <4>1, <3>2, <2>3 DEF IInv, IdsDistinct, Taken
    <3>3. QED
      BY <3>1, <3>2 DEF IdsDistinct
  <2>6. RegistrationKept'
    <3>1. ASSUME NEW v \in welcomes
          PROVE  users'[v.email] = [id |-> v.id, hash |-> Digest[v.password]]
      <4>1. /\ v.email \in Emails /\ v.id \in Ids /\ Digest[v.password] \in Digests
            /\ users[v.email] = [id |-> v.id, hash |-> Digest[v.password]]
        BY DEF IInv, RegistrationKept, TypeOK, Welcome, Digests
      <4>2. users[v.email] # NoUser
        BY <4>1, SentinelAssumption DEF User
      <4>3. QED
        BY <4>1, <4>2, <2>1, <2>3
    <3>2. users'[w.email] = [id |-> w.id, hash |-> Digest[w.password]]
      BY <2>3
    <3>3. QED
      BY <3>1, <3>2, <2>1 DEF RegistrationKept
  <2>7. TokensTrue'
    <3>1. \A t \in tokens : t.email \in Emails
      BY DEF IInv, TypeOK, Token
    <3>2. QED
      BY <3>1, <2>1, <2>3 DEF IInv, TokensTrue, Taken
  <2>8. QED
    BY <2>4, <2>5, <2>6, <2>7 DEF IInv
<1>6. QED
  BY <1>4, <1>5

LEMMA LoginStep ==
  ASSUME IInv, NEW s \in Slots, Login(s)
  PROVE  IInv'
<1> DEFINE t == [id |-> Row(s).id, email |-> Address(s)]
<1>1. req[s] \in Request /\ Address(s) \in Emails
  BY RequestKnown DEF IInv, Login, At
<1>2. /\ req' \in [Slots -> Request \cup {Idle}]
      /\ UNCHANGED <<users, issued, welcomes>>
  BY DEF IInv, TypeOK, Login, Answer
<1>3. tokens' = tokens \/ (Row(s) # NoUser /\ tokens' = tokens \cup {t})
  BY DEF Login
<1>4. Row(s) # NoUser => Row(s) \in User /\ t \in Token
  BY <1>1 DEF IInv, TypeOK, Row, User, Token
<1>5. TypeOK'
  BY <1>2, <1>3, <1>4 DEF IInv, TypeOK
<1>6. TokensTrue'
  BY <1>2, <1>3 DEF IInv, TokensTrue, Taken, Row
<1>7. QED
  BY <1>2, <1>5, <1>6 DEF IInv, IdsDistinct, RegistrationKept, Taken

LEMMA NextIInv == IInv /\ [Next]_vars => IInv'
<1> SUFFICES ASSUME IInv, [Next]_vars PROVE IInv'
  OBVIOUS
<1>1. CASE UNCHANGED vars
  BY <1>1, RowsKept DEF vars, IInv, TypeOK
<1>2. CASE Crash
  <2>1. req' \in [Slots -> Request \cup {Idle}]
    BY <1>2 DEF Crash
  <2>2. QED
    BY <2>1, <1>2, RowsKept DEF Crash
<1>3. ASSUME NEW s \in Slots, NEW op \in {"register", "login"},
             NEW e \in Emails, NEW p \in Passwords, Start(s, op, e, p)
      PROVE  IInv'
  <2>1. [op |-> op, email |-> e, password |-> p, at |-> "find"] \in Request
    BY DEF Request
  <2>2. req' \in [Slots -> Request \cup {Idle}]
    BY <2>1, <1>3 DEF Start, IInv, TypeOK
  <2>3. QED
    BY <2>2, <1>3, RowsKept DEF Start
<1>4. ASSUME NEW s \in Slots, FindFree(s)
      PROVE  IInv'
  <2>1. req[s] \in Request
    BY <1>4, RequestKnown DEF IInv, FindFree, At
  <2>2. [req[s] EXCEPT !.at = "insert"] \in Request
    BY <2>1 DEF Request
  <2>3. req' \in [Slots -> Request \cup {Idle}]
    BY <2>2, <1>4 DEF FindFree, Answer, IInv, TypeOK
  <2>4. QED
    BY <2>3, <1>4, RowsKept DEF FindFree
<1>5. ASSUME NEW s \in Slots, Fail(s)
      PROVE  IInv'
  <2>1. req' \in [Slots -> Request \cup {Idle}]
    BY <1>5 DEF Fail, Answer, IInv, TypeOK
  <2>2. QED
    BY <2>1, <1>5, RowsKept DEF Fail
<1>6. QED
  BY <1>1, <1>2, <1>3, <1>4, <1>5, InsertStep, LoginStep
  DEF Next, StartStep, HandlerStep

(* An account is never changed and never removed.                          *)
LEMMA AccountKept ==
  ASSUME IInv, [Next]_vars, NEW e \in Emails, Taken(e)
  PROVE  users'[e] = users[e]
<1>1. ASSUME NEW s \in Slots, NEW id \in Ids, NEW acked \in BOOLEAN, InsertUser(s, id, acked)
      PROVE  users'[e] = users[e]
  BY <1>1 DEF InsertUser, Insert, Row, Taken, IInv, TypeOK
<1>2. users' = users \/ \E s \in Slots, id \in Ids, acked \in BOOLEAN : InsertUser(s, id, acked)
  BY DEF Next, StartStep, HandlerStep, vars, Crash, Start, FindFree, Login, Fail
<1>3. QED
  BY <1>1, <1>2

LEMMA IInvAlways == Spec => []IInv
BY InitIInv, NextIInv, PTL DEF Spec

-----------------------------------------------------------------------------
(* Types, and that every address is stored in one spelling.                *)
THEOREM TypeCorrect == Spec => []TypeOK
<1>1. IInv => TypeOK
  BY DEF IInv
<1>2. QED
  BY <1>1, IInvAlways, PTL

(* An answered registration stands for good, whatever requests overlap it. *)
THEOREM RegistrationKeptAlways == Spec => []RegistrationKept
<1>1. IInv => RegistrationKept
  BY DEF IInv
<1>2. QED
  BY <1>1, IInvAlways, PTL

(* All tokens of an address, however spelt, name one user, and no other    *)
(* address's tokens name it.                                               *)
THEOREM OneIdentityAlways == Spec => []OneIdentity
<1>1. IInv => OneIdentity
  <2> SUFFICES ASSUME IInv, NEW t \in tokens, NEW u \in tokens
               PROVE  (Lower[t.email] = Lower[u.email]) <=> (t.id = u.id)
    BY DEF OneIdentity
  <2>1. /\ t.email \in Emails /\ Taken(t.email) /\ users[t.email].id = t.id
        /\ u.email \in Emails /\ Taken(u.email) /\ users[u.email].id = u.id
    BY DEF IInv, TypeOK, Token, TokensTrue
  <2>2. Lower[t.email] = t.email /\ Lower[u.email] = u.email
    BY <2>1 DEF IInv, TypeOK, Taken
  <2>3. QED
    BY <2>1, <2>2 DEF IInv, IdsDistinct
<1>2. QED
  BY <1>1, IInvAlways, PTL
=============================================================================
