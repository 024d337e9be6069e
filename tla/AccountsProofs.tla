--------------------------- MODULE AccountsProofs ---------------------------
(***************************************************************************)
(* Proofs about Accounts, for any number of users, requests, credentials    *)
(* and links.                                                              *)
(***************************************************************************)
EXTENDS Accounts, SequenceTheorems, WellFoundedInduction, TLAPS

-----------------------------------------------------------------------------
(* Plans *)

(* The statements of a plan, and those after the first.                     *)
Stmts(q) == {q[i] : i \in 1 .. Len(q)}
After(q) == {q[i] : i \in 2 .. Len(q)}

(* What is left after the first statement are those after it.               *)
LEMMA TailStmts ==
  ASSUME NEW q \in Seq(Statement), q # <<>>
  PROVE  /\ Tail(q) \in Seq(Statement) /\ Head(q) \in Statement /\ Head(q) = q[1]
         /\ Stmts(Tail(q)) = After(q)
         /\ After(Tail(q)) \subseteq After(q)
         /\ Stmts(q) = {Head(q)} \cup After(q)
         /\ Len(q) # 1 => Tail(q) # <<>> /\ Head(Tail(q)) \in After(q)
         /\ Len(q) = 1 => After(q) = {}
<1>1. Len(q) \in Nat /\ Len(q) >= 1 /\ Head(q) = q[1] /\ Head(q) \in Statement
  OBVIOUS
<1>2. /\ Tail(q) \in Seq(Statement) /\ Len(Tail(q)) = Len(q) - 1
      /\ \A i \in 1 .. Len(q) - 1 : Tail(q)[i] = q[i + 1]
  OBVIOUS
<1>3. Stmts(Tail(q)) = After(q)
  <2>1. ASSUME NEW i \in 1 .. Len(q) - 1 PROVE i + 1 \in 2 .. Len(q) /\ Tail(q)[i] = q[i + 1]
    BY <1>1, <1>2
  <2>2. ASSUME NEW i \in 2 .. Len(q) PROVE i - 1 \in 1 .. Len(q) - 1 /\ Tail(q)[i - 1] = q[i]
    <3>1. i - 1 \in 1 .. Len(q) - 1 /\ (i - 1) + 1 = i
      BY <1>1, <2>2
    <3> QED BY <1>2, <3>1
  <2> QED BY <1>2, <2>1, <2>2 DEF Stmts, After
<1>4. After(Tail(q)) \subseteq Stmts(Tail(q))
  BY <1>1, <1>2 DEF Stmts, After
<1>5. Stmts(q) = {Head(q)} \cup After(q)
  <2>1. 1 .. Len(q) = {1} \cup 2 .. Len(q)
    BY <1>1
  <2> QED BY <1>1, <2>1 DEF Stmts, After
<1>6. ASSUME Len(q) # 1 PROVE Tail(q) # <<>> /\ Head(Tail(q)) \in After(q)
  <2>1. PICK n \in Nat : n = Len(q)
    BY <1>1
  <2>2. n >= 1 /\ n # 1
    BY <1>1, <1>6, <2>1
  <2>3. n >= 2 /\ n - 1 >= 1 /\ 1 \in 1 .. n - 1 /\ 2 \in 2 .. n
    BY <2>2
  <2>4. PICK t \in Seq(Statement) : t = Tail(q)
    BY <1>2
  <2>5. Len(t) = n - 1 /\ Len(t) # 0 /\ 1 \in 1 .. Len(t)
    BY <1>2, <2>1, <2>3, <2>4
  <2>6. t # <<>> /\ Head(t) = t[1]
    BY <2>5
  <2>7. t[1] \in Stmts(t)
    BY <2>5 DEF Stmts
  <2> QED BY <1>3, <2>4, <2>6, <2>7
<1>7. Len(q) = 1 => After(q) = {}
  BY DEF After
<1> QED BY <1>1, <1>2, <1>3, <1>4, <1>5, <1>6, <1>7

(* Plans put together are made of the statements of both.                   *)
LEMMA JoinedStmts ==
  ASSUME NEW q \in Seq(Statement), NEW t \in Seq(Statement), q # <<>>
  PROVE  /\ q \o t \in Seq(Statement) /\ q \o t # <<>> /\ Head(q \o t) = Head(q)
         /\ Stmts(q \o t) = Stmts(q) \cup Stmts(t)
         /\ After(q \o t) = After(q) \cup Stmts(t)
<1>1. Len(q) \in Nat /\ Len(q) >= 1 /\ Len(t) \in Nat /\ Head(q) = q[1]
  OBVIOUS
<1>2. /\ q \o t \in Seq(Statement) /\ Len(q \o t) = Len(q) + Len(t)
      /\ \A i \in 1 .. Len(q) + Len(t) :
           (q \o t)[i] = IF i <= Len(q) THEN q[i] ELSE t[i - Len(q)]
  BY ConcatProperties
<1>3. \A i \in 1 .. Len(q) : (q \o t)[i] = q[i] /\ i \in 1 .. Len(q) + Len(t)
  BY <1>1, <1>2
<1>4. ASSUME NEW i \in 1 .. Len(t) PROVE (q \o t)[Len(q) + i] = t[i] /\ Len(q) + i \in 2 .. Len(q) + Len(t)
  <2>1. Len(q) + i \in 1 .. Len(q) + Len(t) /\ ~(Len(q) + i <= Len(q)) /\ (Len(q) + i) - Len(q) = i
         /\ Len(q) + i \in 2 .. Len(q) + Len(t)
    BY <1>1
  <2> QED BY <1>2, <2>1
<1>5. ASSUME NEW i \in 1 .. Len(q) + Len(t), ~(i <= Len(q))
      PROVE  i - Len(q) \in 1 .. Len(t) /\ (q \o t)[i] = t[i - Len(q)]
  BY <1>1, <1>2, <1>5
<1>6. Head(q \o t) = Head(q) /\ q \o t # <<>>
  <2>1. 1 \in 1 .. Len(q) /\ Len(q \o t) >= 1
    BY <1>1, <1>2
  <2> QED BY <1>1, <1>2, <1>3, <2>1
<1>7. Stmts(q \o t) = Stmts(q) \cup Stmts(t)
  <2>1. \A x \in Stmts(q) : x \in Stmts(q \o t)
    BY <1>2, <1>3 DEF Stmts
  <2>2. \A x \in Stmts(t) : x \in Stmts(q \o t)
    BY <1>1, <1>2, <1>4 DEF Stmts
  <2>3. ASSUME NEW i \in 1 .. Len(q) + Len(t) PROVE (q \o t)[i] \in Stmts(q) \cup Stmts(t)
    <3>1. CASE i <= Len(q)
      <4>1. i \in 1 .. Len(q)
        BY <1>1, <3>1
      <4> QED BY <1>3, <4>1 DEF Stmts
    <3>2. CASE ~(i <= Len(q))
      BY <1>5, <3>2 DEF Stmts
    <3> QED BY <3>1, <3>2
  <2> QED BY <1>2, <2>1, <2>2, <2>3 DEF Stmts
<1>8. After(q \o t) = After(q) \cup Stmts(t)
  <2>1. ASSUME NEW i \in 2 .. Len(q) PROVE (q \o t)[i] = q[i] /\ i \in 2 .. Len(q) + Len(t)
    <3>1. i \in 1 .. Len(q) /\ i \in 2 .. Len(q) + Len(t)
      BY <1>1
    <3> QED BY <1>3, <3>1
  <2>2. \A x \in After(q) : x \in After(q \o t)
    BY <1>2, <2>1 DEF After
  <2>3. \A x \in Stmts(t) : x \in After(q \o t)
    BY <1>2, <1>4 DEF Stmts, After
  <2>4. ASSUME NEW i \in 2 .. Len(q) + Len(t) PROVE (q \o t)[i] \in After(q) \cup Stmts(t)
    <3>1. CASE i <= Len(q)
      <4>1. i \in 2 .. Len(q)
        BY <1>1, <3>1
      <4> QED BY <2>1, <4>1 DEF After
    <3>2. CASE ~(i <= Len(q))
      <4>1. i \in 1 .. Len(q) + Len(t)
        BY <1>1
      <4> QED BY <1>5, <3>2, <4>1 DEF Stmts
    <3> QED BY <3>1, <3>2
  <2> QED BY <1>2, <2>2, <2>3, <2>4 DEF After
<1> QED BY <1>2, <1>6, <1>7, <1>8

(* The statements of a plan written out.                                    *)
LEMMA Written ==
  /\ \A a \in Statement : /\ <<a>> \in Seq(Statement) /\ <<a>> # <<>> /\ Head(<<a>>) = a
                          /\ Stmts(<<a>>) = {a} /\ After(<<a>>) = {}
  /\ \A a, b \in Statement :
       /\ <<a, b>> \in Seq(Statement) /\ <<a, b>> # <<>> /\ Head(<<a, b>>) = a
       /\ Stmts(<<a, b>>) = {a, b} /\ After(<<a, b>>) = {b}
  /\ <<>> \in Seq(Statement) /\ Stmts(<<>>) = {} /\ After(<<>>) = {}
<1>1. ASSUME NEW a \in Statement PROVE /\ <<a>> \in Seq(Statement) /\ <<a>> # <<>> /\ Head(<<a>>) = a
                          /\ Stmts(<<a>>) = {a} /\ After(<<a>>) = {}
  <2>1. Len(<<a>>) = 1 /\ <<a>>[1] = a
    OBVIOUS
  <2> QED BY <2>1 DEF Stmts, After
<1>2. ASSUME NEW a \in Statement, NEW b \in Statement
      PROVE  /\ <<a, b>> \in Seq(Statement) /\ <<a, b>> # <<>> /\ Head(<<a, b>>) = a
             /\ Stmts(<<a, b>>) = {a, b} /\ After(<<a, b>>) = {b}
  <2>1. Len(<<a, b>>) = 2 /\ <<a, b>>[1] = a /\ <<a, b>>[2] = b
    OBVIOUS
  <2>2. 1 .. 2 = {1, 2} /\ 2 .. 2 = {2}
    OBVIOUS
  <2>3. <<a, b>> \in Seq(Statement) /\ <<a, b>> # <<>> /\ Head(<<a, b>>) = a
    OBVIOUS
  <2>4. Stmts(<<a, b>>) = {<<a, b>>[1], <<a, b>>[2]}
    BY <2>1, <2>2 DEF Stmts
  <2>5. After(<<a, b>>) = {<<a, b>>[2]}
    BY <2>1, <2>2 DEF After
  <2> QED BY <2>1, <2>3, <2>4, <2>5
<1>3. <<>> \in Seq(Statement) /\ Stmts(<<>>) = {} /\ After(<<>>) = {}
  BY DEF Stmts, After
<1> QED BY <1>1, <1>2, <1>3

(* The revocations, and what the two long plans append.                     *)
LEMMA LongPlans ==
  LET revoking == <<"revoke_sessions", "revoke_tokens">>
      ending == <<"revoke_sessions", "revoke_tokens", "delete_resets">>
      removing == <<"delete_sessions", "delete_tokens", "delete_resets",
                    "clear_created_by", "delete_user">>
  IN /\ {revoking, ending, removing} \subseteq Seq(Statement)
     /\ revoking # <<>>
     /\ Stmts(revoking) = {"revoke_sessions", "revoke_tokens"}
     /\ Stmts(ending) = {"revoke_sessions", "revoke_tokens", "delete_resets"}
     /\ Stmts(removing) = {"delete_sessions", "delete_tokens", "delete_resets",
                           "clear_created_by", "delete_user"}
<1> DEFINE ending == <<"revoke_sessions", "revoke_tokens", "delete_resets">>
           removing == <<"delete_sessions", "delete_tokens", "delete_resets",
                         "clear_created_by", "delete_user">>
<1>1. ending \in Seq(Statement) /\ removing \in Seq(Statement)
  BY DEF Statement
<1>2. Stmts(ending) = {"revoke_sessions", "revoke_tokens", "delete_resets"}
  <2>1. Len(ending) = 3 /\ 1 .. 3 = {1, 2, 3}
    OBVIOUS
  <2>2. Stmts(ending) = {ending[1], ending[2], ending[3]}
    BY <2>1 DEF Stmts
  <2> QED BY <2>2
<1>3. Stmts(removing) = {"delete_sessions", "delete_tokens", "delete_resets",
                         "clear_created_by", "delete_user"}
  <2>1. Len(removing) = 5 /\ 1 .. 5 = {1, 2, 3, 4, 5}
    OBVIOUS
  <2>2. Stmts(removing) = {removing[1], removing[2], removing[3], removing[4], removing[5]}
    BY <2>1 DEF Stmts
  <2> QED BY <2>2
<1>4. {"revoke_sessions", "revoke_tokens"} \subseteq Statement
  BY DEF Statement
<1> QED BY <1>1, <1>2, <1>3, <1>4, Written

-----------------------------------------------------------------------------
(* The earliest user *)

(* Of some users, one is the earliest.                                      *)
LEMMA LeastUser ==
  ASSUME NEW S \in SUBSET User, S # {}
  PROVE  \E u \in S : \A w \in S : u <= w
<1>1. S \subseteq Nat
  BY AccountsAssumption DEF User
<1>2. \E x \in S : \A y \in S : ~(<<y, x>> \in OpToRel(<, Nat))
  BY <1>1, NatLessThanWellFounded, WFMin
<1>3. ASSUME NEW a \in Nat, NEW b \in Nat, a < b PROVE <<a, b>> \in OpToRel(<, Nat)
  <2>1. <<a, b>> \in Nat \X Nat /\ <<a, b>>[1] = a /\ <<a, b>>[2] = b
    OBVIOUS
  <2> QED BY <1>3, <2>1 DEF OpToRel
<1>4. \E x \in S : \A y \in S : ~(y < x)
  BY <1>1, <1>2, <1>3
<1>5. ASSUME NEW x \in S, NEW y \in S, ~(y < x) PROVE x <= y
  BY <1>1, <1>5
<1> QED BY <1>4, <1>5

(* So the next user to be created and the first enabled admin are users.    *)
LEMMA ChosenUsers ==
  /\ Unborn # {} => NextUser \in Unborn
  /\ EnabledAdmins # {} => FirstAdmin \in EnabledAdmins
<1>1. Unborn \in SUBSET User /\ EnabledAdmins \in SUBSET User
  BY DEF Unborn, EnabledAdmins
<1> QED BY <1>1, LeastUser DEF NextUser, FirstAdmin

-----------------------------------------------------------------------------
(* The requests in flight *)

Beginnings == {"find_owner", "first_admin", "create_owner", "set_owner"}
OperatorStmts == {"set_password", "enable", "revoke_sessions", "revoke_tokens", "delete_resets"}
Followers == {"issue_session", "revoke_sessions", "revoke_tokens", "delete_sessions",
              "delete_tokens", "delete_resets", "clear_created_by", "delete_user"}
BootPlans == {<<"find_owner">>, <<"first_admin">>, <<"set_owner">>, <<"create_owner", "set_owner">>}

(* A request is at a statement.                                             *)
Starts(r, s) == r.plan # <<>> /\ Head(r.plan) = s

(* Every operation has its statements, ... *)
Planned(r) ==
  /\ r.op = "none" => r.plan = <<>>
  /\ r.op = "boot" => r.plan \in BootPlans
  /\ r.op = "operator" =>
       /\ r.plan # <<>>
       /\ Stmts(r.plan) \subseteq OperatorStmts
       /\ "set_password" \notin After(r.plan)
       /\ Starts(r, "set_password") => {"revoke_sessions", "revoke_tokens"} \subseteq After(r.plan)
  /\ r.op \notin {"boot", "operator"} =>
       /\ Stmts(r.plan) \cap (Beginnings \cup {"set_password", "enable"}) = {}
       /\ After(r.plan) \subseteq Followers

(* ... and what they need has been found when a request comes to them.      *)
Provided(r) ==
  /\ Starts(r, "set_owner") => r.target \in User
  /\ Starts(r, "write") => r.role \in Roles /\ r.status \in {"active", "disabled"}
  /\ Starts(r, "insert_user") \/ Starts(r, "insert_invite") => r.role \in Roles
  /\ {"issue_session", "issue_token"} \cap Stmts(r.plan) # {} => r.actor \in User
  /\ Starts(r, "redeem_invite") => r.invite \in Invite
  /\ Starts(r, "admit") => r.cred \in Cred
  /\ Starts(r, "read_target") => r.target \in User
  /\ {"delete_sessions", "delete_tokens"} \cap Stmts(r.plan) # {} => r.target \in User
  /\ r.op = "operator" => r.target \in User

Good(r) == r \in RequestRow /\ Planned(r) /\ Provided(r)

RequestsOK == reqs \in [Proc -> RequestRow] /\ \A p \in Proc : Good(reqs[p])

LEMMA IdleGood == Good(Idle)
<1>1. Idle \in RequestRow
  BY Written DEF Idle, RequestRow
<1>2. Idle.op = "none" /\ Idle.plan = <<>>
  BY DEF Idle
<1>3. Planned(Idle)
  BY <1>2, Written DEF Planned
<1>4. Provided(Idle)
  BY <1>2, Written DEF Provided, Starts
<1> QED BY <1>1, <1>3, <1>4 DEF Good

(* The operations there are while no process serves, and the statements that *)
(* only some actions come to.                                              *)
Unserved == {"none", "boot", "operator"}
Doors == {"admit", "write", "disable", "set_owner"}
Fresh(r) == r.plan = <<>> \/ Head(r.plan) \notin Doors

(* A request goes on as another good one, and the others stay.              *)
Goes(p, r) == /\ Good(r) /\ Continue(p, r)
              /\ r.op \in Unserved \/ booted \/ reqs[p].op \notin Unserved
Proceeds(p) == \E r : Goes(p, r) /\ Fresh(r)

LEMMA Goings ==
  ASSUME RequestsOK, NEW p \in Proc, NEW r, Goes(p, r)
  PROVE  /\ RequestsOK' /\ reqs'[p] = r
         /\ \A q \in Proc : q # p => reqs'[q] = reqs[q]
BY DEF RequestsOK, Goes, Continue, Good

LEMMA Ends ==
  ASSUME RequestsOK, NEW p \in Proc, End(p)
  PROVE  Proceeds(p)
<1>1. Idle.op \in Unserved /\ Idle.plan = <<>>
  BY DEF Idle, Unserved
<1> QED BY <1>1, IdleGood DEF End, Continue, Proceeds, Goes, Fresh

(* What is left of a request after its first statement.                     *)
Rest(r) == IF Len(r.plan) = 1 THEN Idle ELSE [r EXCEPT !.plan = Tail(r.plan)]

LEMMA RestGood ==
  ASSUME NEW r, Good(r), r.plan # <<>>, r.op # "boot"
  PROVE  Good(Rest(r)) /\ Fresh(Rest(r)) /\ Rest(r).op \in {"none", r.op}
<1>1. CASE Len(r.plan) = 1
  <2>1. Idle.op = "none" /\ Idle.plan = <<>>
    BY DEF Idle
  <2> QED BY <1>1, <2>1, IdleGood DEF Rest, Fresh
<1>2. CASE Len(r.plan) # 1
  <2> DEFINE n == [r EXCEPT !.plan = Tail(r.plan)]
  <2>1. r \in RequestRow /\ r.plan \in Seq(Statement)
    BY DEF Good, RequestRow
  <2>2. /\ Tail(r.plan) \in Seq(Statement)
        /\ Stmts(Tail(r.plan)) = After(r.plan)
        /\ After(Tail(r.plan)) \subseteq After(r.plan)
        /\ Stmts(r.plan) = {Head(r.plan)} \cup After(r.plan)
        /\ Tail(r.plan) # <<>> /\ Head(Tail(r.plan)) \in After(r.plan)
    BY <1>2, <2>1, TailStmts
  <2>3. n \in RequestRow
    BY <2>1, <2>2 DEF RequestRow
  <2>4. /\ n.plan = Tail(r.plan) /\ n.op = r.op /\ n.actor = r.actor
        /\ n.target = r.target
    BY <2>1 DEF RequestRow
  <2> HIDE DEF n
  <2>5. Planned(n)
    <3>1. r.op # "none"
      BY <2>2 DEF Good, Planned
    <3>2. CASE r.op = "operator"
      BY <3>2, <2>2, <2>4 DEF Good, Planned, Starts
    <3>3. CASE r.op # "operator"
      BY <3>1, <3>3, <2>2, <2>4 DEF Good, Planned
    <3> QED BY <3>2, <3>3
  <2>6. Provided(n)
    <3>1. Head(n.plan) \in OperatorStmts \cup Followers
      BY <2>2, <2>4 DEF Good, Planned
    <3>2. {"issue_session", "issue_token"} \cap Stmts(n.plan) # {} => n.actor \in User
      BY <2>2, <2>4 DEF Good, Provided
    <3>3. {"delete_sessions", "delete_tokens"} \cap Stmts(n.plan) # {} => n.target \in User
      BY <2>2, <2>4 DEF Good, Provided
    <3>4. n.op = "operator" => n.target \in User
      BY <2>4 DEF Good, Provided
    <3> QED BY <3>1, <3>2, <3>3, <3>4 DEF Provided, Starts, OperatorStmts, Followers
  <2>7. Fresh(n)
    <3>1. Head(n.plan) \in OperatorStmts \cup Followers
      BY <2>2, <2>4 DEF Good, Planned
    <3> QED BY <3>1 DEF Fresh, Doors, OperatorStmts, Followers
  <2> QED BY <1>2, <2>3, <2>4, <2>5, <2>6, <2>7 DEF Good, Rest, n
<1> QED BY <1>1, <1>2

LEMMA Advances ==
  ASSUME RequestsOK, NEW p \in Proc, Advance(p), reqs[p].plan # <<>>, reqs[p].op # "boot"
  PROVE  Proceeds(p)
<1>1. Good(reqs[p])
  BY DEF RequestsOK
<1>2. /\ Good(Rest(reqs[p])) /\ Fresh(Rest(reqs[p]))
      /\ Rest(reqs[p]).op \in {"none", reqs[p].op}
  BY <1>1, RestGood
<1>3. Continue(p, Rest(reqs[p]))
  BY DEF Advance, Rest
<1> QED BY <1>2, <1>3 DEF Proceeds, Goes, Unserved

-----------------------------------------------------------------------------
(* The rows *)

RowsOK ==
  /\ users \in [User -> UserRow]
  /\ owner \in User \cup {NoUser} /\ booted \in BOOLEAN
  /\ creds \in [Cred -> CredRow]
  /\ resets \in [Reset -> ResetRow]
  /\ invites \in [Invite -> InviteRow]
  /\ halfReset \subseteq User /\ replaced \in BOOLEAN /\ begun \in 0 .. MaxRequests

LEMMA TypeParts == TypeOK <=> RowsOK /\ reqs \in [Proc -> RequestRow]
BY DEF TypeOK, RowsOK

(* A row that has been inserted stays in the table or is marked, its user    *)
(* exists or once did, and a request that is being admitted presents one.   *)
CredsOwned ==
  /\ \A c \in Cred : IF creds[c].state = "free"
                     THEN creds[c].user = NoUser
                     ELSE creds[c].user \in User /\ users[creds[c].user].state # "unborn"
  /\ \A p \in Proc : At(p, "admit") => creds[reqs[p].cred].state # "free"

(* A user that was created stays created, ... *)
UsersStay ==
  \A u \in User : users[u].state # "unborn" =>
    users'[u].state # "unborn" /\ users'[u].pwd = users[u].pwd

(* ... and a credential is what it was, or revoked or deleted, or has just   *)
(* been inserted for a user there is.                                       *)
Keeps(c) ==
  /\ creds'[c].user = creds[c].user /\ creds'[c].kind = creds[c].kind
  /\ creds'[c].at = creds[c].at
  /\ creds'[c].state = "free" <=> creds[c].state = "free"
  /\ creds'[c].state = "live" => creds[c].state = "live"
Issued(c) ==
  LET u == creds'[c].user
  IN /\ creds[c].state = "free" /\ creds'[c].state = "live"
     /\ u \in User /\ users[u].state # "unborn"
     /\ creds'[c].at = users[u].pwd
CredsStay == \A c \in Cred : Keeps(c)
CredsMove == \A c \in Cred : Keeps(c) \/ Issued(c)

(* What a step does to users and credentials when it changes no password.    *)
Routine == /\ UsersStay /\ CredsMove /\ halfReset \subseteq halfReset'
           /\ CredsStay \/ \E p \in Proc : reqs[p].op \notin Unserved

LEMMA RowFields ==
  ASSUME RowsOK
  PROVE  /\ \A u \in User : /\ users[u] \in UserRow /\ users[u].pwd \in 0 .. MaxPasswords
                            /\ users[u].role \in Roles
         /\ \A c \in Cred : /\ creds[c] \in CredRow /\ creds[c].user \in User \cup {NoUser}
                            /\ creds[c].at \in 0 .. MaxPasswords
         /\ \A t \in Invite : invites[t] \in InviteRow /\ invites[t].role \in Roles
                                /\ invites[t].uses \in Nat
         /\ \A t \in Reset : /\ resets[t] \in ResetRow /\ resets[t].uses \in Nat
                             /\ resets[t].user \in User \cup {NoUser}
BY DEF RowsOK, UserRow, CredRow, InviteRow, ResetRow

(* Users are created with a role, keep what is not written, ... *)
LEMMA CreatedRows ==
  ASSUME RowsOK, Unborn # {}, NEW role \in Roles, NEW boot \in BOOLEAN,
         users' = Created(role, boot)
  PROVE  users' \in [User -> UserRow] /\ UsersStay /\ NextUser \in User
         /\ users[NextUser].state = "unborn"
<1>1. NextUser \in User /\ users[NextUser].state = "unborn"
  BY ChosenUsers DEF Unborn
<1>2. [state |-> "active", role |-> role, boot |-> boot, pwd |-> 0] \in UserRow
  BY AccountsAssumption DEF UserRow
<1>3. users \in [User -> UserRow]
  BY DEF RowsOK
<1> HIDE DEF NextUser
<1>4. users' = [users EXCEPT ![NextUser] =
                  [state |-> "active", role |-> role, boot |-> boot, pwd |-> 0]]
  BY DEF Created
<1> QED BY <1>1, <1>2, <1>3, <1>4 DEF UsersStay

LEMMA StateRows ==
  ASSUME RowsOK, NEW u, NEW state \in {"active", "disabled", "purged"},
         users' = [users EXCEPT ![u].state = state]
  PROVE  users' \in [User -> UserRow] /\ UsersStay
<1>1. users \in [User -> UserRow]
  BY DEF RowsOK
<1>2. CASE u \in User
  <2>1. users[u] \in UserRow
    BY <1>1, <1>2
  <2>2. [users[u] EXCEPT !.state = state] \in UserRow
    BY <2>1 DEF UserRow
  <2>3. users' \in [User -> UserRow]
    BY <1>1, <2>2
  <2>4. UsersStay
    BY <1>1, <1>2, <2>1 DEF UsersStay, UserRow
  <2> QED BY <2>3, <2>4
<1>3. CASE u \notin User
  <2>1. users' = users
    BY <1>1, <1>3
  <2> QED BY <1>1, <2>1 DEF UsersStay
<1> QED BY <1>2, <1>3

LEMMA ProfileRows ==
  ASSUME RowsOK, NEW u, NEW role \in Roles, NEW state \in {"active", "disabled"},
         users' = [users EXCEPT ![u].role = role, ![u].state = state]
  PROVE  users' \in [User -> UserRow] /\ UsersStay
<1>1. users \in [User -> UserRow]
  BY DEF RowsOK
<1>2. CASE u \in User
  <2>1. users[u] \in UserRow
    BY <1>1, <1>2
  <2>2. [[users[u] EXCEPT !.role = role] EXCEPT !.state = state] \in UserRow
    BY <2>1 DEF UserRow
  <2>3. users' = [users EXCEPT ![u] = [[users[u] EXCEPT !.role = role] EXCEPT !.state = state]]
    BY <1>1, <1>2
  <2>4. users' \in [User -> UserRow]
    BY <1>1, <2>2, <2>3
  <2>5. UsersStay
    <3>1. \A w \in User : w # u => users'[w] = users[w]
      BY <1>1, <2>3
    <3>2. users'[u].pwd = users[u].pwd /\ users'[u].state = state
      BY <1>1, <1>2, <2>1, <2>3 DEF UserRow
    <3> QED BY <3>1, <3>2 DEF UsersStay
  <2> QED BY <2>4, <2>5
<1>3. CASE u \notin User
  <2>1. users' = users
    BY <1>1, <1>3
  <2> QED BY <1>1, <2>1 DEF UsersStay
<1> QED BY <1>2, <1>3

LEMMA PasswordRows ==
  ASSUME RowsOK, NEW u, users[u].pwd < MaxPasswords, users' = WithPassword(u)
  PROVE  /\ users' \in [User -> UserRow]
         /\ \A w \in User : w # u => users'[w] = users[w]
         /\ \A w \in User : /\ users'[w].state = users[w].state
                            /\ users'[w].role = users[w].role
<1>1. users \in [User -> UserRow] /\ MaxPasswords \in Nat
  BY AccountsAssumption DEF RowsOK
<1>2. CASE u \in User
  <2>1. users[u] \in UserRow /\ users[u].pwd \in 0 .. MaxPasswords
    BY <1>1, <1>2 DEF UserRow
  <2>2. users[u].pwd + 1 \in 0 .. MaxPasswords
    BY <1>1, <2>1
  <2>3. [users[u] EXCEPT !.pwd = users[u].pwd + 1] \in UserRow
    BY <2>1, <2>2 DEF UserRow
  <2>4. users' = [users EXCEPT ![u] = [users[u] EXCEPT !.pwd = users[u].pwd + 1]]
    BY <1>1, <1>2 DEF WithPassword
  <2> QED BY <1>1, <1>2, <2>1, <2>3, <2>4 DEF UserRow
<1>3. CASE u \notin User
  <2>1. users' = users
    BY <1>1, <1>3 DEF WithPassword
  <2> QED BY <1>1, <2>1
<1> QED BY <1>2, <1>3

(* A link that is redeemed keeps its type.                                  *)
LEMMA UsedRows ==
  /\ \A row \in ResetRow : [[row EXCEPT !.state = "used"] EXCEPT !.uses = row.uses + 1] \in ResetRow
  /\ \A row \in InviteRow : [[row EXCEPT !.state = "used"] EXCEPT !.uses = row.uses + 1] \in InviteRow
<1>1. ASSUME NEW row \in ResetRow
      PROVE  [[row EXCEPT !.state = "used"] EXCEPT !.uses = row.uses + 1] \in ResetRow
  <2>1. PICK n \in Nat : n = row.uses + 1
    BY DEF ResetRow
  <2>2. [row EXCEPT !.state = "used"] \in ResetRow
    BY DEF ResetRow
  <2>3. \A r \in ResetRow : [r EXCEPT !.uses = n] \in ResetRow
    BY <2>1 DEF ResetRow
  <2> QED BY <2>1, <2>2, <2>3
<1>2. ASSUME NEW row \in InviteRow
      PROVE  [[row EXCEPT !.state = "used"] EXCEPT !.uses = row.uses + 1] \in InviteRow
  <2>1. PICK n \in Nat : n = row.uses + 1
    BY DEF InviteRow
  <2>2. [row EXCEPT !.state = "used"] \in InviteRow
    BY DEF InviteRow
  <2>3. \A r \in InviteRow : [r EXCEPT !.uses = n] \in InviteRow
    BY <2>1 DEF InviteRow
  <2> QED BY <2>1, <2>2, <2>3
<1> QED BY <1>1, <1>2

(* ... and credentials are marked, or inserted.                             *)
LEMMA RevokedCreds ==
  ASSUME RowsOK, NEW u, NEW kinds, creds' = Revoked(u, kinds)
  PROVE  /\ creds' \in [Cred -> CredRow] /\ CredsStay
         /\ \A c \in Cred : creds[c].user = u /\ creds[c].kind \in kinds => creds'[c].state # "live"
<1>1. creds \in [Cred -> CredRow]
  BY DEF RowsOK
<1>2. ASSUME NEW c \in Cred
      PROVE  /\ creds'[c] \in CredRow /\ Keeps(c)
             /\ creds[c].user = u /\ creds[c].kind \in kinds => creds'[c].state # "live"
  <2>1. creds[c] \in CredRow
    BY <1>1
  <2>2. CASE creds'[c] = creds[c]
             /\ ~(creds[c].user = u /\ creds[c].kind \in kinds /\ creds[c].state = "live")
    BY <2>1, <2>2 DEF Keeps
  <2>3. CASE creds'[c] = [creds[c] EXCEPT !.state = "revoked"] /\ creds[c].state = "live"
    BY <2>1, <2>3 DEF Keeps, CredRow
  <2> QED BY <2>2, <2>3 DEF Revoked
<1>3. DOMAIN creds' = Cred /\ creds' = [c \in Cred |-> creds'[c]]
  BY DEF Revoked
<1> QED BY <1>2, <1>3 DEF CredsStay

LEMMA DeletedCredsStay ==
  ASSUME RowsOK, CredsOwned, NEW u \in User, NEW kind, creds' = DeletedCreds(u, kind)
  PROVE  creds' \in [Cred -> CredRow] /\ CredsStay
<1>1. creds \in [Cred -> CredRow] /\ NoUser \notin User
  BY DEF RowsOK, User, NoUser
<1>2. ASSUME NEW c \in Cred PROVE creds'[c] \in CredRow /\ Keeps(c)
  <2>1. creds[c] \in CredRow
    BY <1>1
  <2>2. CASE creds'[c] = creds[c]
    BY <2>1, <2>2 DEF Keeps
  <2>3. CASE creds'[c] = [creds[c] EXCEPT !.state = "deleted"] /\ creds[c].user = u
    <3>1. creds[c].state # "free"
      BY <1>1, <2>3 DEF CredsOwned
    <3> QED BY <2>1, <2>3, <3>1 DEF Keeps, CredRow
  <2> QED BY <2>2, <2>3 DEF DeletedCreds
<1>3. DOMAIN creds' = Cred /\ creds' = [c \in Cred |-> creds'[c]]
  BY DEF DeletedCreds
<1> QED BY <1>2, <1>3 DEF CredsStay

LEMMA RevokedCred ==
  ASSUME RowsOK, NEW d, creds' = [creds EXCEPT ![d].state = IF @ = "live" THEN "revoked" ELSE @]
  PROVE  creds' \in [Cred -> CredRow] /\ CredsStay
<1>1. creds \in [Cred -> CredRow]
  BY DEF RowsOK
<1>2. ASSUME NEW c \in Cred PROVE creds'[c] \in CredRow /\ Keeps(c)
  <2>1. creds[c] \in CredRow
    BY <1>1
  <2>2. CASE creds'[c] = creds[c]
    BY <2>1, <2>2 DEF Keeps
  <2>3. CASE creds'[c] = [creds[c] EXCEPT !.state = "revoked"] /\ creds[c].state = "live"
    BY <2>1, <2>3 DEF Keeps, CredRow
  <2>4. CASE creds'[c] = [creds[c] EXCEPT !.state = creds[c].state]
    BY <2>1, <2>4 DEF Keeps, CredRow
  <2> QED BY <1>1, <2>2, <2>3, <2>4
<1>3. DOMAIN creds' = Cred /\ creds' = [c \in Cred |-> creds'[c]]
  BY <1>1
<1> QED BY <1>2, <1>3 DEF CredsStay

LEMMA InsertedCred ==
  ASSUME RowsOK, NEW u \in User, Exists(u), NEW kind \in {"session", "device"}, Inserted(u, kind)
  PROVE  /\ creds' \in [Cred -> CredRow]
         /\ \A c \in Cred : Keeps(c) \/ Issued(c)
<1>1. creds \in [Cred -> CredRow] /\ users[u] \in UserRow
  BY DEF RowsOK
<1>2. PICK d \in Cred :
        /\ FreeCreds = d .. MaxCreds
        /\ creds' = [creds EXCEPT ![d] = [state |-> "live", user |-> u, kind |-> kind,
                                          at |-> users[u].pwd]]
  BY DEF Inserted
<1>3. creds[d].state = "free"
  <2>1. d \in d .. MaxCreds
    BY AccountsAssumption DEF Cred
  <2> QED BY <1>2, <2>1 DEF FreeCreds
<1>4. [state |-> "live", user |-> u, kind |-> kind, at |-> users[u].pwd] \in CredRow
  BY <1>1 DEF CredRow, UserRow
<1>5. ASSUME NEW c \in Cred PROVE Keeps(c) \/ Issued(c)
  <2>1. CASE c # d
    BY <1>1, <1>2, <2>1 DEF Keeps
  <2>2. CASE c = d
    <3>1. creds'[c] = [state |-> "live", user |-> u, kind |-> kind, at |-> users[u].pwd]
      BY <1>1, <1>2, <2>2
    <3> QED BY <1>3, <2>2, <3>1 DEF Issued, Exists
  <2> QED BY <2>1, <2>2
<1> QED BY <1>1, <1>2, <1>4, <1>5

-----------------------------------------------------------------------------
(* How requests go on *)

(* The plans of a start, written out.                                       *)
LEMMA BootPlansWritten ==
  ASSUME NEW q \in BootPlans
  PROVE  /\ q \in Seq(Statement) /\ q # <<>>
         /\ Head(q) \in Beginnings /\ Stmts(q) \subseteq Beginnings
         /\ Head(q) = "set_owner" => q = <<"set_owner">>
         /\ Head(q) = "create_owner" => q = <<"create_owner", "set_owner">>
<1>1. {"find_owner", "first_admin", "create_owner", "set_owner"} \subseteq Statement
  BY DEF Statement
<1>2. CASE q = <<"find_owner">>
  <2>1. q \in Seq(Statement) /\ q # <<>> /\ Head(q) = "find_owner" /\ Stmts(q) = {"find_owner"}
    BY <1>1, <1>2, Written
  <2> QED BY <2>1 DEF Beginnings
<1>3. CASE q = <<"first_admin">>
  <2>1. q \in Seq(Statement) /\ q # <<>> /\ Head(q) = "first_admin" /\ Stmts(q) = {"first_admin"}
    BY <1>1, <1>3, Written
  <2> QED BY <2>1 DEF Beginnings
<1>4. CASE q = <<"set_owner">>
  <2>1. q \in Seq(Statement) /\ q # <<>> /\ Head(q) = "set_owner" /\ Stmts(q) = {"set_owner"}
    BY <1>1, <1>4, Written
  <2> QED BY <1>4, <2>1 DEF Beginnings
<1>5. CASE q = <<"create_owner", "set_owner">>
  <2>1. /\ q \in Seq(Statement) /\ q # <<>> /\ Head(q) = "create_owner"
        /\ Stmts(q) = {"create_owner", "set_owner"}
    BY <1>1, <1>5, Written
  <2> QED BY <1>5, <2>1 DEF Beginnings
<1> QED BY <1>2, <1>3, <1>4, <1>5 DEF BootPlans

(* A start that is at its owner has found one.                              *)
LEMMA BootGood ==
  ASSUME NEW r \in RequestRow, r.op = "boot", r.plan \in BootPlans,
         r.target \in User \/ r.plan # <<"set_owner">>
  PROVE  Good(r) /\ (r.plan # <<"set_owner">> => Fresh(r))
<1>1. /\ r.plan # <<>>
      /\ Head(r.plan) \in Beginnings /\ Stmts(r.plan) \subseteq Beginnings
      /\ Head(r.plan) = "set_owner" => r.plan = <<"set_owner">>
  BY BootPlansWritten
<1>2. Planned(r)
  BY DEF Planned
<1>3. Provided(r)
  BY <1>1 DEF Provided, Starts, Beginnings
<1> QED BY <1>1, <1>2, <1>3 DEF Good, Fresh, Beginnings, Doors

LEMMA SingleGood ==
  ASSUME NEW r \in RequestRow, NEW s \in Statement, r.plan = <<s>>,
         r.op \notin {"none", "boot", "operator"},
         s \notin Beginnings \cup {"set_password", "enable", "write"},
         s \in {"insert_user", "insert_invite"} => r.role \in Roles,
         s \in {"issue_session", "issue_token"} => r.actor \in User,
         s = "redeem_invite" => r.invite \in Invite,
         s = "admit" => r.cred \in Cred,
         s \in {"read_target", "delete_sessions", "delete_tokens"} => r.target \in User
  PROVE  Good(r) /\ (s \notin Doors => Fresh(r))
<1>1. Head(r.plan) = s /\ Stmts(r.plan) = {s} /\ After(r.plan) = {}
  BY Written
<1>2. Planned(r)
  BY <1>1 DEF Planned
<1>3. Provided(r)
  BY <1>1 DEF Provided, Starts, Beginnings
<1> QED BY <1>1, <1>2, <1>3 DEF Good, Fresh

(* What a request at a statement is. *)
LEMMA AtStatement ==
  ASSUME RequestsOK, NEW p \in Proc, NEW s, At(p, s)
  PROVE  /\ Good(reqs[p]) /\ reqs[p] \in RequestRow /\ Starts(reqs[p], s)
         /\ reqs[p].plan \in Seq(Statement) /\ reqs[p].plan # <<>>
         /\ s \in Stmts(reqs[p].plan) /\ s = Head(reqs[p].plan)
         /\ reqs[p].op # "none"
         /\ reqs[p].op = "boot" <=> s \in Beginnings
         /\ reqs[p].op = "operator" => s \in OperatorStmts
         /\ s \in {"set_password", "enable"} => reqs[p].op = "operator"
<1>1. /\ Good(reqs[p]) /\ reqs[p] \in RequestRow /\ reqs[p].plan \in Seq(Statement)
      /\ reqs[p].plan # <<>> /\ Starts(reqs[p], s) /\ s = Head(reqs[p].plan)
  BY DEF RequestsOK, Good, RequestRow, At, Starts
<1>2. s \in Stmts(reqs[p].plan)
  BY <1>1, TailStmts
<1>3. reqs[p].op = "boot" => s \in Beginnings
  BY <1>1, BootPlansWritten DEF Good, Planned
<1> QED BY <1>1, <1>2, <1>3 DEF Good, Planned, OperatorStmts, Beginnings

(* The starts of the server: one that comes to its owner has found an       *)
(* enabled admin, or made one.                                             *)
LEMMA Pair ==
  ASSUME NEW a \in Statement, NEW b \in Statement
  PROVE  Tail(<<a, b>>) = <<b>>
OBVIOUS

LEMMA BootSteps ==
  ASSUME RowsOK, RequestsOK, NEW p \in Proc
  PROVE  /\ Boot(p) \/ FindOwner(p) \/ SetOwner(p) => Proceeds(p)
         /\ LookForAdmin(p) \/ CreateOwner(p) =>
              \E r : /\ Goes(p, r) /\ r.op \in {"none", "boot"}
                     /\ Fresh(r) \/ r.target \in EnabledAdmins'
<1>0. /\ {<<"find_owner">>, <<"first_admin">>, <<"set_owner">>, <<"create_owner", "set_owner">>}
           \subseteq Seq(Statement)
      /\ Tail(<<"create_owner", "set_owner">>) = <<"set_owner">>
  <2>1. "create_owner" \in Statement /\ "set_owner" \in Statement
    BY DEF Statement
  <2>2. BootPlans \subseteq Seq(Statement)
    BY BootPlansWritten
  <2> QED BY <2>1, <2>2, Pair DEF BootPlans
<1>1. ASSUME Boot(p) PROVE Proceeds(p)
  <2> DEFINE r == [Idle EXCEPT !.op = "boot", !.plan = <<"find_owner">>]
  <2>1. r \in RequestRow
    BY <1>0 DEF Idle, RequestRow, Roles
  <2>2. r.op = "boot" /\ r.plan = <<"find_owner">>
    BY DEF Idle
  <2>3. r.plan \in BootPlans /\ r.plan # <<"set_owner">>
    BY <2>2 DEF BootPlans
  <2>4. Continue(p, r)
    BY <1>1 DEF Boot, Begin
  <2> HIDE DEF r
  <2>5. Good(r) /\ Fresh(r)
    BY <2>1, <2>2, <2>3, BootGood
  <2> QED BY <2>2, <2>4, <2>5 DEF Proceeds, Goes, Unserved
<1>2. ASSUME FindOwner(p) PROVE Proceeds(p)
  <2>1. CASE End(p)
    BY <2>1, Ends
  <2>2. CASE Continue(p, [reqs[p] EXCEPT !.plan = <<"first_admin">>])
    <3> DEFINE r == [reqs[p] EXCEPT !.plan = <<"first_admin">>]
    <3>1. reqs[p] \in RequestRow /\ reqs[p].op = "boot"
      BY <1>2, AtStatement DEF FindOwner, Beginnings
    <3>2. r \in RequestRow /\ r.op = "boot" /\ r.plan = <<"first_admin">>
      BY <1>0, <3>1 DEF RequestRow
    <3> HIDE DEF r
    <3>3. r.plan \in BootPlans /\ r.plan # <<"set_owner">>
      BY <3>2 DEF BootPlans
    <3>4. Good(r) /\ Fresh(r)
      BY <3>2, <3>3, BootGood
    <3> QED BY <2>2, <3>2, <3>4 DEF Proceeds, Goes, Unserved, r
  <2> QED BY <1>2, <2>1, <2>2 DEF FindOwner
<1>3. ASSUME LookForAdmin(p)
      PROVE  \E r : /\ Goes(p, r) /\ r.op \in {"none", "boot"}
                    /\ Fresh(r) \/ r.target \in EnabledAdmins'
  <2>1. reqs[p] \in RequestRow /\ reqs[p].op = "boot"
    BY <1>3, AtStatement DEF LookForAdmin, Beginnings
  <2>2. CASE EnabledAdmins # {}
    <3> DEFINE r == [reqs[p] EXCEPT !.target = FirstAdmin, !.plan = <<"set_owner">>]
    <3>1. FirstAdmin \in User /\ FirstAdmin \in EnabledAdmins /\ EnabledAdmins' = EnabledAdmins
      BY <1>3, <2>2, ChosenUsers DEF EnabledAdmins, LookForAdmin
    <3>2. Continue(p, r)
      BY <1>3, <2>2 DEF LookForAdmin
    <3> HIDE DEF FirstAdmin
    <3>3. r \in RequestRow /\ r.op = "boot" /\ r.plan = <<"set_owner">> /\ r.target = FirstAdmin
      BY <1>0, <2>1, <3>1 DEF RequestRow
    <3> HIDE DEF r
    <3>4. Good(r)
      BY <3>1, <3>3, BootGood DEF BootPlans
    <3> QED BY <3>1, <3>2, <3>3, <3>4 DEF Goes, Unserved
  <2>3. CASE EnabledAdmins = {}
    <3> DEFINE r == [reqs[p] EXCEPT !.plan = <<"create_owner", "set_owner">>]
    <3>1. r \in RequestRow /\ r.op = "boot" /\ r.plan = <<"create_owner", "set_owner">>
      BY <1>0, <2>1 DEF RequestRow
    <3>2. Continue(p, r)
      BY <1>3, <2>3 DEF LookForAdmin
    <3> HIDE DEF r
    <3>3. r.plan \in BootPlans /\ r.plan # <<"set_owner">>
      BY <3>1 DEF BootPlans
    <3> QED BY <3>1, <3>2, <3>3, BootGood DEF Goes, Unserved
  <2> QED BY <2>2, <2>3
<1>4. ASSUME CreateOwner(p)
      PROVE  \E r : /\ Goes(p, r) /\ r.op \in {"none", "boot"}
                    /\ Fresh(r) \/ r.target \in EnabledAdmins'
  <2>1. CASE End(p)
    <3>1. Idle.op = "none" /\ Idle.plan = <<>>
      BY DEF Idle
    <3> QED BY <2>1, <3>1, IdleGood DEF End, Continue, Goes, Fresh, Unserved
  <2>2. CASE /\ Unborn # {} /\ users' = Created("admin", TRUE)
             /\ Continue(p, [reqs[p] EXCEPT !.target = NextUser, !.plan = Tail(@)])
    <3>1. /\ reqs[p] \in RequestRow /\ reqs[p].op = "boot" /\ reqs[p].plan \in BootPlans
          /\ Head(reqs[p].plan) = "create_owner"
      BY <1>4, AtStatement DEF CreateOwner, Beginnings, Good, Planned
    <3>2. reqs[p].plan = <<"create_owner", "set_owner">>
      BY <3>1, BootPlansWritten
    <3> DEFINE r == [reqs[p] EXCEPT !.target = NextUser, !.plan = <<"set_owner">>]
    <3>3. NextUser \in User
      BY <2>2, ChosenUsers DEF Unborn
    <3>a. NextUser \in EnabledAdmins'
      BY <2>2, <3>3 DEF Created, EnabledAdmins, RowsOK
    <3> HIDE DEF NextUser
    <3>4. r \in RequestRow /\ r.op = "boot" /\ r.plan = <<"set_owner">> /\ r.target = NextUser
      BY <1>0, <3>1, <3>3 DEF RequestRow
    <3>5. Continue(p, r)
      BY <1>0, <2>2, <3>2
    <3> HIDE DEF r
    <3>6. Good(r)
      BY <3>3, <3>4, BootGood DEF BootPlans
    <3> QED BY <3>a, <3>4, <3>5, <3>6 DEF Goes, Unserved
  <2> QED BY <1>4, <2>1, <2>2 DEF CreateOwner
<1>5. ASSUME SetOwner(p) PROVE Proceeds(p)
  BY <1>5, Ends DEF SetOwner
<1> QED BY <1>1, <1>2, <1>3, <1>4, <1>5

(* A request begins: it is a good one, of an operation that is allowed.     *)
LEMMA Begins ==
  ASSUME RequestsOK, NEW p \in Proc, NEW r, Good(r), Fresh(r), Begin(p, r),
         booted \/ r.op \in Unserved
  PROVE  Proceeds(p)
BY DEF Begin, Proceeds, Goes

LEMMA BeginSteps ==
  ASSUME RowsOK, RequestsOK, NEW p \in Proc
  PROVE  /\ \A u \in User : Login(p, u) \/ ConnectDevice(p, u) => Proceeds(p)
         /\ \A t \in Invite : \/ FollowInvite(p, t)
                              \/ \E claimed \in BOOLEAN : PresentInvite(p, t, claimed)
                              => Proceeds(p)
         /\ \A t \in Reset : PresentReset(p, t) => Proceeds(p)
         /\ \A c \in Cred : Present(p, c) =>
              \E r : Goes(p, r) /\ Starts(r, "admit") /\ r.op = "request" /\ r.cred = c
<1>0. /\ \A s \in Statement : <<s>> \in Seq(Statement) /\ <<s>> # <<>> /\ Head(<<s>>) = s
      /\ {"issue_session", "issue_token", "admit", "claim", "redeem_invite", "redeem_reset"}
            \subseteq Statement
  <2>1. \A s \in Statement : <<s>> \in Seq(Statement) /\ <<s>> # <<>> /\ Head(<<s>>) = s
    BY Written
  <2> QED BY <2>1 DEF Statement
<1>1. ASSUME NEW u \in User, NEW s \in {"issue_session", "issue_token"}, booted,
             Begin(p, [Idle EXCEPT !.op = "login", !.actor = u, !.plan = <<s>>])
      PROVE  Proceeds(p)
  <2> DEFINE r == [Idle EXCEPT !.op = "login", !.actor = u, !.plan = <<s>>]
  <2>1. r \in RequestRow /\ r.op = "login" /\ r.actor = u /\ r.plan = <<s>>
    BY <1>0 DEF Idle, RequestRow
  <2>2. Begin(p, r)
    BY <1>1
  <2> HIDE DEF r
  <2>3. Good(r) /\ Fresh(r)
    BY <1>0, <2>1, SingleGood DEF Beginnings, Doors
  <2> QED BY <1>1, <2>2, <2>3, Begins
<1>2. ASSUME NEW t \in Invite, FollowInvite(p, t) PROVE Proceeds(p)
  <2> DEFINE r == [Idle EXCEPT !.op = "claim", !.invite = t, !.plan = <<"claim">>]
  <2>1. r \in RequestRow /\ r.op = "claim" /\ r.plan = <<"claim">>
    BY <1>0 DEF Idle, RequestRow
  <2>2. Begin(p, r) /\ booted
    BY <1>2 DEF FollowInvite, Offered
  <2> HIDE DEF r
  <2>3. Good(r) /\ Fresh(r)
    BY <1>0, <2>1, SingleGood DEF Beginnings, Doors
  <2> QED BY <2>2, <2>3, Begins
<1>3. ASSUME NEW t \in Invite, NEW claimed \in BOOLEAN, PresentInvite(p, t, claimed)
      PROVE  Proceeds(p)
  <2> DEFINE r == [Idle EXCEPT !.op = "redeem", !.invite = t, !.claimed = claimed,
                               !.plan = <<"redeem_invite">>]
  <2>1. r \in RequestRow /\ r.op = "redeem" /\ r.plan = <<"redeem_invite">> /\ r.invite = t
    BY <1>0 DEF Idle, RequestRow
  <2>2. Begin(p, r) /\ booted
    BY <1>3 DEF PresentInvite, Offered
  <2> HIDE DEF r
  <2>3. Good(r) /\ Fresh(r)
    BY <1>0, <2>1, SingleGood DEF Beginnings, Doors
  <2> QED BY <2>2, <2>3, Begins
<1>4. ASSUME NEW t \in Reset, PresentReset(p, t) PROVE Proceeds(p)
  <2> DEFINE r == [Idle EXCEPT !.op = "redeem", !.reset = t, !.target = resets[t].user,
                               !.plan = <<"redeem_reset">>]
  <2>1. resets[t].user \in User \cup {NoUser}
    BY RowFields
  <2>2. r \in RequestRow /\ r.op = "redeem" /\ r.plan = <<"redeem_reset">>
    BY <1>0, <2>1 DEF Idle, RequestRow
  <2>3. Begin(p, r) /\ booted
    BY <1>4 DEF PresentReset, Offered
  <2> HIDE DEF r
  <2>4. Good(r) /\ Fresh(r)
    BY <1>0, <2>2, SingleGood DEF Beginnings, Doors
  <2> QED BY <2>3, <2>4, Begins
<1>5. ASSUME NEW c \in Cred, Present(p, c)
      PROVE  \E r : Goes(p, r) /\ Starts(r, "admit") /\ r.op = "request" /\ r.cred = c
  <2> DEFINE r == [Idle EXCEPT !.op = "request", !.cred = c, !.plan = <<"admit">>]
  <2>1. r \in RequestRow /\ r.op = "request" /\ r.plan = <<"admit">> /\ r.cred = c
    BY <1>0 DEF Idle, RequestRow
  <2>2. Begin(p, r) /\ booted
    BY <1>5 DEF Present
  <2> HIDE DEF r
  <2>3. Good(r)
    BY <1>0, <2>1, SingleGood DEF Beginnings
  <2>4. Starts(r, "admit")
    BY <1>0, <2>1 DEF Starts
  <2> QED BY <2>1, <2>2, <2>3, <2>4 DEF Goes, Begin
<1> QED BY <1>1, <1>2, <1>3, <1>4, <1>5 DEF Login, ConnectDevice, Offered

(* The operator's reset: its plan, with and without the enabling.           *)
LEMMA OperatorSteps ==
  ASSUME RowsOK, RequestsOK, NEW p \in Proc, NEW u \in User, NEW keep \in BOOLEAN,
         OperatorReset(p, u, keep)
  PROVE  Proceeds(p)
<1> DEFINE middle == IF users[u].state = "disabled" /\ ~keep THEN <<"enable">> ELSE <<>>
           ending == <<"revoke_sessions", "revoke_tokens", "delete_resets">>
           plan == <<"set_password">> \o middle \o ending
           r == [Idle EXCEPT !.op = "operator", !.target = u, !.plan = plan]
<1>1. "set_password" \in Statement /\ "enable" \in Statement
  BY DEF Statement
<1>2. /\ middle \in Seq(Statement) /\ Stmts(middle) \subseteq {"enable"}
      /\ ending \in Seq(Statement)
      /\ Stmts(ending) = {"revoke_sessions", "revoke_tokens", "delete_resets"}
      /\ <<"set_password">> \in Seq(Statement) /\ <<"set_password">> # <<>>
      /\ Head(<<"set_password">>) = "set_password"
      /\ Stmts(<<"set_password">>) = {"set_password"} /\ After(<<"set_password">>) = {}
  BY <1>1, Written, LongPlans
<1>3. Begin(p, r)
  BY DEF OperatorReset
<1> HIDE DEF middle, ending
<1> DEFINE first == <<"set_password">> \o middle
<1>4. /\ first \in Seq(Statement) /\ first # <<>> /\ Head(first) = "set_password"
      /\ Stmts(first) \subseteq {"set_password", "enable"} /\ After(first) \subseteq {"enable"}
  BY <1>2, JoinedStmts
<1>5. plan = first \o ending
  OBVIOUS
<1> HIDE DEF first, plan
<1>6. /\ plan \in Seq(Statement) /\ plan # <<>> /\ Head(plan) = "set_password"
      /\ Stmts(plan) \subseteq OperatorStmts
      /\ "set_password" \notin After(plan)
      /\ {"revoke_sessions", "revoke_tokens"} \subseteq After(plan)
  BY <1>2, <1>4, <1>5, JoinedStmts DEF OperatorStmts
<1>7. r \in RequestRow /\ r.op = "operator" /\ r.plan = plan /\ r.target = u
  BY <1>6 DEF Idle, RequestRow
<1> HIDE DEF r
<1>8. Planned(r)
  BY <1>6, <1>7 DEF Planned
<1>9. Provided(r)
  BY <1>6, <1>7 DEF Provided, Starts, OperatorStmts
<1>10. Fresh(r)
  BY <1>6, <1>7 DEF Fresh, Doors
<1> QED BY <1>3, <1>7, <1>8, <1>9, <1>10, Begins DEF Good, Unserved

(* What an admitted user asks for is a good request of that user, which does *)
(* not come to a door.                                                     *)
LEMMA Asks ==
  ASSUME NEW u \in User, NEW kind,
         NEW a \in AsksForSelf(u, kind) \cup AsksForOthers(u),
         NEW t \in User, NEW c \in Cred
  PROVE  LET r == [a EXCEPT !.target = t, !.cred = c]
         IN Good(r) /\ Fresh(r) /\ r.op \notin Unserved /\ r.op \notin {"none", "operator"}
<1> DEFINE r == [a EXCEPT !.target = t, !.cred = c]
<1>0. /\ \A s \in Statement : <<s>> \in Seq(Statement) /\ <<s>> # <<>> /\ Head(<<s>>) = s
      /\ {"revoke_session", "revoke_token", "logout", "change", "issue_session", "read_target",
          "insert_user", "insert_invite"} \subseteq Statement
  <2>1. \A s \in Statement : <<s>> \in Seq(Statement) /\ <<s>> # <<>> /\ Head(<<s>>) = s
    BY Written
  <2> QED BY <2>1 DEF Statement
<1> HIDE DEF r
<1>1. ASSUME NEW s \in {"revoke_session", "revoke_token", "logout", "change", "read_target",
                        "insert_user", "insert_invite"},
             a \in RequestRow, a.plan = <<s>>, a.op \notin Unserved,
             s \in {"insert_user", "insert_invite"} => a.role \in Roles
      PROVE  Good(r) /\ Fresh(r) /\ r.op \notin Unserved
  <2>1. s \in Statement
    BY <1>0
  <2>2. r \in RequestRow /\ r.op = a.op /\ r.plan = <<s>> /\ r.role = a.role /\ r.target = t
    BY <1>1 DEF RequestRow, r
  <2>3. Good(r) /\ Fresh(r)
    BY <2>1, <2>2, SingleGood, <1>1 DEF Beginnings, Doors, Unserved
  <2> QED BY <1>1, <2>2, <2>3
<1>2. ASSUME a = Ask(u, "change", <<"change", "issue_session">>)
      PROVE  Good(r) /\ Fresh(r) /\ r.op \notin Unserved
  <2>1. /\ <<"change", "issue_session">> \in Seq(Statement)
        /\ Head(<<"change", "issue_session">>) = "change"
        /\ Stmts(<<"change", "issue_session">>) = {"change", "issue_session"}
        /\ After(<<"change", "issue_session">>) = {"issue_session"}
    BY <1>0, Written
  <2>2. r \in RequestRow /\ r.op = "change" /\ r.plan = <<"change", "issue_session">> /\ r.actor = u
    BY <1>2, <2>1 DEF Ask, Idle, RequestRow, r
  <2>3. Planned(r)
    BY <2>1, <2>2 DEF Planned, Beginnings, Followers
  <2>4. Provided(r)
    BY <2>1, <2>2 DEF Provided, Starts
  <2>5. Fresh(r)
    BY <2>1, <2>2 DEF Fresh, Doors
  <2> QED BY <2>2, <2>3, <2>4, <2>5 DEF Good, Unserved
<1>3. ASSUME NEW op \in {"revoke", "change", "patch", "disable", "purge", "reset", "user", "invite"},
             NEW s \in {"revoke_session", "revoke_token", "logout", "change", "read_target",
                        "insert_user", "insert_invite"}
      PROVE  LET b == Ask(u, op, <<s>>)
             IN b \in RequestRow /\ b.plan = <<s>> /\ b.op \notin Unserved
  <2>1. <<s>> \in Seq(Statement)
    BY <1>0
  <2> QED BY <2>1 DEF Ask, Idle, RequestRow, Unserved
<1>4. ASSUME a \in AsksForSelf(u, kind) PROVE Good(r) /\ Fresh(r) /\ r.op \notin Unserved
  <2>1. ASSUME NEW op \in {"revoke", "change"},
               NEW s \in {"revoke_session", "revoke_token", "change", "logout"},
               a = Ask(u, op, <<s>>)
        PROVE  Good(r) /\ Fresh(r) /\ r.op \notin Unserved
    BY <1>1, <1>3, <2>1
  <2>2. CASE a = Ask(u, "change", <<"change", "issue_session">>)
    BY <1>2, <2>2
  <2>3. \/ a \in {Ask(u, "revoke", <<"revoke_session">>), Ask(u, "revoke", <<"revoke_token">>),
                   Ask(u, "revoke", <<"logout">>)}
        \/ a = Ask(u, "change", ChangePlan(kind))
    <3> DEFINE self == {Ask(u, "revoke", <<"revoke_session">>),
                        Ask(u, "revoke", <<"revoke_token">>),
                        Ask(u, "change", ChangePlan(kind))}
    <3>1. CASE kind = "session"
      <4>1. a \in self \cup {Ask(u, "revoke", <<"logout">>)}
        BY <1>4, <3>1 DEF AsksForSelf
      <4> QED BY <4>1
    <3>2. CASE kind # "session"
      <4>1. a \in self
        BY <1>4, <3>2 DEF AsksForSelf
      <4> QED BY <4>1
    <3> QED BY <3>1, <3>2
  <2>4. ChangePlan(kind) \in {<<"change">>, <<"change", "issue_session">>}
    BY DEF ChangePlan
  <2> HIDE DEF ChangePlan
  <2> QED BY <2>1, <2>2, <2>3, <2>4
<1>5. ASSUME a \in AsksForOthers(u) PROVE Good(r) /\ Fresh(r) /\ r.op \notin Unserved
  <2>1. ASSUME NEW f \in Patches,
               a = [Ask(u, "patch", <<"read_target">>) EXCEPT !.role = f.role, !.status = f.status]
        PROVE  Good(r) /\ Fresh(r) /\ r.op \notin Unserved
    <3>1. f.role \in Roles \cup {"keep"} /\ f.status \in {"active", "disabled", "keep"}
      BY AccountsAssumption DEF Roles
    <3> DEFINE b == Ask(u, "patch", <<"read_target">>)
    <3>2. b \in RequestRow /\ b.plan = <<"read_target">> /\ b.op \notin Unserved
      BY <1>3
    <3>3. a = [b EXCEPT !.role = f.role, !.status = f.status]
      BY <2>1
    <3> HIDE DEF b
    <3>4. a \in RequestRow /\ a.plan = <<"read_target">> /\ a.op \notin Unserved
      BY <3>1, <3>2, <3>3 DEF RequestRow
    <3> QED BY <1>1, <3>4
  <2>2. ASSUME NEW op \in {"disable", "purge", "reset"}, a = Ask(u, op, <<"read_target">>)
        PROVE  Good(r) /\ Fresh(r) /\ r.op \notin Unserved
    BY <1>1, <1>3, <2>2
  <2>3. ASSUME NEW op \in {"user", "invite"}, NEW s \in {"insert_user", "insert_invite"},
               NEW role \in MayGrant(u), a = [Ask(u, op, <<s>>) EXCEPT !.role = role]
        PROVE  Good(r) /\ Fresh(r) /\ r.op \notin Unserved
    <3>1. role \in Roles
      BY DEF MayGrant, Roles
    <3> DEFINE b == Ask(u, op, <<s>>)
    <3>2. b \in RequestRow /\ b.plan = <<s>> /\ b.op \notin Unserved
      BY <1>3
    <3>3. a = [b EXCEPT !.role = role]
      BY <2>3
    <3> HIDE DEF b
    <3>4. a \in RequestRow /\ a.plan = <<s>> /\ a.op \notin Unserved /\ a.role = role
      BY <3>1, <3>2, <3>3 DEF RequestRow
    <3> QED BY <1>1, <3>1, <3>4
  <2>4. \/ \E f \in Patches :
             a = [Ask(u, "patch", <<"read_target">>) EXCEPT !.role = f.role, !.status = f.status]
        \/ \E op \in {"disable", "purge", "reset"} : a = Ask(u, op, <<"read_target">>)
        \/ \E role \in MayGrant(u) : \/ a = [Ask(u, "user", <<"insert_user">>) EXCEPT !.role = role]
                                     \/ a = [Ask(u, "invite", <<"insert_invite">>) EXCEPT !.role = role]
    BY <1>5 DEF AsksForOthers
  <2> QED BY <2>1, <2>2, <2>3, <2>4
<1> QED BY <1>4, <1>5 DEF Unserved, r

LEMMA AdmitStep ==
  ASSUME RowsOK, RequestsOK, CredsOwned, NEW p \in Proc, Admit(p)
  PROVE  Proceeds(p)
<1> DEFINE c == reqs[p].cred
           u == creds[c].user
<1>1. c \in Cred /\ reqs[p].op \notin Unserved
  <2>1. At(p, "admit")
    BY DEF Admit
  <2>2. /\ Good(reqs[p]) /\ Starts(reqs[p], "admit")
        /\ reqs[p].op # "none" /\ reqs[p].op # "boot" /\ reqs[p].op # "operator"
    BY <2>1, AtStatement DEF Beginnings, OperatorStmts
  <2> QED BY <2>2 DEF Good, Provided, Unserved
<1>2. u \in User
  BY <1>1 DEF CredsOwned, Admit
<1>3. CASE End(p)
  BY <1>3, Ends
<1>4. CASE \E a \in AsksForSelf(u, creds[c].kind) \cup (IF IsAdmin(u) THEN AsksForOthers(u) ELSE {}),
              t \in User : Continue(p, [a EXCEPT !.target = t, !.cred = c])
  <2>1. PICK a \in AsksForSelf(u, creds[c].kind) \cup AsksForOthers(u), t \in User :
               Continue(p, [a EXCEPT !.target = t, !.cred = c])
    BY <1>4
  <2> DEFINE r == [a EXCEPT !.target = t, !.cred = c]
  <2>2. Good(r) /\ Fresh(r)
    BY <1>1, <1>2, Asks
  <2> HIDE DEF r
  <2> QED BY <1>1, <2>1, <2>2 DEF Proceeds, Goes, r
<1> QED BY <1>3, <1>4 DEF Admit

(* What an administrator's request does once it has read its target.        *)
(* The owner is written only as the enabled admin it is, and never disabled. *)
LEMMA TargetStep ==
  ASSUME RowsOK, RequestsOK, NEW p \in Proc, ReadTarget(p)
  PROVE  \E r : /\ Goes(p, r)
                /\ ~Starts(r, "admit") /\ ~Starts(r, "set_owner")
                /\ owner \in EnabledAdmins /\ r.target = owner =>
                     /\ Starts(r, "write") => r.role = "admin" /\ r.status = "active"
                     /\ ~Starts(r, "disable")
<1> DEFINE r == reqs[p]
           t == r.target
           Found(n) == /\ Goes(p, n) /\ ~Starts(n, "admit") /\ ~Starts(n, "set_owner")
                       /\ owner \in EnabledAdmins /\ n.target = owner =>
                            /\ Starts(n, "write") => n.role = "admin" /\ n.status = "active"
                            /\ ~Starts(n, "disable")
<1>1. /\ r \in RequestRow /\ t \in User
      /\ r.op \notin Unserved
  <2>1. /\ Good(reqs[p]) /\ Starts(reqs[p], "read_target")
        /\ reqs[p].op # "none" /\ reqs[p].op # "boot" /\ reqs[p].op # "operator"
    BY AtStatement DEF ReadTarget, Beginnings, OperatorStmts
  <2> QED BY <2>1 DEF Good, Provided, Unserved
<1>2. users[t] \in UserRow
  BY <1>1, RowFields
<1>3. {"write", "disable", "insert_reset"} \subseteq Statement
  BY DEF Statement
<1>4. CASE End(p)
  <2>1. Idle.op \in Unserved /\ Idle.plan = <<>>
    BY DEF Idle, Unserved
  <2> QED BY <1>4, <2>1, IdleGood DEF End, Continue, Goes, Starts
<1>5. ASSUME MayPatch(r, t), Exists(t), Continue(p, Patch(r, users[t]))
      PROVE  \E n : Found(n)
  <2> DEFINE n == Patch(r, users[t])
             more == IF StatusAfter(r, users[t]) = "disabled" /\ users[t].state # "disabled"
                     THEN RevokeUserAuth ELSE <<>>
  <2>1. /\ more \in Seq(Statement) /\ Stmts(more) \subseteq {"revoke_sessions", "revoke_tokens"}
    BY Written, LongPlans DEF RevokeUserAuth
  <2>2. <<"write">> \in Seq(Statement) /\ <<"write">> # <<>> /\ Head(<<"write">>) = "write"
         /\ Stmts(<<"write">>) = {"write"} /\ After(<<"write">>) = {}
    BY <1>3, Written
  <2>a. n.plan = <<"write">> \o more
    BY <1>1 DEF Patch, RequestRow
  <2>3. /\ n.plan \in Seq(Statement) /\ n.plan # <<>> /\ Head(n.plan) = "write"
        /\ Stmts(n.plan) \subseteq {"write", "revoke_sessions", "revoke_tokens"}
        /\ After(n.plan) \subseteq {"revoke_sessions", "revoke_tokens"}
    <3> HIDE DEF more, n
    <3>1. /\ <<"write">> \o more \in Seq(Statement) /\ <<"write">> \o more # <<>>
          /\ Head(<<"write">> \o more) = Head(<<"write">>)
          /\ Stmts(<<"write">> \o more) = Stmts(<<"write">>) \cup Stmts(more)
          /\ After(<<"write">> \o more) = After(<<"write">>) \cup Stmts(more)
      BY <2>1, <2>2, JoinedStmts
    <3> QED BY <2>1, <2>2, <2>a, <3>1
  <2>4. /\ n.role = (IF r.role = "keep" THEN users[t].role ELSE r.role)
        /\ n.status = StatusAfter(r, users[t]) /\ n.op = r.op /\ n.target = t
    BY <1>1 DEF Patch, RequestRow
  <2>5. n.role \in Roles /\ n.status \in {"active", "disabled"}
    BY <1>1, <1>2, <1>5, <2>4 DEF StatusAfter, Exists, RequestRow, UserRow
  <2>6. n \in RequestRow
    <3>1. n = [r EXCEPT !.status = n.status, !.role = n.role, !.plan = n.plan]
      BY <1>1, <2>4, <2>a DEF Patch, RequestRow
    <3> HIDE DEF n
    <3> QED BY <1>1, <2>3, <2>5, <3>1 DEF RequestRow
  <2>7. t = owner /\ owner \in EnabledAdmins => n.role = "admin" /\ n.status = "active"
    BY <1>1, <1>5, <2>4 DEF MayPatch, StatusAfter, EnabledAdmins, RequestRow
  <2>b. Continue(p, n)
    BY <1>5
  <2> HIDE DEF n
  <2>8. Planned(n)
    BY <1>1, <2>3, <2>4 DEF Planned, Unserved, Beginnings, Followers
  <2>9. Provided(n)
    BY <1>1, <2>3, <2>4, <2>5 DEF Provided, Starts, Unserved
  <2> QED BY <1>1, <2>3, <2>4, <2>6, <2>7, <2>8, <2>9, <2>b DEF Goes, Good, Starts
<1>6. ASSUME MayRemove(r, t), Continue(p, Disabling(r))
      PROVE  \E n : Found(n)
  <2> DEFINE n == Disabling(r)
  <2>1. /\ RevokeUserAuth \in Seq(Statement) /\ Stmts(RevokeUserAuth) = {"revoke_sessions", "revoke_tokens"}
        /\ <<"disable">> \in Seq(Statement) /\ <<"disable">> # <<>> /\ Head(<<"disable">>) = "disable"
        /\ Stmts(<<"disable">>) = {"disable"} /\ After(<<"disable">>) = {}
    BY <1>3, Written, LongPlans DEF RevokeUserAuth
  <2>2. n.plan = <<"disable">> \o RevokeUserAuth /\ n.op = r.op /\ n.target = t
    BY <1>1 DEF Disabling, RequestRow
  <2>3. /\ n.plan \in Seq(Statement) /\ n.plan # <<>> /\ Head(n.plan) = "disable"
        /\ Stmts(n.plan) \subseteq {"disable", "revoke_sessions", "revoke_tokens"}
        /\ After(n.plan) \subseteq {"revoke_sessions", "revoke_tokens"}
    BY <2>1, <2>2, JoinedStmts
  <2>4. n \in RequestRow
    <3>1. n = [r EXCEPT !.plan = n.plan]
      BY <1>1, <2>2 DEF Disabling, RequestRow
    <3> HIDE DEF n
    <3> QED BY <1>1, <2>3, <3>1 DEF RequestRow
  <2>5. t # owner /\ Continue(p, n)
    BY <1>6 DEF MayRemove
  <2> HIDE DEF n
  <2>6. Planned(n)
    BY <1>1, <2>2, <2>3 DEF Planned, Unserved, Beginnings, Followers
  <2>7. Provided(n)
    BY <1>1, <2>2, <2>3 DEF Provided, Starts, Unserved
  <2> QED BY <1>1, <2>2, <2>3, <2>4, <2>5, <2>6, <2>7 DEF Goes, Good, Starts
<1>7. ASSUME MayRemove(r, t), Continue(p, Purge(r, users[t]))
      PROVE  \E n : Found(n)
  <2> DEFINE n == Purge(r, users[t])
             removing == <<"delete_sessions", "delete_tokens", "delete_resets",
                           "clear_created_by", "delete_user">>
             first == <<"write">> \o RevokeUserAuth
  <2>1. /\ RevokeUserAuth \in Seq(Statement) /\ Stmts(RevokeUserAuth) = {"revoke_sessions", "revoke_tokens"}
        /\ <<"write">> \in Seq(Statement) /\ <<"write">> # <<>> /\ Head(<<"write">>) = "write"
        /\ Stmts(<<"write">>) = {"write"} /\ After(<<"write">>) = {}
        /\ removing \in Seq(Statement)
        /\ Stmts(removing) = {"delete_sessions", "delete_tokens", "delete_resets",
                              "clear_created_by", "delete_user"}
    BY <1>3, Written, LongPlans DEF RevokeUserAuth
  <2>2. /\ n.plan = <<"write">> \o RevokeUserAuth \o removing /\ n.op = r.op /\ n.target = t
        /\ n.role = users[t].role /\ n.status = "disabled"
    BY <1>1 DEF Purge, RequestRow
  <2>3. /\ first \in Seq(Statement) /\ first # <<>> /\ Head(first) = "write"
        /\ Stmts(first) = {"write", "revoke_sessions", "revoke_tokens"}
        /\ After(first) = {"revoke_sessions", "revoke_tokens"}
    BY <2>1, JoinedStmts
  <2>c. n.plan = first \o removing
    BY <2>2
  <2> HIDE DEF removing, first
  <2>4. /\ n.plan \in Seq(Statement) /\ n.plan # <<>> /\ Head(n.plan) = "write"
        /\ Stmts(n.plan) \subseteq {"write"} \cup (Followers \ {"issue_session"})
        /\ After(n.plan) \subseteq Followers
    <3>1. /\ first \o removing \in Seq(Statement) /\ first \o removing # <<>>
          /\ Head(first \o removing) = Head(first)
          /\ Stmts(first \o removing) = Stmts(first) \cup Stmts(removing)
          /\ After(first \o removing) = After(first) \cup Stmts(removing)
      BY <2>1, <2>3, JoinedStmts
    <3> QED BY <2>1, <2>3, <2>c, <3>1 DEF Followers
  <2>5. n \in RequestRow
    <3>1. n = [r EXCEPT !.status = n.status, !.role = n.role, !.plan = n.plan]
      BY <1>1, <2>2 DEF Purge, RequestRow, removing
    <3> HIDE DEF n
    <3> QED BY <1>1, <1>2, <2>2, <2>4, <3>1 DEF RequestRow, UserRow
  <2>6. t # owner /\ Continue(p, n)
    BY <1>7 DEF MayRemove
  <2>d. n.role \in Roles
    BY <1>2, <2>2 DEF UserRow
  <2> HIDE DEF n
  <2>7. Planned(n)
    BY <1>1, <2>2, <2>4 DEF Planned, Unserved, Beginnings, Followers
  <2>8. Provided(n)
    BY <1>1, <2>2, <2>4, <2>d DEF Provided, Starts, Followers
  <2> QED BY <1>1, <2>2, <2>4, <2>5, <2>6, <2>7, <2>8 DEF Goes, Good, Starts
<1>8. ASSUME Continue(p, Resetting(r))
      PROVE  \E n : Found(n)
  <2> DEFINE n == Resetting(r)
  <2>1. <<"insert_reset">> \in Seq(Statement) /\ Head(<<"insert_reset">>) = "insert_reset"
    BY <1>3, Written
  <2>2. n \in RequestRow /\ n.plan = <<"insert_reset">> /\ n.op = r.op
    BY <1>1, <2>1 DEF Resetting, RequestRow
  <2>3. Continue(p, n)
    BY <1>8
  <2> HIDE DEF n
  <2>4. Good(n)
    BY <1>1, <1>3, <2>2, SingleGood DEF Beginnings, Unserved
  <2> QED BY <1>1, <2>1, <2>2, <2>3, <2>4 DEF Goes, Starts
<1> HIDE DEF Found
<1>9. (\E n : Found(n)) \/ End(p)
  BY <1>5, <1>6, <1>7, <1>8 DEF ReadTarget, End, Continue
<1> QED BY <1>4, <1>9 DEF Found

LEMMA InviteStep ==
  ASSUME RowsOK, RequestsOK, NEW p \in Proc, InsertInvite(p)
  PROVE  Proceeds(p)
<1>1. At(p, "insert_invite")
  BY DEF InsertInvite
<1>2. reqs[p] \in RequestRow /\ reqs[p].op \notin Unserved
  BY <1>1, AtStatement DEF Beginnings, OperatorStmts, Unserved
<1>3. CASE End(p)
  BY <1>3, Ends
<1>4. CASE \E t \in Invite : Continue(p, [reqs[p] EXCEPT !.invite = t, !.plan = <<"mail">>])
  <2>1. PICK t \in Invite : Continue(p, [reqs[p] EXCEPT !.invite = t, !.plan = <<"mail">>])
    BY <1>4
  <2> DEFINE n == [reqs[p] EXCEPT !.invite = t, !.plan = <<"mail">>]
  <2>2. "mail" \in Statement
    BY DEF Statement
  <2>3. <<"mail">> \in Seq(Statement)
    BY <2>2, Written
  <2>4. n \in RequestRow /\ n.plan = <<"mail">> /\ n.op = reqs[p].op
    BY <1>2, <2>3 DEF RequestRow
  <2>5. Continue(p, n)
    BY <2>1
  <2> HIDE DEF n
  <2>6. Good(n) /\ Fresh(n)
    BY <1>2, <2>2, <2>4, SingleGood DEF Beginnings, Doors, Unserved
  <2> QED BY <1>2, <2>4, <2>5, <2>6 DEF Proceeds, Goes
<1> QED BY <1>3, <1>4 DEF InsertInvite

(* A statement that is no door of another action: the request goes on, ...  *)
LEMMA AdvanceSteps ==
  ASSUME RequestsOK, NEW p \in Proc,
         \/ Logout(p) \/ RevokeSession(p) \/ RevokeToken(p) \/ ChangePassword(p)
         \/ WriteProfile(p) \/ Disable(p) \/ Enable(p)
         \/ RevokeSessions(p) \/ RevokeTokens(p) \/ DeleteSessions(p) \/ DeleteTokens(p)
         \/ DeleteResets(p) \/ ClearCreatedBy(p) \/ InsertUser(p) \/ SetPassword(p)
  PROVE  Proceeds(p)
<1>1. ASSUME NEW s, At(p, s), Advance(p), s \notin Beginnings PROVE Proceeds(p)
  BY <1>1, AtStatement, Advances
<1>2. CASE Logout(p) \/ RevokeSession(p) \/ RevokeToken(p)
  BY <1>1, <1>2 DEF Logout, RevokeSession, RevokeToken, RevokeOwn, Beginnings
<1>3. CASE ChangePassword(p)
  BY <1>1, <1>3 DEF ChangePassword, Beginnings
<1>4. CASE WriteProfile(p)
  BY <1>1, <1>4 DEF WriteProfile, Beginnings
<1>5. CASE Disable(p) \/ Enable(p)
  BY <1>1, <1>5 DEF Disable, Enable, SetDisabled, Beginnings
<1>6. CASE RevokeSessions(p) \/ RevokeTokens(p)
  BY <1>1, <1>6 DEF RevokeSessions, RevokeTokens, RevokeAll, Beginnings
<1>7. CASE DeleteSessions(p) \/ DeleteTokens(p)
  BY <1>1, <1>7 DEF DeleteSessions, DeleteTokens, DeleteAll, Beginnings
<1>8. CASE DeleteResets(p) \/ ClearCreatedBy(p)
  BY <1>1, <1>8 DEF DeleteResets, ClearCreatedBy, Beginnings
<1>9. CASE InsertUser(p) \/ SetPassword(p)
  BY <1>1, <1>9 DEF InsertUser, SetPassword, Beginnings
<1> QED BY <1>2, <1>3, <1>4, <1>5, <1>6, <1>7, <1>8, <1>9

(* ... or it was the last.                                                  *)
LEMMA EndSteps ==
  ASSUME RequestsOK, NEW p \in Proc,
         \/ IssueSession(p) \/ IssueToken(p) \/ DeleteUser(p) \/ Mail(p) \/ InsertReset(p)
         \/ Claim(p) \/ RedeemInvite(p) \/ RedeemReset(p) \/ Fail(p)
  PROVE  Proceeds(p)
BY Ends DEF IssueSession, IssueToken, Issue, DeleteUser, Mail, InsertReset, Claim,
            RedeemInvite, RedeemReset, Fail

(* So the requests stay good ones, and those that a step brings to a door   *)
(* are brought there by its action.                                        *)
Arrivals ==
  \A q \in Proc : reqs'[q] # reqs[q] =>
    /\ reqs'[q].op \in Unserved \/ booted \/ reqs[q].op \notin Unserved
    /\ \/ Fresh(reqs'[q])
       \/ \E c \in Cred : /\ creds[c].state = "live" /\ creds' = creds
                          /\ Starts(reqs'[q], "admit") /\ reqs'[q].cred = c
       \/ /\ ~Starts(reqs'[q], "admit") /\ ~Starts(reqs'[q], "set_owner")
          /\ owner \in EnabledAdmins /\ reqs'[q].target = owner =>
               /\ Starts(reqs'[q], "write") => reqs'[q].role = "admin" /\ reqs'[q].status = "active"
               /\ ~Starts(reqs'[q], "disable")
       \/ Starts(reqs'[q], "set_owner") /\ reqs'[q].target \in EnabledAdmins'

LEMMA RequestStep ==
  ASSUME RowsOK, RequestsOK, CredsOwned, [Next]_vars
  PROVE  RequestsOK' /\ Arrivals
<1>1. ASSUME NEW p \in Proc, Proceeds(p) PROVE RequestsOK' /\ Arrivals
  <2>1. PICK r : Goes(p, r) /\ Fresh(r)
    BY <1>1 DEF Proceeds
  <2>2. RequestsOK' /\ reqs'[p] = r /\ \A q \in Proc : q # p => reqs'[q] = reqs[q]
    BY <2>1, Goings
  <2> QED BY <2>1, <2>2 DEF Arrivals, Goes
<1>2. ASSUME NEW p \in Proc, NEW c \in Cred, Present(p, c) PROVE RequestsOK' /\ Arrivals
  <2>1. PICK r : Goes(p, r) /\ Starts(r, "admit") /\ r.op = "request" /\ r.cred = c
    BY <1>2, BeginSteps
  <2>2. RequestsOK' /\ reqs'[p] = r /\ \A q \in Proc : q # p => reqs'[q] = reqs[q]
    BY <2>1, Goings
  <2>3. creds[c].state = "live" /\ creds' = creds
    BY <1>2 DEF Present, Begin
  <2> QED BY <2>1, <2>2, <2>3 DEF Arrivals, Goes
<1>3. ASSUME NEW p \in Proc, ReadTarget(p) PROVE RequestsOK' /\ Arrivals
  <2>1. PICK r : /\ Goes(p, r)
                 /\ ~Starts(r, "admit") /\ ~Starts(r, "set_owner")
                 /\ owner \in EnabledAdmins /\ r.target = owner =>
                      /\ Starts(r, "write") => r.role = "admin" /\ r.status = "active"
                      /\ ~Starts(r, "disable")
    BY <1>3, TargetStep
  <2>2. RequestsOK' /\ reqs'[p] = r /\ \A q \in Proc : q # p => reqs'[q] = reqs[q]
    BY <2>1, Goings
  <2> QED BY <2>1, <2>2 DEF Arrivals, Goes
<1>4. ASSUME NEW p \in Proc, LookForAdmin(p) \/ CreateOwner(p) PROVE RequestsOK' /\ Arrivals
  <2>1. PICK r : /\ Goes(p, r) /\ r.op \in {"none", "boot"}
                 /\ Fresh(r) \/ r.target \in EnabledAdmins'
    BY <1>4, BootSteps
  <2>2. RequestsOK' /\ reqs'[p] = r /\ \A q \in Proc : q # p => reqs'[q] = reqs[q]
    BY <2>1, Goings
  <2>3. Fresh(r) \/ Starts(r, "set_owner")
    <3>1. r.plan = <<>> \/ r.plan \in BootPlans
      BY <2>1 DEF Goes, Good, Planned
    <3>2. CASE r.plan \in BootPlans
      <4>1. Head(r.plan) \in Beginnings
        BY <3>2, BootPlansWritten
      <4> QED BY <4>1 DEF Fresh, Starts, Beginnings, Doors
    <3> QED BY <3>1, <3>2 DEF Fresh
  <2> QED BY <2>1, <2>2, <2>3 DEF Arrivals, Goes
<1>5. ASSUME reqs' = reqs PROVE RequestsOK' /\ Arrivals
  BY <1>5 DEF RequestsOK, Arrivals
<1>6. CASE UNCHANGED vars
  BY <1>5, <1>6 DEF vars
<1>7. ASSUME NEW t, ExpireReset(t) \/ ExpireInvite(t) PROVE RequestsOK' /\ Arrivals
  BY <1>5, <1>7 DEF ExpireReset, ExpireInvite
<1>8. ASSUME NEW p \in Proc, Boot(p) \/ FindOwner(p) \/ SetOwner(p) PROVE RequestsOK' /\ Arrivals
  BY <1>1, <1>8, BootSteps
<1>9. ASSUME NEW p \in Proc, NEW u \in User,
             \/ Login(p, u) \/ ConnectDevice(p, u)
             \/ \E keep \in BOOLEAN : OperatorReset(p, u, keep)
      PROVE  RequestsOK' /\ Arrivals
  BY <1>1, <1>9, BeginSteps, OperatorSteps
<1>10. ASSUME NEW p \in Proc, NEW t \in Invite,
              FollowInvite(p, t) \/ \E claimed \in BOOLEAN : PresentInvite(p, t, claimed)
       PROVE  RequestsOK' /\ Arrivals
  BY <1>1, <1>10, BeginSteps
<1>11. ASSUME NEW p \in Proc, NEW t \in Reset, PresentReset(p, t) PROVE RequestsOK' /\ Arrivals
  BY <1>1, <1>11, BeginSteps
<1>12. ASSUME NEW p \in Proc, Admit(p) \/ InsertInvite(p) PROVE RequestsOK' /\ Arrivals
  BY <1>1, <1>12, AdmitStep, InviteStep
<1>13. ASSUME NEW p \in Proc,
         \/ Logout(p) \/ RevokeSession(p) \/ RevokeToken(p) \/ ChangePassword(p)
         \/ WriteProfile(p) \/ Disable(p) \/ Enable(p)
         \/ RevokeSessions(p) \/ RevokeTokens(p) \/ DeleteSessions(p) \/ DeleteTokens(p)
         \/ DeleteResets(p) \/ ClearCreatedBy(p) \/ InsertUser(p) \/ SetPassword(p)
       PROVE  RequestsOK' /\ Arrivals
  BY <1>1, <1>13, AdvanceSteps
<1>14. ASSUME NEW p \in Proc,
         \/ IssueSession(p) \/ IssueToken(p) \/ DeleteUser(p) \/ Mail(p) \/ InsertReset(p)
         \/ Claim(p) \/ RedeemInvite(p) \/ RedeemReset(p) \/ Fail(p)
       PROVE  RequestsOK' /\ Arrivals
  BY <1>1, <1>14, EndSteps
<1> QED
  BY <1>2, <1>3, <1>4, <1>6, <1>7, <1>8, <1>9, <1>10, <1>11, <1>12, <1>13, <1>14 DEF Next

-----------------------------------------------------------------------------
(* What the steps do to the rows *)

LEMMA Untouched ==
  ASSUME RowsOK, UNCHANGED <<users, creds>>
  PROVE  UsersStay /\ CredsMove /\ CredsStay
BY DEF UsersStay, CredsMove, CredsStay, Keeps

(* The steps of a request among the settings and the links.                 *)
LEMMA OtherRows ==
  ASSUME RowsOK, RequestsOK, NEW p \in Proc,
         \/ Boot(p) \/ FindOwner(p) \/ LookForAdmin(p) \/ SetOwner(p) \/ Admit(p) \/ ReadTarget(p)
         \/ \E u \in User : \/ Login(p, u) \/ ConnectDevice(p, u)
                            \/ \E keep \in BOOLEAN : OperatorReset(p, u, keep)
         \/ \E c \in Cred : Present(p, c)
         \/ \E t \in Invite : FollowInvite(p, t) \/ \E claimed \in BOOLEAN : PresentInvite(p, t, claimed)
         \/ \E t \in Reset : PresentReset(p, t)
         \/ DeleteResets(p) \/ ClearCreatedBy(p) \/ InsertInvite(p) \/ Mail(p) \/ Claim(p)
         \/ InsertReset(p) \/ Fail(p)
  PROVE  RowsOK' /\ Routine
<1> USE DEF Routine
<1>1. /\ users \in [User -> UserRow] /\ owner \in User \cup {NoUser} /\ booted \in BOOLEAN
      /\ creds \in [Cred -> CredRow] /\ resets \in [Reset -> ResetRow]
      /\ invites \in [Invite -> InviteRow]
      /\ halfReset \subseteq User /\ replaced \in BOOLEAN /\ begun \in 0 .. MaxRequests
      /\ MaxRequests \in Nat
  BY AccountsAssumption DEF RowsOK
<1>2. ASSUME NEW r, Begin(p, r) PROVE RowsOK' /\ Routine
  <2>1. begun' \in 0 .. MaxRequests
    BY <1>1, <1>2 DEF Begin
  <2> QED BY <1>1, <1>2, <2>1, Untouched DEF Begin, RowsOK
<1>3. CASE \/ Boot(p)
           \/ \E u \in User : \/ Login(p, u) \/ ConnectDevice(p, u)
                              \/ \E keep \in BOOLEAN : OperatorReset(p, u, keep)
           \/ \E c \in Cred : Present(p, c)
           \/ \E t \in Invite : FollowInvite(p, t) \/ \E claimed \in BOOLEAN : PresentInvite(p, t, claimed)
           \/ \E t \in Reset : PresentReset(p, t)
  BY <1>2, <1>3 DEF Boot, Login, ConnectDevice, OperatorReset, Present, FollowInvite,
                    PresentInvite, PresentReset
<1>4. CASE LookForAdmin(p) \/ Admit(p) \/ ReadTarget(p)
  <2>1. UNCHANGED <<users, creds, resets, invites, settled>>
    BY <1>4 DEF LookForAdmin, Admit, ReadTarget
  <2> QED BY <1>1, <2>1, Untouched DEF settled, RowsOK
<1>5. CASE FindOwner(p)
  BY <1>1, <1>5, Untouched DEF FindOwner, RowsOK
<1>6. CASE SetOwner(p)
  <2>1. reqs[p].target \in User
    BY <1>6, AtStatement DEF SetOwner, Good, Provided
  <2>2. owner' \in User \cup {NoUser} /\ booted' \in BOOLEAN /\ replaced' \in BOOLEAN
    BY <1>1, <1>6, <2>1 DEF SetOwner
  <2> QED BY <1>1, <1>6, <2>2, Untouched DEF SetOwner, RowsOK
<1>7. ASSUME NEW f, f \in [Reset -> ResetRow], resets' = f,
             UNCHANGED <<users, creds, invites, settled>>
      PROVE  RowsOK' /\ Routine
  BY <1>1, <1>7, Untouched DEF settled, RowsOK
<1>8. ASSUME NEW f, f \in [Invite -> InviteRow], invites' = f,
             UNCHANGED <<users, creds, resets, settled>>
      PROVE  RowsOK' /\ Routine
  BY <1>1, <1>8, Untouched DEF settled, RowsOK
<1>9. ASSUME NEW t, NEW state \in {"claimed", "deleted"}
      PROVE  [invites EXCEPT ![t].state = state] \in [Invite -> InviteRow]
  BY <1>1 DEF InviteRow
<1>10. CASE DeleteResets(p)
  <2>1. [t \in Reset |-> IF resets[t].user = reqs[p].target
                           THEN [resets[t] EXCEPT !.state = "deleted"] ELSE resets[t]]
          \in [Reset -> ResetRow]
    BY <1>1 DEF ResetRow
  <2> QED BY <1>7, <1>10, <2>1 DEF DeleteResets
<1>11. CASE ClearCreatedBy(p)
  <2>1. [t \in Invite |-> IF invites[t].by = reqs[p].target
                            THEN [invites[t] EXCEPT !.by = NoUser] ELSE invites[t]]
          \in [Invite -> InviteRow]
    BY <1>1 DEF InviteRow
  <2> QED BY <1>8, <1>11, <2>1 DEF ClearCreatedBy
<1>12. CASE InsertInvite(p)
  <2>1. reqs[p] \in RequestRow /\ reqs[p].role \in Roles
    BY <1>12, AtStatement DEF InsertInvite, Good, Provided
  <2>2. ASSUME NEW t \in Invite
        PROVE  [invites EXCEPT ![t] = [state |-> "open", role |-> reqs[p].role,
                                       by |-> reqs[p].actor, uses |-> 0]] \in [Invite -> InviteRow]
    BY <1>1, <2>1 DEF InviteRow, RequestRow
  <2>3. UNCHANGED <<users, creds, resets, settled>>
    BY <1>12 DEF InsertInvite
  <2>4. CASE UNCHANGED invites
    BY <1>1, <1>8, <2>3, <2>4
  <2>5. CASE \E t \in Invite :
               invites' = [invites EXCEPT ![t] = [state |-> "open", role |-> reqs[p].role,
                                                  by |-> reqs[p].actor, uses |-> 0]]
    BY <1>8, <2>2, <2>3, <2>5
  <2> QED BY <1>12, <2>4, <2>5 DEF InsertInvite
<1>13. CASE Mail(p)
  BY <1>1, <1>8, <1>9, <1>13 DEF Mail
<1>14. CASE Claim(p)
  <2> DEFINE t == reqs[p].invite
  <2>1. CASE t \in Invite
    <3>1. invites' = [invites EXCEPT ![t].state = "claimed"] \/ invites' = invites
      <4>1. [invites EXCEPT ![t].state = invites[t].state] = invites
        BY <1>1, <2>1 DEF InviteRow
      <4> QED BY <1>14, <4>1 DEF Claim
    <3> QED BY <1>1, <1>8, <1>9, <1>14, <3>1 DEF Claim
  <2>2. CASE t \notin Invite
    BY <1>1, <1>8, <1>14, <2>2 DEF Claim
  <2> QED BY <2>1, <2>2
<1>15. CASE InsertReset(p)
  <2>1. reqs[p] \in RequestRow
    BY <1>15, AtStatement DEF InsertReset
  <2>2. ASSUME NEW t \in Reset
        PROVE  [resets EXCEPT ![t] = [state |-> "open", user |-> reqs[p].target,
                                      by |-> reqs[p].actor, uses |-> 0]] \in [Reset -> ResetRow]
    BY <1>1, <2>1 DEF ResetRow, RequestRow
  <2>3. UNCHANGED <<users, creds, invites, settled>>
    BY <1>15 DEF InsertReset
  <2> QED BY <1>1, <1>7, <1>15, <2>2, <2>3 DEF InsertReset
<1>16. CASE Fail(p)
  <2>1. halfReset' \subseteq User /\ halfReset \subseteq halfReset'
    <3>1. reqs[p].op = "operator" => reqs[p].target \in User
      BY DEF RequestsOK, Good, Provided
    <3> QED BY <1>1, <1>16, <3>1 DEF Fail, Midway
  <2> QED BY <1>1, <1>16, <2>1, Untouched DEF Fail, RowsOK
<1> QED BY <1>3, <1>4, <1>5, <1>6, <1>10, <1>11, <1>12, <1>13, <1>14, <1>15, <1>16

(* The steps that write users and insert none of their passwords.           *)
LEMMA UserRows ==
  ASSUME RowsOK, RequestsOK, NEW p \in Proc,
         \/ CreateOwner(p) \/ WriteProfile(p) \/ Disable(p) \/ Enable(p)
         \/ DeleteUser(p) \/ InsertUser(p) \/ RedeemInvite(p)
  PROVE  RowsOK' /\ Routine
<1> USE DEF Routine
<1>1. /\ users \in [User -> UserRow] /\ owner \in User \cup {NoUser} /\ booted \in BOOLEAN
      /\ creds \in [Cred -> CredRow] /\ resets \in [Reset -> ResetRow]
      /\ invites \in [Invite -> InviteRow]
      /\ halfReset \subseteq User /\ replaced \in BOOLEAN /\ begun \in 0 .. MaxRequests
  BY DEF RowsOK
<1>2. ASSUME users' \in [User -> UserRow], UsersStay, UNCHANGED <<creds, resets, settled>>,
             invites' \in [Invite -> InviteRow]
      PROVE  RowsOK' /\ Routine
  BY <1>1, <1>2 DEF settled, RowsOK, CredsMove, CredsStay, Keeps
<1>3. ASSUME UNCHANGED <<users, invites, creds, resets, settled>> PROVE RowsOK' /\ Routine
  BY <1>1, <1>3, Untouched DEF settled, RowsOK
<1>4. CASE CreateOwner(p)
  <2>1. UNCHANGED <<creds, resets, invites, settled>>
    BY <1>4 DEF CreateOwner
  <2>2. CASE UNCHANGED users
    BY <1>3, <2>1, <2>2
  <2>3. CASE Unborn # {} /\ users' = Created("admin", TRUE)
    <3>1. users' \in [User -> UserRow] /\ UsersStay
      BY <2>3, CreatedRows DEF Roles
    <3> QED BY <1>1, <1>2, <2>1, <3>1
  <2> QED BY <1>4, <2>2, <2>3 DEF CreateOwner
<1>5. CASE WriteProfile(p)
  <2>1. reqs[p].role \in Roles /\ reqs[p].status \in {"active", "disabled"}
    BY <1>5, AtStatement DEF WriteProfile, Good, Provided
  <2>2. UNCHANGED <<creds, resets, invites, settled>>
    BY <1>5 DEF WriteProfile
  <2>3. CASE UNCHANGED users
    BY <1>3, <2>2, <2>3
  <2>4. CASE users' = [users EXCEPT ![reqs[p].target].role = reqs[p].role,
                                    ![reqs[p].target].state = reqs[p].status]
    <3>1. users' \in [User -> UserRow] /\ UsersStay
      BY <2>1, <2>4, ProfileRows
    <3> QED BY <1>1, <1>2, <2>2, <3>1
  <2> QED BY <1>5, <2>3, <2>4 DEF WriteProfile
<1>6. ASSUME NEW u, NEW state \in {"active", "disabled", "purged"},
             users' = [users EXCEPT ![u].state = state] \/ UNCHANGED users,
             UNCHANGED <<creds, resets, invites, settled>>
      PROVE  RowsOK' /\ Routine
  <2>1. CASE UNCHANGED users
    BY <1>3, <1>6, <2>1
  <2>2. CASE users' = [users EXCEPT ![u].state = state]
    <3>1. users' \in [User -> UserRow] /\ UsersStay
      BY <1>6, <2>2, StateRows
    <3> QED BY <1>1, <1>2, <1>6, <3>1
  <2> QED BY <1>6, <2>1, <2>2
<1>7. CASE Disable(p) \/ Enable(p)
  BY <1>6, <1>7 DEF Disable, Enable, SetDisabled
<1>8. CASE DeleteUser(p)
  BY <1>6, <1>8 DEF DeleteUser
<1>9. CASE InsertUser(p)
  <2>1. reqs[p].role \in Roles
    BY <1>9, AtStatement DEF InsertUser, Good, Provided
  <2>2. users' \in [User -> UserRow] /\ UsersStay
    BY <1>9, <2>1, CreatedRows DEF InsertUser
  <2> QED BY <1>1, <1>2, <1>9, <2>2 DEF InsertUser
<1>10. CASE RedeemInvite(p)
  <2> DEFINE t == reqs[p].invite
  <2>1. t \in Invite
    BY <1>10, AtStatement DEF RedeemInvite, Good, Provided
  <2>2. UNCHANGED <<creds, resets, settled>>
    BY <1>10 DEF RedeemInvite
  <2>3. CASE UNCHANGED <<users, invites>>
    BY <1>3, <2>2, <2>3
  <2>4. CASE /\ Unborn # {} /\ users' = Created(invites[t].role, FALSE)
             /\ invites' = [invites EXCEPT ![t].state = "used", ![t].uses = @ + 1]
    <3>1. invites[t] \in InviteRow /\ invites[t].role \in Roles /\ invites[t].uses \in Nat
      BY <2>1, RowFields
    <3>2. users' \in [User -> UserRow] /\ UsersStay
      BY <2>4, <3>1, CreatedRows
    <3>3. [[invites[t] EXCEPT !.state = "used"] EXCEPT !.uses = invites[t].uses + 1] \in InviteRow
      BY <3>1, UsedRows
    <3>4. invites' = [invites EXCEPT ![t] = [[invites[t] EXCEPT !.state = "used"] EXCEPT !.uses = invites[t].uses + 1]]
      BY <1>1, <2>1, <2>4, <3>1 DEF InviteRow
    <3>5. invites' \in [Invite -> InviteRow]
      BY <1>1, <3>3, <3>4
    <3> QED BY <1>2, <2>2, <3>2, <3>5
  <2> QED BY <1>10, <2>3, <2>4 DEF RedeemInvite
<1> QED BY <1>4, <1>5, <1>7, <1>8, <1>9, <1>10

(* The steps that write credentials alone.                                  *)
LEMMA CredRows ==
  ASSUME RowsOK, RequestsOK, CredsOwned, NEW p \in Proc,
         \/ IssueSession(p) \/ IssueToken(p)
         \/ Logout(p) \/ RevokeSession(p) \/ RevokeToken(p)
         \/ RevokeSessions(p) \/ RevokeTokens(p) \/ DeleteSessions(p) \/ DeleteTokens(p)
  PROVE  RowsOK' /\ Routine
<1> USE DEF Routine
<1>1. /\ users \in [User -> UserRow] /\ owner \in User \cup {NoUser} /\ booted \in BOOLEAN
      /\ creds \in [Cred -> CredRow] /\ resets \in [Reset -> ResetRow]
      /\ invites \in [Invite -> InviteRow]
      /\ halfReset \subseteq User /\ replaced \in BOOLEAN /\ begun \in 0 .. MaxRequests
  BY DEF RowsOK
<1>2. ASSUME creds' \in [Cred -> CredRow], CredsMove, UNCHANGED <<users, resets, invites, settled>>,
             CredsStay \/ \E q \in Proc : reqs[q].op \notin Unserved
      PROVE  RowsOK' /\ Routine
  BY <1>1, <1>2 DEF settled, RowsOK, UsersStay
<1>3. CredsStay => CredsMove
  BY DEF CredsStay, CredsMove
<1>4. ASSUME NEW s \in {"issue_session", "issue_token"}, NEW allowed,
             NEW kind \in {"session", "device"}, Issue(p, s, allowed, kind)
      PROVE  RowsOK' /\ Routine
  <2>1. UNCHANGED <<users, resets, invites, settled>>
    BY <1>4 DEF Issue
  <2>2. CASE UNCHANGED creds
    BY <1>1, <1>2, <2>1, <2>2, Untouched
  <2>3. CASE Exists(reqs[p].actor) /\ Inserted(reqs[p].actor, kind)
    <3>1. reqs[p].actor \in User /\ reqs[p].op \notin Unserved
      <4>1. /\ Good(reqs[p]) /\ s \in Stmts(reqs[p].plan)
            /\ reqs[p].op # "none" /\ reqs[p].op # "boot" /\ reqs[p].op # "operator"
        BY <1>4, AtStatement DEF Issue, Beginnings, OperatorStmts
      <4> QED BY <1>4, <4>1 DEF Good, Provided, Unserved
    <3>2. creds' \in [Cred -> CredRow] /\ CredsMove
      BY <1>4, <2>3, <3>1, InsertedCred DEF CredsMove
    <3> QED BY <1>2, <2>1, <3>1, <3>2
  <2> QED BY <1>4, <2>2, <2>3 DEF Issue
<1>5. CASE IssueSession(p) \/ IssueToken(p)
  BY <1>4, <1>5 DEF IssueSession, IssueToken
<1>6. CASE Logout(p) \/ RevokeSession(p) \/ RevokeToken(p)
  <2>1. ASSUME NEW s, NEW c, RevokeOwn(p, s, c) PROVE RowsOK' /\ Routine
    <3>1. creds' \in [Cred -> CredRow] /\ CredsStay
      BY <2>1, RevokedCred DEF RevokeOwn
    <3> QED BY <1>2, <1>3, <2>1, <3>1 DEF RevokeOwn
  <2> QED BY <1>6, <2>1 DEF Logout, RevokeSession, RevokeToken
<1>7. CASE RevokeSessions(p) \/ RevokeTokens(p)
  <2>1. ASSUME NEW s, NEW kind, RevokeAll(p, s, kind) PROVE RowsOK' /\ Routine
    <3>1. creds' \in [Cred -> CredRow] /\ CredsStay
      BY <2>1, RevokedCreds DEF RevokeAll
    <3> QED BY <1>2, <1>3, <2>1, <3>1 DEF RevokeAll
  <2> QED BY <1>7, <2>1 DEF RevokeSessions, RevokeTokens
<1>8. CASE DeleteSessions(p) \/ DeleteTokens(p)
  <2>1. ASSUME NEW s \in {"delete_sessions", "delete_tokens"}, NEW kind, DeleteAll(p, s, kind)
        PROVE  RowsOK' /\ Routine
    <3>1. reqs[p].target \in User
      <4>1. Good(reqs[p]) /\ s \in Stmts(reqs[p].plan)
        BY <2>1, AtStatement DEF DeleteAll
      <4> QED BY <2>1, <4>1 DEF Good, Provided
    <3>2. creds' \in [Cred -> CredRow] /\ CredsStay
      BY <2>1, <3>1, DeletedCredsStay DEF DeleteAll
    <3> QED BY <1>2, <1>3, <2>1, <3>2 DEF DeleteAll
  <2> QED BY <1>8, <2>1 DEF DeleteSessions, DeleteTokens
<1> QED BY <1>5, <1>6, <1>7, <1>8

(* Every other step changes the password of one user: with its credentials  *)
(* revoked, or as the operator's first statement.                           *)
PasswordChanged(p, u) ==
  /\ \A w \in User : /\ w # u => users'[w] = users[w]
                     /\ users'[w].state = users[w].state /\ users'[w].role = users[w].role
  /\ CredsStay /\ owner' = owner /\ replaced' = replaced /\ booted' = booted
  /\ \/ /\ \A c \in Cred : creds[c].user = u => creds'[c].state # "live"
        /\ halfReset' = halfReset \ {u} /\ reqs[p].op \notin Unserved
     \/ SetPassword(p) /\ u = reqs[p].target /\ halfReset' = halfReset

LEMMA PasswordRowsStep ==
  ASSUME RowsOK, RequestsOK, NEW p \in Proc, ChangePassword(p) \/ RedeemReset(p) \/ SetPassword(p)
  PROVE  RowsOK' /\ (Routine \/ \E u : PasswordChanged(p, u))
<1>1. /\ users \in [User -> UserRow] /\ owner \in User \cup {NoUser} /\ booted \in BOOLEAN
      /\ creds \in [Cred -> CredRow] /\ resets \in [Reset -> ResetRow]
      /\ invites \in [Invite -> InviteRow]
      /\ halfReset \subseteq User /\ replaced \in BOOLEAN /\ begun \in 0 .. MaxRequests
  BY DEF RowsOK
<1> DEFINE u == reqs[p].target
<1>2. ASSUME users' = users \/ (users[u].pwd < MaxPasswords /\ users' = WithPassword(u))
      PROVE  /\ users' \in [User -> UserRow]
             /\ \A w \in User : /\ w # u => users'[w] = users[w]
                                /\ users'[w].state = users[w].state /\ users'[w].role = users[w].role
  BY <1>1, <1>2, PasswordRows
<1>3. ASSUME creds' = Revoked(u, {"session", "device"})
      PROVE  /\ creds' \in [Cred -> CredRow] /\ CredsStay
             /\ \A c \in Cred : creds[c].user = u => creds'[c].state # "live"
  <2>1. \A c \in Cred : creds[c].kind \in {"session", "device"}
    BY <1>1 DEF CredRow
  <2> QED BY <1>3, <2>1, RevokedCreds
<1>4. CASE ChangePassword(p)
  <2>1. reqs[p].op \notin Unserved
    BY <1>4, AtStatement DEF ChangePassword, Beginnings, OperatorStmts, Unserved
  <2>2. /\ users[u].pwd < MaxPasswords
        /\ users' = users \/ users' = WithPassword(u)
        /\ creds' = Revoked(u, {"session", "device"}) /\ halfReset' = halfReset \ {u}
        /\ UNCHANGED <<owner, booted, resets, invites, replaced, begun>>
    BY <1>4 DEF ChangePassword
  <2>3. RowsOK'
    BY <1>1, <1>2, <1>3, <2>2 DEF RowsOK
  <2>4. PasswordChanged(p, u)
    BY <1>2, <1>3, <2>1, <2>2 DEF PasswordChanged
  <2> QED BY <2>3, <2>4
<1>5. CASE RedeemReset(p)
  <2>1. reqs[p].op \notin Unserved
    BY <1>5, AtStatement DEF RedeemReset, Beginnings, OperatorStmts, Unserved
  <2>2. UNCHANGED <<owner, booted, invites, replaced, begun>>
    BY <1>5 DEF RedeemReset
  <2>3. CASE UNCHANGED <<resets, users, creds, halfReset>>
    <3>1. RowsOK'
      BY <1>1, <2>2, <2>3 DEF RowsOK
    <3> QED BY <2>3, <3>1, Untouched DEF Routine
  <2>4. CASE /\ users[u].pwd < MaxPasswords
             /\ resets' = [resets EXCEPT ![reqs[p].reset].state = "used", ![reqs[p].reset].uses = @ + 1]
             /\ users' = WithPassword(u)
             /\ creds' = Revoked(u, {"session", "device"})
             /\ halfReset' = halfReset \ {u}
    <3> DEFINE t == reqs[p].reset
    <3>1. resets' \in [Reset -> ResetRow]
      <4>1. CASE t \in Reset
        <5>1. resets[t] \in ResetRow /\ resets[t].uses \in Nat
          BY <4>1, RowFields
        <5>2. [[resets[t] EXCEPT !.state = "used"] EXCEPT !.uses = resets[t].uses + 1] \in ResetRow
          BY <5>1, UsedRows
        <5>3. resets' = [resets EXCEPT ![t] = [[resets[t] EXCEPT !.state = "used"] EXCEPT !.uses = resets[t].uses + 1]]
          BY <1>1, <2>4, <4>1, <5>1 DEF ResetRow
        <5> QED BY <1>1, <5>2, <5>3
      <4>2. CASE t \notin Reset
        BY <1>1, <2>4, <4>2
      <4> QED BY <4>1, <4>2
    <3>2. RowsOK'
      BY <1>1, <1>2, <1>3, <2>2, <2>4, <3>1 DEF RowsOK
    <3>3. PasswordChanged(p, u)
      BY <1>2, <1>3, <2>1, <2>2, <2>4 DEF PasswordChanged
    <3> QED BY <3>2, <3>3
  <2> QED BY <1>5, <2>3, <2>4 DEF RedeemReset
<1>6. CASE SetPassword(p)
  <2>1. /\ users[u].pwd < MaxPasswords
        /\ users' = users \/ users' = WithPassword(u)
        /\ UNCHANGED <<creds, resets, invites, owner, booted, halfReset, replaced, begun>>
    BY <1>6 DEF SetPassword, settled
  <2>2. RowsOK'
    BY <1>1, <1>2, <2>1 DEF RowsOK
  <2>3. CredsStay
    BY <2>1 DEF CredsStay, Keeps
  <2>4. PasswordChanged(p, u)
    BY <1>2, <1>6, <2>1, <2>3 DEF PasswordChanged
  <2> QED BY <2>2, <2>4
<1> QED BY <1>4, <1>5, <1>6

-----------------------------------------------------------------------------
(* The types *)

(* What any step does to the rows.                                          *)
LEMMA RowStep ==
  ASSUME RowsOK, RequestsOK, CredsOwned, [Next]_vars
  PROVE  RowsOK' /\ (Routine \/ \E p \in Proc : \E u : PasswordChanged(p, u))
<1>1. CASE UNCHANGED vars
  <2>1. RowsOK'
    BY <1>1 DEF vars, RowsOK
  <2> QED BY <1>1, <2>1, Untouched DEF vars, Routine
<1>2. ASSUME NEW t \in Reset, ExpireReset(t) PROVE RowsOK' /\ Routine
  <2>1. [resets EXCEPT ![t].state = "expired"] \in [Reset -> ResetRow]
    BY DEF RowsOK, ResetRow
  <2>2. RowsOK'
    BY <1>2, <2>1 DEF ExpireReset, settled, RowsOK
  <2> QED BY <1>2, <2>2, Untouched DEF ExpireReset, settled, Routine
<1>3. ASSUME NEW t \in Invite, ExpireInvite(t) PROVE RowsOK' /\ Routine
  <2>1. [invites EXCEPT ![t].state = "expired"] \in [Invite -> InviteRow]
    BY DEF RowsOK, InviteRow
  <2>2. RowsOK'
    BY <1>3, <2>1 DEF ExpireInvite, settled, RowsOK
  <2> QED BY <1>3, <2>2, Untouched DEF ExpireInvite, settled, Routine
<1>4. ASSUME NEW p \in Proc,
         \/ Boot(p) \/ FindOwner(p) \/ LookForAdmin(p) \/ SetOwner(p) \/ Admit(p) \/ ReadTarget(p)
         \/ \E u \in User : \/ Login(p, u) \/ ConnectDevice(p, u)
                            \/ \E keep \in BOOLEAN : OperatorReset(p, u, keep)
         \/ \E c \in Cred : Present(p, c)
         \/ \E t \in Invite : FollowInvite(p, t) \/ \E claimed \in BOOLEAN : PresentInvite(p, t, claimed)
         \/ \E t \in Reset : PresentReset(p, t)
         \/ DeleteResets(p) \/ ClearCreatedBy(p) \/ InsertInvite(p) \/ Mail(p) \/ Claim(p)
         \/ InsertReset(p) \/ Fail(p)
      PROVE  RowsOK' /\ Routine
  BY <1>4, OtherRows
<1>5. ASSUME NEW p \in Proc,
         \/ CreateOwner(p) \/ WriteProfile(p) \/ Disable(p) \/ Enable(p)
         \/ DeleteUser(p) \/ InsertUser(p) \/ RedeemInvite(p)
      PROVE  RowsOK' /\ Routine
  BY <1>5, UserRows
<1>6. ASSUME NEW p \in Proc,
         \/ IssueSession(p) \/ IssueToken(p)
         \/ Logout(p) \/ RevokeSession(p) \/ RevokeToken(p)
         \/ RevokeSessions(p) \/ RevokeTokens(p) \/ DeleteSessions(p) \/ DeleteTokens(p)
      PROVE  RowsOK' /\ Routine
  BY <1>6, CredRows
<1>7. ASSUME NEW p \in Proc, ChangePassword(p) \/ RedeemReset(p) \/ SetPassword(p)
      PROVE  RowsOK' /\ (Routine \/ \E u : PasswordChanged(p, u))
  BY <1>7, PasswordRowsStep
<1> QED BY <1>1, <1>2, <1>3, <1>4, <1>5, <1>6, <1>7 DEF Next

LEMMA OwnedStep ==
  ASSUME RowsOK, RequestsOK, CredsOwned, RowsOK', RequestsOK', Arrivals,
         Routine \/ \E p \in Proc : \E u : PasswordChanged(p, u)
  PROVE  CredsOwned'
<1>1. /\ CredsMove
      /\ \A u \in User : users[u].state # "unborn" => users'[u].state # "unborn"
  BY DEF Routine, UsersStay, PasswordChanged, CredsStay, CredsMove
<1>2. ASSUME NEW c \in Cred
      PROVE  IF creds'[c].state = "free" THEN creds'[c].user = NoUser
             ELSE creds'[c].user \in User /\ users'[creds'[c].user].state # "unborn"
  BY <1>1 DEF CredsOwned, CredsMove, Keeps, Issued
<1>3. ASSUME NEW c \in Cred, creds[c].state # "free" PROVE creds'[c].state # "free"
  BY <1>1, <1>3 DEF CredsMove, Keeps, Issued
<1>4. ASSUME NEW q \in Proc, Starts(reqs'[q], "admit") PROVE creds'[reqs'[q].cred].state # "free"
  <2>1. CASE reqs'[q] = reqs[q]
    <3>1. Good(reqs[q]) /\ At(q, "admit")
      BY <1>4, <2>1 DEF RequestsOK, At, Starts
    <3>2. reqs[q].cred \in Cred /\ creds[reqs[q].cred].state # "free"
      BY <1>4, <2>1, <3>1 DEF CredsOwned, Good, Provided
    <3> QED BY <1>3, <2>1, <3>2
  <2>2. CASE reqs'[q] # reqs[q]
    <3>1. ~Fresh(reqs'[q]) /\ ~Starts(reqs'[q], "set_owner")
      BY <1>4 DEF Starts, Fresh, Doors
    <3>2. \E c \in Cred : creds[c].state = "live" /\ creds' = creds /\ reqs'[q].cred = c
      BY <1>4, <2>2, <3>1 DEF Arrivals
    <3> QED BY <3>2
  <2> QED BY <2>1, <2>2
<1> QED BY <1>2, <1>4 DEF CredsOwned, At, Starts

LEMMA TypeInit ==
  ASSUME Init
  PROVE  RowsOK /\ RequestsOK /\ CredsOwned
<1> USE AccountsAssumption
<1>1. PICK roles \in InitialRoles, inUse \in BOOLEAN :
       /\ inUse => roles # <<>> /\ roles[1] = "admin"
       /\ users = [u \in User |->
                     [state |-> IF u <= Len(roles) THEN "active" ELSE "unborn",
                      role |-> IF u <= Len(roles) THEN roles[u] ELSE "user",
                      boot |-> FALSE, pwd |-> 0]]
       /\ owner = (IF inUse THEN 1 ELSE NoUser) /\ booted = inUse
       /\ creds = [c \in Cred |->
                     [state |-> IF inUse /\ c <= Len(roles) THEN "live" ELSE "free",
                      user |-> IF inUse /\ c <= Len(roles) THEN c ELSE NoUser,
                      kind |-> "session", at |-> 0]]
  BY DEF Init
<1>2. /\ roles \in Seq(Roles) /\ Len(roles) \in Nat /\ Len(roles) <= MaxUsers
      /\ Len(roles) <= MaxCreds
      /\ \A u \in User : u <= Len(roles) => roles[u] \in Roles
  BY DEF Roles, User
<1>3. users \in [User -> UserRow]
  BY <1>1, <1>2 DEF UserRow, Roles
<1>4. owner \in User \cup {NoUser} /\ booted \in BOOLEAN
  <2>1. CASE inUse
    <3>1. Len(roles) >= 1
      BY <1>1, <1>2, <2>1
    <3> QED BY <1>1, <1>2, <2>1, <3>1 DEF User
  <2>2. CASE ~inUse
    BY <1>1, <2>2
  <2> QED BY <2>1, <2>2
<1>5. \A c \in Cred : c <= Len(roles) => c \in User
  BY <1>2 DEF Cred, User
<1>6. creds \in [Cred -> CredRow]
  BY <1>1, <1>5 DEF CredRow
<1>7. /\ resets \in [Reset -> ResetRow] /\ invites \in [Invite -> InviteRow]
      /\ halfReset = {} /\ replaced = FALSE /\ reqs = [p \in Proc |-> Idle] /\ begun = 0
  BY DEF Init, ResetRow, InviteRow, Roles
<1>8. RowsOK
  <2>1. 0 \in 0 .. MaxRequests
    OBVIOUS
  <2>2. begun \in 0 .. MaxRequests /\ halfReset \subseteq User /\ replaced \in BOOLEAN
    BY <1>7, <2>1
  <2> QED BY <1>3, <1>4, <1>6, <1>7, <2>2 DEF RowsOK
<1>9. RequestsOK
  BY <1>7, IdleGood DEF RequestsOK, Good
<1>10. CredsOwned
  <2>1. ASSUME NEW c \in Cred
        PROVE  IF creds[c].state = "free" THEN creds[c].user = NoUser
               ELSE creds[c].user \in User /\ users[creds[c].user].state # "unborn"
    <3>1. CASE inUse /\ c <= Len(roles)
      BY <1>1, <1>5, <3>1
    <3>2. CASE ~(inUse /\ c <= Len(roles))
      BY <1>1, <3>2
    <3> QED BY <3>1, <3>2
  <2>2. \A p \in Proc : ~At(p, "admit")
    BY <1>7 DEF At, Idle
  <2> QED BY <2>1, <2>2 DEF CredsOwned
<1> QED BY <1>8, <1>9, <1>10

(* The inductive invariant of the types.                                    *)
TypeInv == RowsOK /\ RequestsOK /\ CredsOwned

LEMMA TypeStep ==
  ASSUME TypeInv, [Next]_vars
  PROVE  TypeInv'
<1>1. RowsOK' /\ (Routine \/ \E p \in Proc : \E u : PasswordChanged(p, u))
  BY RowStep DEF TypeInv
<1>2. RequestsOK' /\ Arrivals
  BY RequestStep DEF TypeInv
<1>3. CredsOwned'
  BY <1>1, <1>2, OwnedStep DEF TypeInv
<1> QED BY <1>1, <1>2, <1>3 DEF TypeInv

THEOREM AccountsTypeInvariant == Spec => []TypeInv
<1>1. Init => TypeInv
  BY TypeInit DEF TypeInv
<1>2. TypeInv /\ [Next]_vars => TypeInv'
  BY TypeStep
<1> QED BY <1>1, <1>2, PTL DEF Spec

(* Every row and every request has its type.                                *)
THEOREM TypeCorrect == Spec => []TypeOK
<1>1. TypeInv => TypeOK
  BY TypeParts DEF TypeInv, RequestsOK
<1> QED BY <1>1, AccountsTypeInvariant, PTL

-----------------------------------------------------------------------------
(* Links *)

(* A link that has been redeemed is no longer open, nor claimed, and its row *)
(* is not used for another.                                                *)
UnusedReset(row) == row.uses = 0 \/ (row.uses = 1 /\ row.state \notin {"free", "open"})
UnusedInvite(row) ==
  row.uses = 0 \/ (row.uses = 1 /\ row.state \notin {"free", "open", "claimed"})
FreshLinks == /\ \A t \in Reset : UnusedReset(resets[t])
              /\ \A t \in Invite : UnusedInvite(invites[t])

LEMMA LinksStep ==
  ASSUME RowsOK, RequestsOK, FreshLinks, [Next]_vars
  PROVE  FreshLinks'
<1>1. resets \in [Reset -> ResetRow] /\ invites \in [Invite -> InviteRow]
  BY DEF RowsOK
<1>2. CASE UNCHANGED <<resets, invites>>
  BY <1>2 DEF FreshLinks, UnusedReset, UnusedInvite
<1>3. ASSUME NEW t, NEW row, resets' = [resets EXCEPT ![t] = row], t \in Reset => UnusedReset(row),
             UNCHANGED invites
      PROVE  FreshLinks'
  BY <1>1, <1>3 DEF FreshLinks, UnusedReset, UnusedInvite
<1>4. ASSUME NEW t, NEW row, invites' = [invites EXCEPT ![t] = row],
             t \in Invite => UnusedInvite(row), UNCHANGED resets
      PROVE  FreshLinks'
  BY <1>1, <1>4 DEF FreshLinks, UnusedReset, UnusedInvite
<1>5. ASSUME NEW t \in Reset, NEW state \in {"deleted", "expired"}
      PROVE  UnusedReset([resets[t] EXCEPT !.state = state])
  BY <1>1 DEF FreshLinks, UnusedReset, ResetRow
<1>6. ASSUME NEW t \in Invite, NEW state \in {"deleted", "expired", "claimed"},
             state = "claimed" => invites[t].state = "open"
      PROVE  UnusedInvite([invites[t] EXCEPT !.state = state])
  BY <1>1, <1>6 DEF FreshLinks, UnusedInvite, InviteRow
<1>7. ASSUME NEW p \in Proc, DeleteResets(p) PROVE FreshLinks'
  <2>1. \A t \in Reset : resets'[t] \in {resets[t], [resets[t] EXCEPT !.state = "deleted"]}
    BY <1>7 DEF DeleteResets
  <2>2. \A t \in Reset : UnusedReset(resets'[t])
    BY <1>5, <2>1 DEF FreshLinks
  <2> QED BY <1>7, <2>2 DEF DeleteResets, FreshLinks, UnusedReset, UnusedInvite
<1>8. ASSUME NEW p \in Proc, ClearCreatedBy(p) PROVE FreshLinks'
  <2>1. \A t \in Invite : invites'[t].uses = invites[t].uses /\ invites'[t].state = invites[t].state
    BY <1>1, <1>8 DEF ClearCreatedBy, InviteRow
  <2> QED BY <1>8, <2>1 DEF ClearCreatedBy, FreshLinks, UnusedReset, UnusedInvite
<1>9. ASSUME NEW p \in Proc, InsertInvite(p) PROVE FreshLinks'
  <2>1. CASE UNCHANGED invites
    BY <1>2, <1>9, <2>1 DEF InsertInvite
  <2>2. ASSUME NEW t \in Invite,
               invites' = [invites EXCEPT ![t] = [state |-> "open", role |-> reqs[p].role,
                                                  by |-> reqs[p].actor, uses |-> 0]]
        PROVE  FreshLinks'
    <3> DEFINE row == [state |-> "open", role |-> reqs[p].role, by |-> reqs[p].actor, uses |-> 0]
    <3>1. row.uses = 0 /\ invites' = [invites EXCEPT ![t] = row]
      BY <2>2
    <3> HIDE DEF row
    <3>2. UnusedInvite(row)
      BY <3>1 DEF UnusedInvite
    <3> QED BY <1>4, <1>9, <3>1, <3>2 DEF InsertInvite
  <2> QED BY <1>9, <2>1, <2>2 DEF InsertInvite
<1>10. ASSUME NEW p \in Proc, InsertReset(p) PROVE FreshLinks'
  <2>1. CASE UNCHANGED resets
    BY <1>2, <1>10, <2>1 DEF InsertReset
  <2>2. ASSUME NEW t \in Reset,
               resets' = [resets EXCEPT ![t] = [state |-> "open", user |-> reqs[p].target,
                                                by |-> reqs[p].actor, uses |-> 0]]
        PROVE  FreshLinks'
    <3> DEFINE row == [state |-> "open", user |-> reqs[p].target, by |-> reqs[p].actor, uses |-> 0]
    <3>1. row.uses = 0 /\ resets' = [resets EXCEPT ![t] = row]
      BY <2>2
    <3> HIDE DEF row
    <3>2. UnusedReset(row)
      BY <3>1 DEF UnusedReset
    <3> QED BY <1>3, <1>10, <3>1, <3>2 DEF InsertReset
  <2> QED BY <1>10, <2>1, <2>2 DEF InsertReset
<1>11. ASSUME NEW p \in Proc, Mail(p) PROVE FreshLinks'
  <2>1. CASE UNCHANGED invites
    BY <1>2, <1>11, <2>1 DEF Mail
  <2>2. CASE invites' = [invites EXCEPT ![reqs[p].invite].state = "deleted"]
    <3>1. CASE reqs[p].invite \in Invite
      BY <1>4, <1>6, <1>11, <2>2, <3>1 DEF Mail
    <3>2. CASE reqs[p].invite \notin Invite
      BY <1>1, <1>2, <1>11, <2>2, <3>2 DEF Mail
    <3> QED BY <3>1, <3>2
  <2> QED BY <1>11, <2>1, <2>2 DEF Mail
<1>12. ASSUME NEW p \in Proc, Claim(p) PROVE FreshLinks'
  <2> DEFINE t == reqs[p].invite
  <2>1. CASE t \in Invite /\ invites[t].state = "open"
    <3>1. invites' = [invites EXCEPT ![t] = [invites[t] EXCEPT !.state = "claimed"]]
      BY <1>1, <1>12, <2>1 DEF Claim
    <3> QED BY <1>4, <1>6, <1>12, <2>1, <3>1 DEF Claim
  <2>2. CASE ~(t \in Invite /\ invites[t].state = "open")
    <3>1. invites' = invites
      BY <1>1, <1>12, <2>2 DEF Claim, InviteRow
    <3> QED BY <1>2, <1>12, <3>1 DEF Claim
  <2> QED BY <2>1, <2>2
<1>13. ASSUME NEW p \in Proc, RedeemInvite(p) PROVE FreshLinks'
  <2> DEFINE t == reqs[p].invite
  <2>1. CASE UNCHANGED invites
    BY <1>2, <1>13, <2>1 DEF RedeemInvite
  <2>2. CASE /\ Redeemable(t, reqs[p].claimed)
             /\ invites' = [invites EXCEPT ![t].state = "used", ![t].uses = @ + 1]
    <3>1. t \in Invite
      BY <1>13, AtStatement DEF RedeemInvite, Good, Provided
    <3>2. invites[t] \in InviteRow /\ invites[t].uses = 0
      BY <1>1, <2>2, <3>1 DEF Redeemable, FreshLinks, UnusedInvite
    <3>3. invites' = [invites EXCEPT ![t] = [[invites[t] EXCEPT !.state = "used"] EXCEPT !.uses = 1]]
      BY <1>1, <2>2, <3>1, <3>2 DEF InviteRow
    <3>4. UnusedInvite([[invites[t] EXCEPT !.state = "used"] EXCEPT !.uses = 1])
      BY <3>2 DEF UnusedInvite, InviteRow
    <3> QED BY <1>4, <1>13, <3>3, <3>4 DEF RedeemInvite
  <2> QED BY <1>13, <2>1, <2>2 DEF RedeemInvite
<1>14. ASSUME NEW p \in Proc, RedeemReset(p) PROVE FreshLinks'
  <2> DEFINE t == reqs[p].reset
  <2>1. CASE UNCHANGED resets
    BY <1>2, <1>14, <2>1 DEF RedeemReset
  <2>2. CASE /\ ResetIsOpen(t)
             /\ resets' = [resets EXCEPT ![t].state = "used", ![t].uses = @ + 1]
    <3>1. CASE t \in Reset
      <4>1. resets[t] \in ResetRow /\ resets[t].uses = 0
        BY <1>1, <2>2, <3>1 DEF ResetIsOpen, FreshLinks, UnusedReset
      <4>2. resets' = [resets EXCEPT ![t] = [[resets[t] EXCEPT !.state = "used"] EXCEPT !.uses = 1]]
        BY <1>1, <2>2, <3>1, <4>1 DEF ResetRow
      <4>3. UnusedReset([[resets[t] EXCEPT !.state = "used"] EXCEPT !.uses = 1])
        BY <4>1 DEF UnusedReset, ResetRow
      <4> QED BY <1>3, <1>14, <4>2, <4>3 DEF RedeemReset
    <3>2. CASE t \notin Reset
      BY <1>1, <1>2, <1>14, <2>2, <3>2 DEF RedeemReset
    <3> QED BY <3>1, <3>2
  <2> QED BY <1>14, <2>1, <2>2 DEF RedeemReset
<1>15. ASSUME NEW t \in Reset, ExpireReset(t) PROVE FreshLinks'
  BY <1>3, <1>5, <1>15 DEF ExpireReset
<1>16. ASSUME NEW t \in Invite, ExpireInvite(t) PROVE FreshLinks'
  BY <1>4, <1>6, <1>16 DEF ExpireInvite
<1>17. CASE UNCHANGED vars
  BY <1>2, <1>17 DEF vars
<1>18. ASSUME NEW p \in Proc,
         \/ Boot(p) \/ FindOwner(p) \/ LookForAdmin(p) \/ CreateOwner(p) \/ SetOwner(p)
         \/ \E u \in User : \/ Login(p, u) \/ ConnectDevice(p, u)
                            \/ \E keep \in BOOLEAN : OperatorReset(p, u, keep)
         \/ \E c \in Cred : Present(p, c)
         \/ \E t \in Invite : FollowInvite(p, t) \/ \E claimed \in BOOLEAN : PresentInvite(p, t, claimed)
         \/ \E t \in Reset : PresentReset(p, t)
       PROVE  UNCHANGED <<resets, invites>>
  BY <1>18 DEF Boot, FindOwner, LookForAdmin, CreateOwner, SetOwner, Login, ConnectDevice,
               OperatorReset, Present, FollowInvite, PresentInvite, PresentReset, Begin
<1>19. ASSUME NEW p \in Proc,
         \/ IssueSession(p) \/ IssueToken(p) \/ Admit(p) \/ ReadTarget(p)
         \/ Logout(p) \/ RevokeSession(p) \/ RevokeToken(p)
         \/ RevokeSessions(p) \/ RevokeTokens(p) \/ DeleteSessions(p) \/ DeleteTokens(p)
       PROVE  UNCHANGED <<resets, invites>>
  BY <1>19 DEF IssueSession, IssueToken, Issue, Admit, ReadTarget, Logout, RevokeSession,
               RevokeToken, RevokeOwn, RevokeSessions, RevokeTokens, RevokeAll,
               DeleteSessions, DeleteTokens, DeleteAll
<1>20. ASSUME NEW p \in Proc,
         \/ WriteProfile(p) \/ Disable(p) \/ Enable(p) \/ DeleteUser(p) \/ InsertUser(p)
         \/ ChangePassword(p) \/ SetPassword(p) \/ Fail(p)
       PROVE  UNCHANGED <<resets, invites>>
  BY <1>20 DEF WriteProfile, Disable, Enable, SetDisabled, DeleteUser, InsertUser,
               ChangePassword, SetPassword, Fail
<1> QED
  BY <1>2, <1>7, <1>8, <1>9, <1>10, <1>11, <1>12, <1>13, <1>14, <1>15, <1>16, <1>17, <1>18,
     <1>19, <1>20 DEF Next

(* However a redemption is raced, delayed or retried, a reset link changes   *)
(* one password and an invitation makes one account.                        *)
THEOREM LinksAlwaysWorkOnce == Spec => []LinksWorkOnce
<1>1. Init => FreshLinks
  BY DEF Init, FreshLinks, UnusedReset, UnusedInvite
<1>2. TypeInv /\ FreshLinks /\ [Next]_vars => FreshLinks'
  BY LinksStep DEF TypeInv
<1>3. FreshLinks => LinksWorkOnce
  BY DEF FreshLinks, UnusedReset, UnusedInvite, LinksWorkOnce
<1> QED BY <1>1, <1>2, <1>3, AccountsTypeInvariant, PTL DEF Spec

-----------------------------------------------------------------------------
(* Passwords *)

(* An operator's request moves by a statement of its own, or stops.         *)
LEMMA OperatorMoves ==
  ASSUME RowsOK, RequestsOK, CredsOwned, [Next]_vars,
         NEW p \in Proc, reqs[p].op = "operator", reqs'[p] # reqs[p]
  PROVE  \/ SetPassword(p) \/ Enable(p) \/ RevokeSessions(p) \/ RevokeTokens(p)
         \/ DeleteResets(p) \/ Fail(p)
<1> DEFINE Operating == \/ SetPassword(p) \/ Enable(p) \/ RevokeSessions(p) \/ RevokeTokens(p)
                        \/ DeleteResets(p) \/ Fail(p)
<1>1. ASSUME NEW q \in Proc, NEW r, Goes(q, r), reqs[q].op # "operator" PROVE FALSE
  BY <1>1, Goings
<1>2. ASSUME NEW q \in Proc, Proceeds(q) PROVE q = p
  <2>1. PICK r : Goes(q, r)
    BY <1>2 DEF Proceeds
  <2> QED BY <2>1, Goings
<1>3. ASSUME NEW q \in Proc, NEW r, Begin(q, r), Proceeds(q) PROVE FALSE
  <2>1. reqs[q].op # "operator"
    BY <1>3 DEF Begin, RequestsOK, Good, Planned
  <2> QED BY <1>2, <1>3, <2>1
<1>4. ASSUME NEW q \in Proc, NEW s, At(q, s), s \notin OperatorStmts, Proceeds(q) PROVE FALSE
  <2>1. reqs[q].op # "operator"
    BY <1>4, AtStatement
  <2> QED BY <1>2, <1>4, <2>1
<1>5. CASE UNCHANGED vars
  BY <1>5 DEF vars
<1>6. ASSUME NEW t, ExpireReset(t) \/ ExpireInvite(t) PROVE FALSE
  BY <1>6 DEF ExpireReset, ExpireInvite
<1>7. ASSUME NEW q \in Proc, Boot(q) PROVE FALSE
  BY <1>3, <1>7, BootSteps DEF Boot
<1>8. ASSUME NEW q \in Proc, FindOwner(q) \/ SetOwner(q) PROVE FALSE
  BY <1>4, <1>8, BootSteps DEF FindOwner, SetOwner, OperatorStmts
<1>9. ASSUME NEW q \in Proc, LookForAdmin(q) \/ CreateOwner(q) PROVE FALSE
  <2>1. reqs[q].op # "operator"
    <3>1. At(q, "first_admin") \/ At(q, "create_owner")
      BY <1>9 DEF LookForAdmin, CreateOwner
    <3> QED BY <3>1, AtStatement DEF OperatorStmts
  <2>2. \E r : Goes(q, r)
    BY <1>9, BootSteps
  <2> QED BY <1>1, <2>1, <2>2
<1>10. ASSUME NEW q \in Proc, NEW u \in User,
              \/ Login(q, u) \/ ConnectDevice(q, u)
              \/ \E keep \in BOOLEAN : OperatorReset(q, u, keep)
       PROVE  FALSE
  <2>1. Proceeds(q)
    BY <1>10, BeginSteps, OperatorSteps
  <2> QED BY <1>3, <1>10, <2>1 DEF Login, ConnectDevice, OperatorReset
<1>11. ASSUME NEW q \in Proc, NEW c \in Cred, Present(q, c) PROVE FALSE
  <2>1. \E r : Goes(q, r)
    BY <1>11, BeginSteps
  <2>2. reqs[q].op # "operator"
    BY <1>11 DEF Present, Begin, RequestsOK, Good, Planned
  <2> QED BY <1>1, <2>1, <2>2
<1>12. ASSUME NEW q \in Proc,
              \/ \E t \in Invite : \/ FollowInvite(q, t)
                                   \/ \E claimed \in BOOLEAN : PresentInvite(q, t, claimed)
              \/ \E t \in Reset : PresentReset(q, t)
       PROVE  FALSE
  <2>1. Proceeds(q)
    BY <1>12, BeginSteps
  <2> QED BY <1>3, <1>12, <2>1 DEF FollowInvite, PresentInvite, PresentReset
<1>13. ASSUME NEW q \in Proc, Admit(q) \/ InsertInvite(q) PROVE FALSE
  <2>1. Proceeds(q)
    BY <1>13, AdmitStep, InviteStep
  <2>2. At(q, "admit") \/ At(q, "insert_invite")
    BY <1>13 DEF Admit, InsertInvite
  <2> QED BY <1>4, <2>1, <2>2 DEF OperatorStmts
<1>14. ASSUME NEW q \in Proc, ReadTarget(q) PROVE FALSE
  <2>1. \E r : Goes(q, r)
    BY <1>14, TargetStep
  <2>2. reqs[q].op # "operator"
    <3>1. At(q, "read_target")
      BY <1>14 DEF ReadTarget
    <3> QED BY <3>1, AtStatement DEF OperatorStmts
  <2> QED BY <1>1, <2>1, <2>2
<1>15. ASSUME NEW q \in Proc,
              \/ Logout(q) \/ RevokeSession(q) \/ RevokeToken(q) \/ ChangePassword(q)
              \/ WriteProfile(q) \/ Disable(q) \/ DeleteSessions(q) \/ DeleteTokens(q)
              \/ ClearCreatedBy(q) \/ InsertUser(q)
       PROVE  FALSE
  <2>1. Proceeds(q)
    BY <1>15, AdvanceSteps
  <2>2. \E s \in {"logout", "revoke_session", "revoke_token", "change", "write", "disable",
                  "delete_sessions", "delete_tokens", "clear_created_by", "insert_user"} : At(q, s)
    BY <1>15 DEF Logout, RevokeSession, RevokeToken, RevokeOwn, ChangePassword, WriteProfile,
                 Disable, SetDisabled, DeleteSessions, DeleteTokens, DeleteAll, ClearCreatedBy,
                 InsertUser
  <2> QED BY <1>4, <2>1, <2>2 DEF OperatorStmts
<1>16. ASSUME NEW q \in Proc,
              \/ IssueSession(q) \/ IssueToken(q) \/ DeleteUser(q) \/ Mail(q) \/ InsertReset(q)
              \/ Claim(q) \/ RedeemInvite(q) \/ RedeemReset(q)
       PROVE  FALSE
  <2>1. Proceeds(q)
    BY <1>16, EndSteps
  <2>2. \E s \in {"issue_session", "issue_token", "delete_user", "mail", "insert_reset", "claim",
                  "redeem_invite", "redeem_reset"} : At(q, s)
    BY <1>16 DEF IssueSession, IssueToken, Issue, DeleteUser, Mail, InsertReset, Claim,
                 RedeemInvite, RedeemReset
  <2> QED BY <1>4, <2>1, <2>2 DEF OperatorStmts
<1>17. ASSUME NEW q \in Proc,
              \/ SetPassword(q) \/ Enable(q) \/ RevokeSessions(q) \/ RevokeTokens(q)
              \/ DeleteResets(q) \/ Fail(q)
       PROVE  Operating
  <2>1. Proceeds(q)
    BY <1>17, AdvanceSteps, EndSteps
  <2>2. q = p
    BY <1>2, <2>1
  <2> QED BY <1>17, <2>2
<1> QED
  BY <1>5, <1>6, <1>7, <1>8, <1>9, <1>10, <1>11, <1>12, <1>13, <1>14, <1>15, <1>16, <1>17 DEF Next

(* The statement that ends a credential of a kind.                          *)
Revocation(kind) == IF kind = "session" THEN "revoke_sessions" ELSE "revoke_tokens"

(* An operator's reset that has written the password of the user of a        *)
(* credential and has yet to revoke it.                                    *)
Pending(p, u, kind) ==
  Midway(p) /\ reqs[p].target = u /\ Revocation(kind) \in Stmts(reqs[p].plan)

(* A live credential is of a user that has been created, and is as old as   *)
(* the password, or some reset by the operator is still to revoke it, or    *)
(* would have, had it not stopped.                                         *)
PasswordInv ==
  \A c \in Cred : creds[c].state = "live" =>
    LET u == creds[c].user
    IN \/ creds[c].at = users[u].pwd
       \/ u \in halfReset
       \/ \E p \in Proc : Pending(p, u, creds[c].kind)

(* What an operator's request has still to revoke after a statement.        *)
LEMMA StillPending ==
  ASSUME RequestsOK, NEW p \in Proc, NEW s, At(p, s), Advance(p), reqs[p].op = "operator",
         NEW kind, Revocation(kind) \in After(reqs[p].plan), "set_password" \notin After(reqs[p].plan)
  PROVE  /\ reqs'[p].op = "operator" /\ reqs'[p].target = reqs[p].target
         /\ ~Starts(reqs'[p], "set_password")
         /\ Revocation(kind) \in Stmts(reqs'[p].plan)
<1>1. reqs[p] \in RequestRow /\ reqs[p].plan \in Seq(Statement) /\ reqs[p].plan # <<>>
  BY AtStatement
<1>2. Len(reqs[p].plan) # 1
  BY <1>1, TailStmts
<1>3. /\ Stmts(Tail(reqs[p].plan)) = After(reqs[p].plan)
      /\ Head(Tail(reqs[p].plan)) \in After(reqs[p].plan)
  BY <1>1, <1>2, TailStmts
<1>4. /\ reqs'[p].plan = Tail(reqs[p].plan) /\ reqs'[p].op = reqs[p].op
      /\ reqs'[p].target = reqs[p].target
  BY <1>1, <1>2 DEF Advance, Continue, RequestsOK, RequestRow
<1> QED BY <1>3, <1>4 DEF Starts

LEMMA PendingStep ==
  ASSUME TypeInv, [Next]_vars, NEW p \in Proc, NEW c \in Cred, Keeps(c), creds'[c].state = "live",
         Pending(p, creds[c].user, creds[c].kind)
  PROVE  \/ Pending(p, creds[c].user, creds[c].kind)'
         \/ creds[c].user \in halfReset'
<1> DEFINE u == creds[c].user
           kind == creds[c].kind
<1>a. RowsOK /\ RequestsOK /\ CredsOwned
  BY DEF TypeInv
<1>b. creds'[c].user = u /\ creds'[c].kind = kind
  BY DEF Keeps
<1>1. CASE reqs'[p] = reqs[p]
  BY <1>1, <1>b DEF Pending, Midway, At, Revocation
<1>2. CASE reqs'[p] # reqs[p]
  <2>1. reqs[p].op = "operator" /\ reqs[p].target = u /\ ~At(p, "set_password")
    BY DEF Pending, Midway
  <2>2. \/ SetPassword(p) \/ Enable(p) \/ RevokeSessions(p) \/ RevokeTokens(p)
        \/ DeleteResets(p) \/ Fail(p)
    BY <1>a, <1>2, <2>1, OperatorMoves
  <2>3. ~SetPassword(p)
    BY <2>1 DEF SetPassword
  <2>4. CASE Fail(p)
    BY <2>1, <2>4 DEF Fail, Midway
  <2>5. ASSUME NEW s, At(p, s), Advance(p), s # Revocation(kind)
        PROVE  Pending(p, creds[c].user, creds[c].kind)'
    <3>1. /\ reqs[p].plan \in Seq(Statement) /\ reqs[p].plan # <<>> /\ s = Head(reqs[p].plan)
          /\ Good(reqs[p])
      BY <1>a, <2>5, AtStatement
    <3>2. /\ Revocation(kind) \in After(reqs[p].plan)
          /\ "set_password" \notin After(reqs[p].plan)
      <4>1. Revocation(kind) \in Stmts(reqs[p].plan)
        BY DEF Pending
      <4>2. Stmts(reqs[p].plan) = {Head(reqs[p].plan)} \cup After(reqs[p].plan)
        BY <3>1, TailStmts
      <4>3. "set_password" \notin After(reqs[p].plan)
        BY <2>1, <3>1 DEF Good, Planned
      <4> QED BY <2>5, <3>1, <4>1, <4>2, <4>3
    <3>3. /\ reqs'[p].op = "operator" /\ reqs'[p].target = u
          /\ ~Starts(reqs'[p], "set_password")
          /\ Revocation(kind) \in Stmts(reqs'[p].plan)
      BY <1>a, <2>1, <2>5, <3>2, StillPending
    <3> QED BY <1>b, <3>3 DEF Pending, Midway, At, Starts, Revocation
  <2>6. CASE Enable(p) \/ DeleteResets(p)
    BY <2>5, <2>6 DEF Enable, SetDisabled, DeleteResets, Revocation
  <2>7. CASE RevokeSessions(p)
    <3>1. CASE kind = "session"
      <4>1. creds' = Revoked(u, {"session"})
        BY <2>1, <2>7 DEF RevokeSessions, RevokeAll
      <4>2. creds'[c].state # "live"
        BY <1>a, <3>1, <4>1, RevokedCreds
      <4> QED BY <4>2
    <3>2. CASE kind # "session"
      BY <2>5, <2>7, <3>2 DEF RevokeSessions, RevokeAll, Revocation
    <3> QED BY <3>1, <3>2
  <2>8. CASE RevokeTokens(p)
    <3>1. CASE kind = "session"
      BY <2>5, <2>8, <3>1 DEF RevokeTokens, RevokeAll, Revocation
    <3>2. CASE kind # "session"
      <4>1. kind = "device"
        BY <1>a, <3>2 DEF RowsOK, CredRow
      <4>2. creds' = Revoked(u, {"device"})
        BY <2>1, <2>8 DEF RevokeTokens, RevokeAll
      <4>3. creds'[c].state # "live"
        BY <1>a, <4>1, <4>2, RevokedCreds
      <4> QED BY <4>3
    <3> QED BY <3>1, <3>2
  <2> QED BY <2>2, <2>3, <2>4, <2>6, <2>7, <2>8
<1> QED BY <1>1, <1>2

(* The operator's first statement leaves both revocations to come.          *)
LEMMA SetPending ==
  ASSUME TypeInv, NEW p \in Proc, SetPassword(p), NEW u, u = reqs[p].target,
         NEW kind \in {"session", "device"}
  PROVE  Pending(p, u, kind)'
<1>1. RequestsOK /\ At(p, "set_password") /\ Advance(p)
  BY DEF TypeInv, SetPassword
<1>2. Good(reqs[p]) /\ Starts(reqs[p], "set_password") /\ reqs[p].op = "operator"
  BY <1>1, AtStatement
<1>3. /\ "set_password" \notin After(reqs[p].plan)
      /\ Revocation(kind) \in After(reqs[p].plan)
  BY <1>2 DEF Good, Planned, Revocation
<1>4. /\ reqs'[p].op = "operator" /\ reqs'[p].target = u
      /\ ~Starts(reqs'[p], "set_password")
      /\ Revocation(kind) \in Stmts(reqs'[p].plan)
  BY <1>1, <1>2, <1>3, StillPending
<1> QED BY <1>4 DEF Pending, Midway, At, Starts, Revocation

LEMMA PasswordStep ==
  ASSUME TypeInv, PasswordInv, [Next]_vars
  PROVE  PasswordInv'
<1>1. RowsOK /\ RequestsOK /\ CredsOwned
  BY DEF TypeInv
<1>2. Routine \/ \E p \in Proc : \E u : PasswordChanged(p, u)
  BY <1>1, RowStep
<1> SUFFICES ASSUME NEW c \in Cred, creds'[c].state = "live"
             PROVE  \/ creds'[c].at = users'[creds'[c].user].pwd
                    \/ creds'[c].user \in halfReset'
                    \/ \E p \in Proc : Pending(p, creds[c].user, creds[c].kind)'
  BY DEF PasswordInv
<1> DEFINE u == creds[c].user
           kind == creds[c].kind
<1>3. ASSUME Issued(c), Routine
      PROVE  creds'[c].at = users'[creds'[c].user].pwd
  BY <1>3 DEF Issued, Routine, UsersStay
<1>4. ASSUME Keeps(c)
      PROVE  /\ creds[c].state = "live" /\ creds'[c].user = u /\ creds'[c].kind = kind
             /\ creds'[c].at = creds[c].at /\ u \in User /\ users[u].state # "unborn"
             /\ \/ creds[c].at = users[u].pwd
                \/ u \in halfReset
                \/ \E p \in Proc : Pending(p, u, kind)
  <2>1. creds[c].state = "live"
    BY <1>4 DEF Keeps
  <2> QED BY <1>1, <1>4, <2>1 DEF Keeps, CredsOwned, PasswordInv
<1>5. ASSUME Keeps(c), NEW p \in Proc, Pending(p, u, kind)
      PROVE  Pending(p, creds[c].user, creds[c].kind)' \/ u \in halfReset'
  BY <1>5, PendingStep
<1>6. CASE Routine /\ Keeps(c)
  <2>1. users'[u].pwd = users[u].pwd /\ halfReset \subseteq halfReset'
    BY <1>4, <1>6 DEF Routine, UsersStay
  <2> QED BY <1>4, <1>5, <1>6, <2>1
<1>7. ASSUME NEW p \in Proc, NEW w, PasswordChanged(p, w)
      PROVE  \/ creds'[c].at = users'[creds'[c].user].pwd
             \/ creds'[c].user \in halfReset'
             \/ \E q \in Proc : Pending(q, creds[c].user, creds[c].kind)'
  <2>1. Keeps(c)
    BY <1>7 DEF PasswordChanged, CredsStay
  <2>2. CASE u # w
    <3>1. users'[u] = users[u] /\ (u \in halfReset => u \in halfReset')
      BY <1>4, <1>7, <2>1, <2>2 DEF PasswordChanged
    <3> QED BY <1>4, <1>5, <2>1, <3>1
  <2>3. CASE u = w
    <3>1. SetPassword(p) /\ w = reqs[p].target
      BY <1>7, <2>3 DEF PasswordChanged
    <3>2. kind \in {"session", "device"}
      BY <1>1 DEF RowsOK, CredRow
    <3>3. PICK k \in {"session", "device"} : k = kind
      BY <3>2
    <3>4. Pending(p, w, k)'
      BY <3>1, SetPending
    <3> QED BY <1>4, <2>1, <2>3, <3>3, <3>4 DEF Pending, Revocation
  <2> QED BY <2>2, <2>3
<1> QED BY <1>2, <1>3, <1>6, <1>7 DEF Routine, CredsMove

(* A password change, whoever makes it, ends every credential there was,    *)
(* but for the time the operator's reset takes to come to them.             *)
THEOREM OldPasswordsAlwaysEndSessions == Spec => []OldPasswordsEndSessions
<1>1. Init => PasswordInv
  <2> SUFFICES ASSUME Init, NEW c \in Cred, creds[c].state = "live"
               PROVE  creds[c].at = users[creds[c].user].pwd
    BY DEF PasswordInv
  <2>1. creds[c].user \in User
    BY TypeInit DEF CredsOwned
  <2>2. \A u \in User : users[u].pwd = 0
    BY DEF Init
  <2>3. creds[c].at = 0
    BY DEF Init
  <2> QED BY <2>1, <2>2, <2>3
<1>2. TypeInv /\ PasswordInv /\ [Next]_vars => PasswordInv'
  BY PasswordStep
<1>3. PasswordInv => OldPasswordsEndSessions
  BY DEF PasswordInv, Pending, OldPasswordsEndSessions
<1> QED BY <1>1, <1>2, <1>3, AccountsTypeInvariant, PTL DEF Spec

-----------------------------------------------------------------------------
(* The owner *)

(* An enabled admin stays one, if no request that would write its row        *)
(* otherwise is at its statement, and no account is deleted but another.    *)
LEMMA AdminStays ==
  ASSUME TypeInv, [Next]_vars, NEW u \in EnabledAdmins,
         \A p \in Proc : reqs[p].target = u =>
           /\ At(p, "write") => reqs[p].role = "admin" /\ reqs[p].status = "active"
           /\ ~At(p, "disable"),
         u = owner \/ \A p \in Proc : ~At(p, "delete_user")
  PROVE  u \in EnabledAdmins'
<1>1. /\ RowsOK /\ RequestsOK /\ users \in [User -> UserRow]
      /\ u \in User /\ users[u].state = "active" /\ users[u].role = "admin"
  BY DEF TypeInv, RowsOK, EnabledAdmins
<1>2. CASE UNCHANGED users
  BY <1>1, <1>2 DEF EnabledAdmins
<1>3. ASSUME Unborn # {}, NEW role, NEW boot, users' = Created(role, boot)
      PROVE  u \in EnabledAdmins'
  <2>1. NextUser # u
    BY <1>1, <1>3, ChosenUsers DEF Unborn
  <2>2. users'[u] = users[u]
    BY <1>1, <1>3, <2>1 DEF Created
  <2> QED BY <1>1, <2>2 DEF EnabledAdmins
<1>4. ASSUME NEW w, NEW state, w # u \/ state = "active", users' = [users EXCEPT ![w].state = state]
      PROVE  u \in EnabledAdmins'
  <2>1. users'[u].state = "active" /\ users'[u].role = "admin"
    <3>1. CASE w # u
      BY <1>1, <1>4, <3>1
    <3>2. CASE w = u
      <4>1. users'[u] = [users[u] EXCEPT !.state = "active"]
        BY <1>1, <1>4, <3>2
      <4>2. users[u] \in UserRow
        BY <1>1
      <4> QED BY <1>1, <4>1, <4>2 DEF UserRow
    <3> QED BY <3>1, <3>2
  <2> QED BY <1>1, <2>1 DEF EnabledAdmins
<1>5. ASSUME NEW p \in Proc, CreateOwner(p) \/ InsertUser(p) \/ RedeemInvite(p)
      PROVE  u \in EnabledAdmins'
  BY <1>2, <1>3, <1>5 DEF CreateOwner, InsertUser, RedeemInvite
<1>6. ASSUME NEW p \in Proc, WriteProfile(p) PROVE u \in EnabledAdmins'
  <2> DEFINE w == reqs[p].target
  <2>1. CASE UNCHANGED users
    BY <1>2, <2>1
  <2>2. CASE users' = [users EXCEPT ![w].role = reqs[p].role, ![w].state = reqs[p].status]
    <3>1. CASE w # u
      <4>1. users'[u] = users[u]
        BY <1>1, <2>2, <3>1
      <4> QED BY <1>1, <4>1 DEF EnabledAdmins
    <3>2. CASE w = u
      <4>1. reqs[p].role = "admin" /\ reqs[p].status = "active"
        BY <1>6, <3>2 DEF WriteProfile
      <4>2. users[u] \in UserRow
        BY <1>1
      <4>3. users'[u] = [[users[u] EXCEPT !.role = "admin"] EXCEPT !.state = "active"]
        BY <1>1, <2>2, <3>2, <4>1
      <4>4. users'[u].state = "active" /\ users'[u].role = "admin"
        BY <4>2, <4>3 DEF UserRow
      <4> QED BY <1>1, <4>4 DEF EnabledAdmins
    <3> QED BY <3>1, <3>2
  <2> QED BY <1>6, <2>1, <2>2 DEF WriteProfile
<1>7. ASSUME NEW p \in Proc, Disable(p) \/ Enable(p) PROVE u \in EnabledAdmins'
  BY <1>2, <1>4, <1>7 DEF Disable, Enable, SetDisabled
<1>8. ASSUME NEW p \in Proc, DeleteUser(p) PROVE u \in EnabledAdmins'
  <2>1. u = owner
    BY <1>8 DEF DeleteUser
  <2>2. UNCHANGED users \/ \E w : w # u /\ users' = [users EXCEPT ![w].state = "purged"]
    BY <1>8, <2>1 DEF DeleteUser, Referenced
  <2> QED BY <1>2, <1>4, <2>2
<1>9. ASSUME NEW p \in Proc, ChangePassword(p) \/ RedeemReset(p) \/ SetPassword(p)
      PROVE  u \in EnabledAdmins'
  <2>1. UNCHANGED users
        \/ \E w : users[w].pwd < MaxPasswords /\ users' = WithPassword(w)
    BY <1>9 DEF ChangePassword, RedeemReset, SetPassword
  <2>2. users'[u].state = users[u].state /\ users'[u].role = users[u].role
    BY <1>1, <2>1, PasswordRows
  <2> QED BY <1>1, <2>2 DEF EnabledAdmins
<1>10. CASE UNCHANGED vars
  BY <1>2, <1>10 DEF vars
<1>11. ASSUME NEW t, ExpireReset(t) \/ ExpireInvite(t) PROVE UNCHANGED users
  BY <1>11 DEF ExpireReset, ExpireInvite
<1>12. ASSUME NEW p \in Proc,
         \/ Boot(p) \/ FindOwner(p) \/ LookForAdmin(p) \/ SetOwner(p)
         \/ \E w \in User : \/ Login(p, w) \/ ConnectDevice(p, w)
                            \/ \E keep \in BOOLEAN : OperatorReset(p, w, keep)
         \/ \E c \in Cred : Present(p, c)
         \/ \E t \in Invite : FollowInvite(p, t) \/ \E claimed \in BOOLEAN : PresentInvite(p, t, claimed)
         \/ \E t \in Reset : PresentReset(p, t)
       PROVE  UNCHANGED users
  BY <1>12 DEF Boot, FindOwner, LookForAdmin, SetOwner, Login, ConnectDevice,
               OperatorReset, Present, FollowInvite, PresentInvite, PresentReset, Begin
<1>13. ASSUME NEW p \in Proc,
         \/ IssueSession(p) \/ IssueToken(p) \/ Admit(p) \/ ReadTarget(p)
         \/ Logout(p) \/ RevokeSession(p) \/ RevokeToken(p)
         \/ RevokeSessions(p) \/ RevokeTokens(p) \/ DeleteSessions(p) \/ DeleteTokens(p)
       PROVE  UNCHANGED users
  BY <1>13 DEF IssueSession, IssueToken, Issue, Admit, ReadTarget, Logout, RevokeSession,
               RevokeToken, RevokeOwn, RevokeSessions, RevokeTokens, RevokeAll,
               DeleteSessions, DeleteTokens, DeleteAll
<1>14. ASSUME NEW p \in Proc,
         \/ DeleteResets(p) \/ ClearCreatedBy(p) \/ InsertInvite(p) \/ Mail(p) \/ InsertReset(p)
         \/ Claim(p) \/ Fail(p)
       PROVE  UNCHANGED users
  BY <1>14 DEF DeleteResets, ClearCreatedBy, InsertInvite, Mail, InsertReset, Claim, Fail
<1> QED
  BY <1>2, <1>5, <1>6, <1>7, <1>8, <1>9, <1>10, <1>11, <1>12, <1>13, <1>14 DEF Next

(* The settings are written by a start alone.                               *)
LEMMA SettingsStay ==
  ASSUME [Next]_vars
  PROVE  \/ \E p \in Proc : SetOwner(p)
         \/ /\ UNCHANGED <<owner, replaced>>
            /\ booted' = booted \/ owner # NoUser
<1>1. CASE UNCHANGED vars
  BY <1>1 DEF vars
<1>2. ASSUME NEW p \in Proc, FindOwner(p)
      PROVE  UNCHANGED <<owner, replaced>> /\ (booted' = booted \/ owner # NoUser)
  BY <1>2 DEF FindOwner
<1>3. ASSUME UNCHANGED settled
      PROVE  UNCHANGED <<owner, replaced>> /\ (booted' = booted \/ owner # NoUser)
  BY <1>3 DEF settled
<1>4. ASSUME UNCHANGED <<owner, booted, replaced>>
      PROVE  UNCHANGED <<owner, replaced>> /\ (booted' = booted \/ owner # NoUser)
  BY <1>4
<1>5. ASSUME NEW p \in Proc,
         \/ Boot(p)
         \/ \E w \in User : \/ Login(p, w) \/ ConnectDevice(p, w)
                            \/ \E keep \in BOOLEAN : OperatorReset(p, w, keep)
         \/ \E c \in Cred : Present(p, c)
         \/ \E t \in Invite : FollowInvite(p, t) \/ \E claimed \in BOOLEAN : PresentInvite(p, t, claimed)
         \/ \E t \in Reset : PresentReset(p, t)
         \/ ChangePassword(p) \/ RedeemReset(p) \/ Fail(p)
      PROVE  UNCHANGED <<owner, booted, replaced>>
  BY <1>5 DEF Boot, Login, ConnectDevice, OperatorReset, Present, FollowInvite, PresentInvite,
              PresentReset, Begin, ChangePassword, RedeemReset, Fail
<1>6. ASSUME NEW p \in Proc,
         \/ LookForAdmin(p) \/ CreateOwner(p)
         \/ IssueSession(p) \/ IssueToken(p) \/ Admit(p) \/ ReadTarget(p)
         \/ Logout(p) \/ RevokeSession(p) \/ RevokeToken(p)
         \/ RevokeSessions(p) \/ RevokeTokens(p) \/ DeleteSessions(p) \/ DeleteTokens(p)
      PROVE  UNCHANGED settled
  BY <1>6 DEF LookForAdmin, CreateOwner, IssueSession, IssueToken, Issue, Admit, ReadTarget, Logout,
               RevokeSession, RevokeToken, RevokeOwn, RevokeSessions, RevokeTokens, RevokeAll,
               DeleteSessions, DeleteTokens, DeleteAll
<1>7. ASSUME NEW p \in Proc,
         \/ DeleteResets(p) \/ ClearCreatedBy(p) \/ InsertInvite(p) \/ Mail(p) \/ InsertReset(p)
         \/ Claim(p) \/ RedeemInvite(p)
         \/ WriteProfile(p) \/ Disable(p) \/ Enable(p) \/ DeleteUser(p) \/ InsertUser(p)
         \/ SetPassword(p)
      PROVE  UNCHANGED settled
  BY <1>7 DEF DeleteResets, ClearCreatedBy, InsertInvite, Mail, InsertReset, Claim, RedeemInvite,
              WriteProfile, Disable, Enable, SetDisabled, DeleteUser, InsertUser, SetPassword
<1>8. ASSUME NEW t, ExpireReset(t) \/ ExpireInvite(t) PROVE UNCHANGED settled
  BY <1>8 DEF ExpireReset, ExpireInvite
<1> QED BY <1>1, <1>2, <1>3, <1>4, <1>5, <1>6, <1>7, <1>8 DEF Next

(* Until there is an owner nobody is served, and a start that has found its  *)
(* owner has found an enabled admin; from then on no request that has read  *)
(* the owner's row would write it otherwise.                               *)
NoOwnerYet ==
  /\ ~booted /\ \A c \in Cred : creds[c].state # "live"
  /\ \A p \in Proc : /\ reqs[p].op \in Unserved
                     /\ At(p, "set_owner") => reqs[p].target \in EnabledAdmins
OwnerSafe ==
  /\ owner \in EnabledAdmins
  /\ \A p \in Proc : reqs[p].target = owner =>
       /\ At(p, "write") => reqs[p].role = "admin" /\ reqs[p].status = "active"
       /\ ~At(p, "disable")
OwnerInv ==
  /\ owner = NoUser => NoOwnerYet
  /\ owner # NoUser /\ ~replaced => OwnerSafe

LEMMA UnservedStatements ==
  ASSUME RequestsOK, NEW p \in Proc, reqs[p].op \in Unserved
  PROVE  ~At(p, "write") /\ ~At(p, "disable") /\ ~At(p, "delete_user")
BY AtStatement DEF Unserved, Beginnings, OperatorStmts

LEMMA OwnerStep ==
  ASSUME TypeInv, OwnerInv, [Next]_vars
  PROVE  OwnerInv'
<1>1. RowsOK /\ RequestsOK /\ CredsOwned /\ NoUser \notin User
  BY DEF TypeInv, User, NoUser
<1>2. Arrivals /\ RequestsOK'
  BY <1>1, RequestStep
<1>3. CASE \E p \in Proc : SetOwner(p)
  <2>1. PICK p \in Proc : SetOwner(p)
    BY <1>3
  <2>2. /\ At(p, "set_owner") /\ owner' = reqs[p].target /\ reqs[p].target \in User
        /\ users' = users /\ reqs' = [reqs EXCEPT ![p] = Idle]
        /\ replaced' = (replaced \/ owner \notin {NoUser, reqs[p].target})
    BY <1>1, <2>1, AtStatement DEF SetOwner, End, Good, Provided
  <2>3. reqs'[p] = Idle /\ \A q \in Proc : q # p => reqs'[q] = reqs[q]
    BY <1>1, <2>2 DEF RequestsOK
  <2>4. Idle.plan = <<>>
    BY DEF Idle
  <2>5. CASE owner = NoUser
    <3>1. owner' \in EnabledAdmins'
      BY <2>2, <2>5 DEF OwnerInv, NoOwnerYet, EnabledAdmins
    <3>2. \A q \in Proc : ~At(q, "write") /\ ~At(q, "disable")
      BY <1>1, <2>5, UnservedStatements DEF OwnerInv, NoOwnerYet
    <3>3. \A q \in Proc : ~At(q, "write")' /\ ~At(q, "disable")'
      BY <2>3, <2>4, <3>2 DEF At
    <3> QED BY <1>1, <2>2, <3>1, <3>3 DEF OwnerInv, OwnerSafe
  <2>6. CASE owner # NoUser /\ ~replaced /\ owner' = owner
    <3>1. OwnerSafe
      BY <2>6 DEF OwnerInv
    <3>2. owner' \in EnabledAdmins'
      BY <2>2, <2>6, <3>1 DEF OwnerSafe, EnabledAdmins
    <3>3. \A q \in Proc : reqs'[q].target = owner =>
            /\ At(q, "write")' => reqs'[q].role = "admin" /\ reqs'[q].status = "active"
            /\ ~At(q, "disable")'
      BY <2>3, <2>4, <3>1 DEF OwnerSafe, At
    <3> QED BY <1>1, <2>2, <2>6, <3>2, <3>3 DEF OwnerInv, OwnerSafe
  <2>7. CASE owner # NoUser /\ ~(~replaced /\ owner' = owner)
    BY <1>1, <2>2, <2>7 DEF OwnerInv
  <2> QED BY <2>5, <2>6, <2>7
<1>4. CASE UNCHANGED <<owner, replaced>> /\ (booted' = booted \/ owner # NoUser)
  <2>1. CASE owner = NoUser
    <3>1. NoOwnerYet /\ booted' = booted
      BY <1>4, <2>1 DEF OwnerInv
    <3>2. \A p \in Proc : ~At(p, "write") /\ ~At(p, "disable") /\ ~At(p, "delete_user")
      BY <1>1, <3>1, UnservedStatements DEF NoOwnerYet
    <3>3. ASSUME NEW u \in EnabledAdmins PROVE u \in EnabledAdmins'
      BY <3>2, AdminStays
    <3>4. \A c \in Cred : creds'[c].state # "live"
      <4>1. CredsStay
        BY <1>1, <3>1, RowStep DEF Routine, NoOwnerYet, PasswordChanged
      <4> QED BY <3>1, <4>1 DEF NoOwnerYet, CredsStay, Keeps
    <3>5. ASSUME NEW q \in Proc
          PROVE  /\ reqs'[q].op \in Unserved
                 /\ Starts(reqs'[q], "set_owner") => reqs'[q].target \in EnabledAdmins'
      <4>1. CASE reqs'[q] = reqs[q]
        <5>1. reqs'[q].op \in Unserved
          BY <3>1, <4>1 DEF NoOwnerYet
        <5>2. Starts(reqs'[q], "set_owner") => reqs[q].target \in EnabledAdmins
          BY <3>1, <4>1 DEF NoOwnerYet, Starts, At
        <5> QED BY <3>3, <4>1, <5>1, <5>2
      <4>2. CASE reqs'[q] # reqs[q]
        <5>1. reqs'[q].op \in Unserved
          BY <1>2, <3>1, <4>2 DEF Arrivals, NoOwnerYet
        <5>2. ASSUME Starts(reqs'[q], "set_owner") PROVE reqs'[q].target \in EnabledAdmins'
          <6>1. ~Fresh(reqs'[q]) /\ ~Starts(reqs'[q], "admit")
            BY <5>2 DEF Starts, Fresh, Doors
          <6> QED BY <1>2, <4>2, <5>2, <6>1 DEF Arrivals
        <5> QED BY <5>1, <5>2
      <4> QED BY <4>1, <4>2
    <3>6. ~booted'
      BY <3>1 DEF NoOwnerYet
    <3> QED BY <1>4, <2>1, <3>4, <3>5, <3>6 DEF OwnerInv, NoOwnerYet, At, Starts
  <2>2. CASE owner # NoUser /\ ~replaced
    <3>1. OwnerSafe
      BY <2>2 DEF OwnerInv
    <3>2. owner \in EnabledAdmins'
      BY <3>1, AdminStays DEF OwnerSafe
    <3>3. ASSUME NEW q \in Proc, reqs'[q].target = owner
          PROVE  /\ Starts(reqs'[q], "write") => reqs'[q].role = "admin" /\ reqs'[q].status = "active"
                 /\ ~Starts(reqs'[q], "disable")
      <4>1. CASE reqs'[q] = reqs[q]
        BY <3>1, <3>3, <4>1 DEF OwnerSafe, Starts, At
      <4>2. CASE reqs'[q] # reqs[q]
        <5>1. owner \in EnabledAdmins
          BY <3>1 DEF OwnerSafe
        <5>2. CASE Fresh(reqs'[q])
          BY <5>2 DEF Fresh, Starts, Doors
        <5>3. CASE Starts(reqs'[q], "admit") \/ Starts(reqs'[q], "set_owner")
          BY <5>3 DEF Starts
        <5> QED BY <1>2, <3>3, <4>2, <5>1, <5>2, <5>3 DEF Arrivals
      <4> QED BY <4>1, <4>2
    <3> QED BY <1>4, <2>2, <3>2, <3>3 DEF OwnerInv, OwnerSafe, At, Starts
  <2>3. CASE owner # NoUser /\ replaced
    BY <1>4, <2>3 DEF OwnerInv
  <2> QED BY <2>1, <2>2, <2>3
<1> QED BY <1>3, <1>4, SettingsStay

(* Once there is an owner it is an enabled admin, as long as no start puts   *)
(* another in its place.                                                   *)
THEOREM OwnerAlwaysStaysEnabled == Spec => []OwnerStaysEnabled
<1>1. Init => OwnerInv
  <2> SUFFICES ASSUME Init PROVE OwnerInv
    OBVIOUS
  <2>1. PICK roles \in InitialRoles, inUse \in BOOLEAN :
         /\ inUse => roles # <<>> /\ roles[1] = "admin"
         /\ users = [u \in User |->
                       [state |-> IF u <= Len(roles) THEN "active" ELSE "unborn",
                        role |-> IF u <= Len(roles) THEN roles[u] ELSE "user",
                        boot |-> FALSE, pwd |-> 0]]
         /\ owner = (IF inUse THEN 1 ELSE NoUser) /\ booted = inUse
         /\ creds = [c \in Cred |->
                       [state |-> IF inUse /\ c <= Len(roles) THEN "live" ELSE "free",
                        user |-> IF inUse /\ c <= Len(roles) THEN c ELSE NoUser,
                        kind |-> "session", at |-> 0]]
    BY DEF Init
  <2>2. \A p \in Proc : reqs[p].op = "none" /\ reqs[p].plan = <<>>
    BY DEF Init, Idle
  <2>3. CASE inUse
    <3>1. Len(roles) >= 1 /\ MaxUsers >= 1 /\ MaxUsers \in Nat
      BY <2>1, <2>3, AccountsAssumption
    <3>2. 1 \in User /\ users[1].state = "active" /\ users[1].role = "admin"
      BY <2>1, <2>3, <3>1 DEF User
    <3>3. owner = 1 /\ owner # NoUser
      BY <2>1, <2>3 DEF NoUser
    <3> QED BY <2>2, <3>2, <3>3 DEF OwnerInv, OwnerSafe, EnabledAdmins, At
  <2>4. CASE ~inUse
    <3>1. \A c \in Cred : creds[c].state = "free"
      BY <2>1, <2>4
    <3> QED BY <2>1, <2>2, <2>4, <3>1 DEF OwnerInv, NoOwnerYet, At, Unserved
  <2> QED BY <2>3, <2>4
<1>2. TypeInv /\ OwnerInv /\ [Next]_vars => OwnerInv'
  BY OwnerStep
<1>3. OwnerInv => OwnerStaysEnabled
  BY DEF OwnerInv, OwnerSafe, EnabledAdmins, OwnerStaysEnabled
<1> QED BY <1>1, <1>2, <1>3, AccountsTypeInvariant, PTL DEF Spec

=============================================================================
