----------------------------- MODULE UserAccounts -----------------------------
(***************************************************************************)
(* The credentials of the users in Redis, and the account they belong to:  *)
(* refresh tokens (token.service.ts), the state of a Gmail authorisation   *)
(* (oauth-state.service.ts), the user row with the rows that hang on it    *)
(* (user.service.ts) and the deletion of an account (user.routes.ts,       *)
(* data-retention.service.ts).                                             *)
(*                                                                         *)
(* A request runs one statement, or one Redis command, per step.  Access   *)
(* tokens are verified without a look at any store (middleware/auth.ts),   *)
(* so whoever has logged in once may call anything: how long such a token  *)
(* lasts is not modelled.  The database deletes what hangs on a user with  *)
(* the user, and refuses rows without one.                                 *)
(***************************************************************************)
EXTENDS Naturals, Sequences, FiniteSets, Functions

CONSTANTS Users,
          Sessions,      \* requests
          Owned,         \* tables with the user's id, as they are deleted
          MaxKeys,       \* bound on credentials handed out
          RedisFaults    \* bound on failing commands

ASSUME AccountsAssumption ==
  /\ MaxKeys \in Nat /\ RedisFaults \in Nat
  /\ Owned \in Seq(STRING \ {"profile", "user"})

VARIABLES
  keys,    \* every credential handed out: [kind, user, root]
  live,    \* those Redis still has
  account,    \* account[u]: the tables with rows of u
  req,     \* the requests
  failing  \* Redis commands that have failed

accountVars == <<keys, live, account, req, failing>>

Handed == DOMAIN keys
Of(kind, u) == {k \in live : keys[k].kind = kind /\ keys[k].user = u}
States == {k \in live : keys[k].kind = "state"}

(* due: keys a scan has yet to reach; swept: those it had to; after: what  *)
(* the request does once the user's row is there; table: the next of Owned *)
(* to be deleted.                                                          *)
Fresh == [op |-> "none", step |-> "start", user |-> "", root |-> 0,
          due |-> {}, swept |-> {}, after |-> "", table |-> 1]

AccountsInit ==
  /\ keys = << >> /\ live = {} /\ failing = 0
  /\ account = [u \in Users |-> {}]
  /\ req = [q \in Sessions |-> Fresh]

-----------------------------------------------------------------------------
(* Steps of a request                                                      *)

Starts(q) == req[q].step = "start"
At(q, step) == req[q].step = step
Go(q, step) == req' = [req EXCEPT ![q].step = step]
Enter(q, op, u, step) ==
  req' = [req EXCEPT ![q] = [Fresh EXCEPT !.op = op, !.user = u, !.step = step]]

\* The route answers, with a success or with an error.
Answer(q) == req' = [req EXCEPT ![q].step = "done", ![q].due = {}, ![q].after = ""]

Fault == failing < RedisFaults /\ failing' = failing + 1
NoFault == UNCHANGED failing

\* SET of a fresh random id.
Stored(kind, u, root) ==
  LET id == Len(keys) + 1 IN
    /\ id <= MaxKeys
    /\ keys' = Append(keys, [kind |-> kind, user |-> u,
                             root |-> IF root = 0 THEN id ELSE root])
    /\ live' = live \cup {id}

KeepRedis == UNCHANGED <<keys, live, failing>>

TakeCopy(k) == UNCHANGED live  \* mutant: the value is read, and deleted later

(* A command that reads and deletes: GETDEL for a refresh token, a script  *)
(* for a state.  Of two that name one key, one finds it.                   *)
Take(k) == live' = live \ {k}

-----------------------------------------------------------------------------
(* getOrCreateUser: find the user, create the row, create the profile.     *)

(* The user's row is there, or it is created next. *)
Find(q) ==
  /\ At(q, "find")
  /\ Go(q, IF "user" \in account[req[q].user] THEN req[q].after ELSE "makeUser")
  /\ KeepRedis /\ UNCHANGED account

(* The create that comes second finds the row of the first and returns it. *)
MakeUser(q) ==
  LET u == req[q].user IN
  /\ At(q, "makeUser")
  /\ account' = [account EXCEPT ![u] = @ \cup {"user"}]
  /\ Go(q, IF "user" \in account[u] THEN req[q].after ELSE "makeProfile")
  /\ KeepRedis

(* A profile needs its user; a second profile is refused, and the user     *)
(* that is there is returned.                                              *)
MakeProfile(q) ==
  LET u == req[q].user IN
  /\ At(q, "makeProfile")
  /\ IF "user" \in account[u]
     THEN /\ account' = [account EXCEPT ![u] = @ \cup {"profile"}]
          /\ Go(q, req[q].after)
     ELSE Answer(q) /\ UNCHANGED account
  /\ KeepRedis

-----------------------------------------------------------------------------
(* Sessions                                                                *)

(* POST /auth/token, and GET /user/profile of someone who has logged in. *)
Login(q, u) ==
  /\ Starts(q)
  /\ req' = [req EXCEPT ![q] = [Fresh EXCEPT !.op = "login", !.user = u,
                                             !.step = "find", !.after = "issue"]]
  /\ KeepRedis /\ UNCHANGED account

ReadProfile(q, u) ==
  /\ Starts(q) /\ \E k \in Handed : keys[k].user = u
  /\ req' = [req EXCEPT ![q] = [Fresh EXCEPT !.op = "profile", !.user = u,
                                             !.step = "find", !.after = "done"]]
  /\ KeepRedis /\ UNCHANGED account

(* A pair is returned also when its refresh token could not be stored. *)
issueTokenPair(q) ==
  /\ At(q, "issue")
  /\ Answer(q)
  /\ \/ Stored("refresh", req[q].user, req[q].root) /\ NoFault
     \/ Fault /\ UNCHANGED <<keys, live>>
  /\ UNCHANGED account

(* POST /auth/refresh: the token is taken, then its successor is issued.   *)
(* A command that fails looks like a token that is not there, whether      *)
(* Redis has run it or not.                                                *)
rotateTokenPair(q, k) ==
  /\ Starts(q) /\ keys[k].kind = "refresh"
  /\ \/ /\ k \in live /\ Take(k) /\ NoFault
        /\ req' = [req EXCEPT ![q] = [Fresh EXCEPT !.op = "rotate", !.step = "issue",
                                        !.user = keys[k].user, !.root = keys[k].root]]
     \/ /\ k \notin live /\ UNCHANGED live /\ NoFault
        /\ Enter(q, "rotate", keys[k].user, "done")
     \/ /\ Fault /\ (Take(k) \/ UNCHANGED live)
        /\ Enter(q, "rotate", keys[k].user, "done")
  /\ UNCHANGED <<keys, account>>

(* POST /auth/logout answers success also when the token could not be      *)
(* deleted.                                                                *)
revokeRefreshToken(q, k) ==
  /\ Starts(q) /\ keys[k].kind = "refresh"
  /\ Enter(q, "logout", keys[k].user, "done")
  /\ \/ Take(k) /\ NoFault
     \/ Fault /\ UNCHANGED live
  /\ UNCHANGED <<keys, account>>

(* delByPrefix walks the keys with SCAN: every key that is there when it   *)
(* begins is returned by the time it ends, one that comes later may be.    *)
BeginSweep(q, op, u, step) ==
  req' = [req EXCEPT ![q] = [Fresh EXCEPT !.op = op, !.user = u, !.step = step,
                               !.due = Of("refresh", u), !.swept = Of("refresh", u)]]

revokeAllRefreshTokens(q, u) ==
  /\ Starts(q) /\ \E k \in Handed : keys[k].user = u
  /\ BeginSweep(q, "logoutAll", u, "sweep")
  /\ KeepRedis /\ UNCHANGED account

(* The cursor comes back to 0 once nothing is due. *)
ScanEnds(due) == due = {}

(* One turn of the loop: a scan and the deletion of what it returned.  An  *)
(* error ends the loop, and nobody is told.                                *)
Scan(q, here, next) ==
  \/ \E batch \in SUBSET (req[q].due \cup here) :
       LET due == req[q].due \ batch IN
       /\ NoFault
       /\ live' = live \ batch
       /\ IF ScanEnds(due) THEN next ELSE req' = [req EXCEPT ![q].due = due]
  \/ /\ Fault /\ UNCHANGED live
     /\ next

(* The swept tokens of a loop that failed are not the concern of anyone:   *)
(* it forgets them.                                                        *)
SweepEnds(q, step) ==
  req' = [req EXCEPT ![q].due = {}, ![q].step = step,
                     ![q].swept = IF failing' = failing THEN @ ELSE {}]

LogoutAllSweep(q) ==
  /\ At(q, "sweep") /\ Scan(q, Of("refresh", req[q].user), SweepEnds(q, "done"))
  /\ UNCHANGED <<keys, account>>

-----------------------------------------------------------------------------
(* The authorisation of Gmail                                              *)

(* GET /integrations/gmail/connect fails when the state is not stored. *)
generateState(q, u) ==
  /\ Starts(q) /\ \E k \in Handed : keys[k].user = u
  /\ Enter(q, "connect", u, "done")
  /\ \/ Stored("state", u, 0) /\ NoFault
     \/ Fault /\ UNCHANGED <<keys, live>>
  /\ UNCHANGED account

(* The callback takes the state, and knows its user from it.  An error of  *)
(* Redis fails the request.                                                *)
validateAndConsume(q, k) ==
  /\ Starts(q) /\ keys[k].kind = "state"
  /\ \/ /\ k \in live /\ Take(k) /\ NoFault
        /\ req' = [req EXCEPT ![q] = [Fresh EXCEPT !.op = "callback", !.step = "exchange",
                                        !.user = keys[k].user, !.root = k]]
     \/ /\ k \notin live /\ UNCHANGED live /\ NoFault
        /\ Enter(q, "callback", keys[k].user, "done")
     \/ /\ Fault /\ (Take(k) \/ UNCHANGED live)
        /\ Enter(q, "callback", keys[k].user, "done")
  /\ UNCHANGED <<keys, account>>

(* Google exchanges the code and tells the address, or the request fails:  *)
(* its state is spent all the same.                                        *)
Exchange(q) ==
  /\ At(q, "exchange")
  /\ Go(q, "store") \/ Answer(q)
  /\ KeepRedis /\ UNCHANGED account

(* The upsert of the connection needs the user's row; then updateProfile   *)
(* looks for that row, and creates it if it is gone.                       *)
upsertConnection(q) ==
  LET u == req[q].user IN
  /\ At(q, "store")
  /\ IF "user" \in account[u]
     THEN /\ account' = [account EXCEPT ![u] = @ \cup {"connection"}]
          /\ req' = [req EXCEPT ![q].step = "find", ![q].after = "upsertProfile"]
     ELSE Answer(q) /\ UNCHANGED account
  /\ KeepRedis

updateProfile(q) ==
  LET u == req[q].user IN
  /\ At(q, "upsertProfile")
  /\ account' = IF "user" \in account[u] THEN [account EXCEPT ![u] = @ \cup {"profile"}] ELSE account
  /\ Answer(q) /\ KeepRedis

-----------------------------------------------------------------------------
(* DELETE /user/account: the sessions, the rows, and the states.           *)

DeleteAccount(q, u) ==
  /\ Starts(q) /\ \E k \in Handed : keys[k].user = u
  /\ BeginSweep(q, "delete", u, "revoke")
  /\ KeepRedis /\ UNCHANGED account

RevokeSessions(q) ==
  /\ At(q, "revoke") /\ Scan(q, Of("refresh", req[q].user), SweepEnds(q, "owned"))
  /\ UNCHANGED <<keys, account>>

(* One statement per table, each committed alone: the tables of the user's *)
(* id, the profile, the user.  A statement that fails ends the request.    *)
deleteUserData(q) ==
  LET u == req[q].user IN
  /\ \/ /\ At(q, "owned") /\ req[q].table <= Len(Owned)
        /\ account' = [account EXCEPT ![u] = @ \ {Owned[req[q].table]}]
        /\ req' = [req EXCEPT ![q].table = @ + 1]
     \/ /\ At(q, "owned") /\ req[q].table > Len(Owned)
        /\ account' = [account EXCEPT ![u] = @ \ {"profile"}] /\ Go(q, "user")
     \/ /\ At(q, "user")
        /\ account' = [account EXCEPT ![u] = {}]
        /\ req' = [req EXCEPT ![q].step = "states", ![q].due = States]
     \/ /\ req[q].step \in {"owned", "user"}
        /\ Answer(q) /\ UNCHANGED account
  /\ KeepRedis

(* The prefix of the last loop is that of all states. *)
DropStates(q) ==
  /\ At(q, "states") /\ Scan(q, States, Answer(q))
  /\ UNCHANGED <<keys, account>>

-----------------------------------------------------------------------------
(* What happens beside the requests                                        *)

(* A key outlives its time to live: seven days, or fifteen minutes. *)
Expire(k) == k \in live /\ live' = live \ {k} /\ UNCHANGED <<keys, account, req, failing>>

(* A worker stores a row for a user it was given a job of. *)
Work(u, t) ==
  /\ "user" \in account[u] /\ t \notin account[u]
  /\ account' = [account EXCEPT ![u] = @ \cup {t}]
  /\ UNCHANGED <<keys, live, req, failing>>

SessionNext(q) ==
  \/ \E u \in Users : Login(q, u) \/ ReadProfile(q, u) \/ revokeAllRefreshTokens(q, u)
  \/ \E k \in Handed : rotateTokenPair(q, k) \/ revokeRefreshToken(q, k)
  \/ Find(q) \/ MakeUser(q) \/ MakeProfile(q)
  \/ issueTokenPair(q) \/ LogoutAllSweep(q)

ConnectNext(q) ==
  \/ \E u \in Users : generateState(q, u)
  \/ \E k \in Handed : validateAndConsume(q, k)
  \/ Exchange(q) \/ upsertConnection(q) \/ updateProfile(q)

DeletionNext(q) ==
  \/ \E u \in Users : DeleteAccount(q, u)
  \/ RevokeSessions(q) \/ deleteUserData(q) \/ DropStates(q)

AccountsNext ==
  \/ \E q \in Sessions : SessionNext(q) \/ ConnectNext(q) \/ DeletionNext(q)
  \/ \E k \in live : Expire(k)
  \/ \E u \in Users, t \in Range(Owned) : Work(u, t)

-----------------------------------------------------------------------------
(* Properties                                                              *)

(***************************************************************************)
(* A credential is spent once.  However many requests name it at once, a   *)
(* login has one refresh token, stored or about to be (rotateTokenPair:    *)
(* "each refresh token is single-use"), and one callback at most is under  *)
(* way for a state that was handed out.                                    *)
(***************************************************************************)
CredentialsAreSpentOnce ==
  /\ \A root \in Handed : keys[root].kind = "refresh" =>
       Cardinality({k \in live : keys[k].kind = "refresh" /\ keys[k].root = root})
         + Cardinality({q \in Sessions : req[q].op = "rotate" /\ At(q, "issue")
                                           /\ req[q].root = root}) <= 1
  /\ \A p, q \in Sessions :
       /\ req[p].op = "callback" /\ req[q].op = "callback"
       /\ req[p].root # 0 /\ req[p].root = req[q].root
       => p = q

(***************************************************************************)
(* Logging out everywhere, and deleting the account, reach every session   *)
(* that was open when they began: its token never works again once the     *)
(* loop has ended without an error.                                        *)
(***************************************************************************)
SweptAreGone ==
  \A q \in Sessions :
    req[q].step \notin {"sweep", "revoke"} => req[q].swept \cap live = {}

(* A credential gives no more than it was issued for, and no longer. *)
AccountsHold == CredentialsAreSpentOnce /\ SweptAreGone
===============================================================================
