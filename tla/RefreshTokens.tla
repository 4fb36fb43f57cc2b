----------------------------- MODULE RefreshTokens -----------------------------
(***************************************************************************)
(* The refresh tokens of one account, which keep its sessions alive.       *)
(*                                                                         *)
(* A refresh looks the token up, revokes it by its id and inserts          *)
(* another, in three statements without a transaction.                     *)
(***************************************************************************)
EXTENDS Integers

CONSTANTS
  Sessions,     \* requests served at the same time
  Tokens,       \* numbers, in the order of their issue
  NoToken       \* the "old token" of a login

VARIABLES
  tokens,       \* refresh_tokens
  pc,           \* where each request stands
  old,          \* the token each request exchanges
  root,         \* history: the token that the login of each token got
  contested     \* history: logins of which two refreshes held the same token

vars == <<tokens, pc, old, root, contested>>

Init ==
  /\ tokens = [t \in Tokens |-> "none"]
  /\ pc = [s \in Sessions |-> "idle"]
  /\ old = [s \in Sessions |-> NoToken]
  /\ root = [t \in Tokens |-> NoToken]
  /\ contested = {}

Goto(s, step, t) ==
  /\ pc' = [pc EXCEPT ![s] = step]
  /\ old' = [old EXCEPT ![s] = t]
End(s) == Goto(s, "idle", NoToken)

\* login and googleSignIn, once they let the user in.
Login(s) ==
  /\ pc[s] = "idle"
  /\ Goto(s, "issue", NoToken)
  /\ UNCHANGED <<tokens, root, contested>>

\* refresh: the token is known, neither revoked nor expired, and its user, who is
\* read next, is there: users are never deleted.
FindToken(s, t) ==
  /\ pc[s] = "idle"
  /\ tokens[t] = "good"
  /\ Goto(s, "rotate", t)
  /\ contested' = IF \E r \in Sessions : old[r] = t THEN contested \cup {root[t]}
                                                   ELSE contested
  /\ UNCHANGED <<tokens, root>>

\* Fault: the new token is issued and the old one stays.
RotateNothing(s) ==
  /\ pc[s] = "rotate"
  /\ Goto(s, "issue", old[s])
  /\ UNCHANGED <<tokens, root, contested>>

\* The update names the id only: it also succeeds for a token that is revoked by
\* now, and changes nothing if the row was purged.
Rotate(s) ==
  /\ pc[s] = "rotate"
  /\ tokens' = [tokens EXCEPT ![old[s]] = IF @ = "purged" THEN @ ELSE "revoked"]
  /\ Goto(s, "issue", old[s])
  /\ UNCHANGED <<root, contested>>

\* issueRefreshToken
Issue(s, t) ==
  /\ pc[s] = "issue"
  /\ tokens[t] = "none" /\ \A u \in Tokens : u < t => tokens[u] # "none"
  /\ tokens' = [tokens EXCEPT ![t] = "good"]
  /\ root' = [root EXCEPT ![t] = IF old[s] = NoToken THEN t ELSE root[old[s]]]
  /\ End(s)
  /\ UNCHANGED contested

Logout(t) ==
  /\ tokens[t] = "good"
  /\ tokens' = [tokens EXCEPT ![t] = "revoked"]
  /\ UNCHANGED <<pc, old, root, contested>>

\* After a reset, a link or an unlink: all tokens of the user whose revoked_at is
\* null, if the library understands that criterion, and otherwise none.
RevokeAllForUser ==
  /\ tokens' = [t \in Tokens |-> IF tokens[t] = "good" THEN "revoked" ELSE tokens[t]]
  /\ UNCHANGED <<pc, old, root, contested>>

Expire(t) ==
  /\ tokens[t] = "good"
  /\ tokens' = [tokens EXCEPT ![t] = "expired"]
  /\ UNCHANGED <<pc, old, root, contested>>

PurgeExpired ==
  /\ tokens' = [t \in Tokens |-> IF tokens[t] = "expired" THEN "purged" ELSE tokens[t]]
  /\ UNCHANGED <<pc, old, root, contested>>

\* A crash or a lost connection: a token may be revoked by then, and its successor
\* never issued.
Abort(s) ==
  /\ pc[s] # "idle"
  /\ End(s)
  /\ UNCHANGED <<tokens, root, contested>>

Next ==
  \/ \E s \in Sessions : \/ Login(s) \/ Rotate(s) \/ Abort(s)
                         \/ \E t \in Tokens : FindToken(s, t) \/ Issue(s, t)
  \/ \E t \in Tokens : Logout(t) \/ Expire(t)
  \/ RevokeAllForUser \/ PurgeExpired

Spec == Init /\ [][Next]_vars

(***************************************************************************)
(* Properties.                                                             *)
(***************************************************************************)
Good(q) == {t \in Tokens : tokens[t] = "good" /\ root[t] = q}

\* A login has one refresh token that is good, however often it is exchanged,
\* revoked or expired, unless two refreshes held the same token at once.
OneTokenPerLogin ==
  \A q \in Tokens \ contested : \A t, u \in Good(q) : t = u

(***************************************************************************)
(* Why it holds.                                                           *)
(***************************************************************************)
TypeOK ==
  /\ tokens \in [Tokens -> {"none", "good", "revoked", "expired", "purged"}]
  /\ pc \in [Sessions -> {"idle", "rotate", "issue"}]
  /\ old \in [Sessions -> Tokens \cup {NoToken}]
  /\ root \in [Tokens -> Tokens \cup {NoToken}]
  /\ contested \subseteq Tokens

TokensAssumption == Tokens \subseteq Int /\ NoToken \notin Tokens

\* A token that was issued is of a login that got one; what is exchanged was issued.
Rooted ==
  /\ \A t \in Tokens : tokens[t] # "none" => root[t] \in Tokens /\ tokens[root[t]] # "none"
  /\ \A s \in Sessions :
       /\ pc[s] = "idle" => old[s] = NoToken
       /\ pc[s] = "rotate" => old[s] # NoToken
       /\ old[s] # NoToken => tokens[old[s]] # "none"

\* Of an uncontested login there is one good token, or one request with it.
OneBearer ==
  \A s \in Sessions : old[s] # NoToken /\ root[old[s]] \notin contested =>
    /\ \A t \in Good(root[old[s]]) : pc[s] = "rotate" /\ t = old[s]
    /\ \A r \in Sessions \ {s} : old[r] # NoToken => root[old[r]] # root[old[s]]

IInv == TypeOK /\ Rooted /\ OneBearer /\ OneTokenPerLogin
================================================================================
