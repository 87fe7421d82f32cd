--------------------------- MODULE OAuthConnection ---------------------------
(***************************************************************************)
(* The local OAuth connection (server/src/services/mangrove_oauth.py): one *)
(* encrypted row in oauth.db, sign-in, rotation of single-use refresh      *)
(* tokens, replacement of a grant by another and revocation of both.       *)
(*                                                                         *)
(* A process runs one operation at a time (`_lock`), but processes share   *)
(* the row.  A transaction of store() is held across the requests made in  *)
(* it, so such a transaction and its requests are one action, whose        *)
(* outcomes are those of the network.  What happens between two            *)
(* transactions is another action, with a process counter in between.      *)
(* Expiry is abstracted: a token may be due, a sign-in may lapse, any time.*)
(***************************************************************************)
EXTENDS Naturals

CONSTANTS
  Procs,    \* agent processes that open the same store
  Grants,   \* consents: one per sign-in, named by its `state`
  Tokens,   \* replies of the token endpoint
  Issuers,  \* authorization servers that may be configured
  None      \* no value

ASSUME OAuthAssumption == None \notin Grants \cup Tokens \cup Issuers

VARIABLES
  row,      \* the connection row, its `retired` entry flattened into old*
  pending,  \* _pending of each process, by its sign-in
  issuer,   \* MANGROVE_OAUTH_ISSUER as each process started with it
  proc,     \* where each process stands, and the record it compares with
  started,  \* sign-ins whose state was drawn
  mint,     \* environment: grant, issuer and lifetime of each token reply
  uses,     \* environment: times each refresh token was presented
  codes,    \* environment: times each authorization code was presented
  seen,     \* environment: issuers each token was sent to
  revoked   \* environment: grants their issuer has ended

vars == <<row, pending, issuer, proc, started, mint, uses, codes, seen, revoked>>
world == <<started, mint, uses, codes, seen, revoked>>

-----------------------------------------------------------------------------
(* State *)

AbsentRow == [state |-> "absent", tok |-> None, iss |-> None,
              oldTok |-> None, oldIss |-> None]
KeptRow == [state : {"connected", "refresh_pending", "disconnected"},
            tok : Tokens, iss : Issuers, oldTok : {None}, oldIss : {None}]
ReplacingRow == [state : {"connected", "refresh_pending", "disconnected"},
                 tok : Tokens, iss : Issuers, oldTok : Tokens, oldIss : Issuers]
Row == {AbsentRow} \cup KeptRow \cup ReplacingRow

Idle == [pc |-> "idle", rec |-> AbsentRow]
ProcRow == {Idle}
  \cup [pc : {"registering", "disconnecting"}, rec : {AbsentRow}]
  \cup [pc : {"refreshing"}, rec : KeptRow \cup ReplacingRow]
  \cup [pc : {"retiring", "retired"}, rec : ReplacingRow]

NotMinted == [grant |-> None, iss |-> None, lasting |-> FALSE]
MintRow == {NotMinted} \cup [grant : Grants, iss : Issuers, lasting : BOOLEAN]

\* Older installations may hold two grants, of two issuers.
LegacyRow(t, u, i, j) ==
  [state |-> "connected", tok |-> t, iss |-> i, oldTok |-> u, oldIss |-> j]

Empty ==
  /\ row = AbsentRow
  /\ started = {}
  /\ mint = [t \in Tokens |-> NotMinted]

Legacy(t, u, i, j, g, h) ==
  /\ t # u /\ g # h
  /\ row = LegacyRow(t, u, i, j)
  /\ started = {g, h}
  /\ mint = [x \in Tokens |-> CASE x = t -> [grant |-> g, iss |-> i, lasting |-> TRUE]
                                [] x = u -> [grant |-> h, iss |-> j, lasting |-> TRUE]
                                [] OTHER -> NotMinted]

Init ==
  /\ \/ Empty
     \/ \E t, u \in Tokens, i, j \in Issuers, g, h \in Grants : Legacy(t, u, i, j, g, h)
  /\ pending = [p \in Procs |-> None]
  /\ issuer \in [Procs -> Issuers]
  /\ proc = [p \in Procs |-> Idle]
  /\ uses = [t \in Tokens |-> 0]
  /\ codes = [g \in Grants |-> 0]
  /\ seen = [t \in Tokens |-> {}]
  /\ revoked = {}

-----------------------------------------------------------------------------
At(p, pc) == proc[p].pc = pc
Goto(p, pc, rec) == proc' = [proc EXCEPT ![p] = [pc |-> pc, rec |-> rec]]
Return(p) == proc' = [proc EXCEPT ![p] = Idle]

\* require_replaceable: no outstanding revocation, no foreign grant.
Replaceable(p) ==
  \/ row.state = "absent"
  \/ row.iss = issuer[p] /\ row.oldTok = None /\ row.state # "disconnected"

Connection(t, i, u, j) ==
  [state |-> "connected", tok |-> t, iss |-> i, oldTok |-> u, oldIss |-> j]

\* A reply of the token endpoint of p's issuer, with or without offline_access.
Mint(p, t, g) ==
  /\ mint[t] = NotMinted
  /\ \E lasting \in BOOLEAN :
       mint' = [mint EXCEPT ![t] = [grant |-> g, iss |-> issuer[p], lasting |-> lasting]]

-----------------------------------------------------------------------------
(* Sign-in *)

\* start, up to the registration request; a pending sign-in refuses another.
BeginStart(p) ==
  /\ At(p, "idle") /\ pending[p] = None
  /\ Replaceable(p)
  /\ Goto(p, "registering", AbsentRow)
  /\ UNCHANGED <<row, pending, issuer, world>>

\* The registration was answered: the state and the verifier are drawn.
Registered(p, g) ==
  /\ At(p, "registering")
  /\ g \notin started
  /\ started' = started \cup {g}
  /\ pending' = [pending EXCEPT ![p] = g]
  /\ Return(p)
  /\ UNCHANGED <<row, issuer, mint, uses, codes, seen, revoked>>

RegistrationFailed(p) ==
  /\ At(p, "registering")
  /\ Return(p)
  /\ UNCHANGED <<row, pending, issuer, world>>

\* cancel, ten minutes without a callback, a declined consent, a callback
\* without a code, or one that finds the connection not replaceable any more.
Lapse(p) ==
  /\ At(p, "idle") /\ pending[p] # None
  /\ pending' = [pending EXCEPT ![p] = None]
  /\ UNCHANGED <<row, issuer, proc, world>>

\* The code of p's own sign-in goes to the issuer it was asked from.
PresentCode(p) ==
  /\ At(p, "idle") /\ pending[p] # None
  /\ Replaceable(p)
  /\ codes' = [codes EXCEPT ![pending[p]] = @ + 1]

\* complete: no reply, or one that token_record refuses.  _pending is gone.
ExchangeLost(p) ==
  /\ PresentCode(p)
  /\ pending' = [pending EXCEPT ![p] = None]
  /\ UNCHANGED <<row, issuer, proc, started, mint, uses, seen, revoked>>

\* complete: the new grant is saved with the previous one as `retired`; only
\* then is the previous one to be revoked.
Exchange(p, t) ==
  /\ PresentCode(p)
  /\ Mint(p, t, pending[p])
  /\ row' = Connection(t, issuer[p], row.tok, row.iss)
  /\ pending' = [pending EXCEPT ![p] = None]
  /\ IF row.state = "absent" THEN UNCHANGED proc ELSE Goto(p, "retiring", row')
  /\ UNCHANGED <<issuer, started, uses, seen, revoked>>

-----------------------------------------------------------------------------
(* Revocation *)

\* Variant: the stored record is trusted to be the configured issuer's.
RevocableAnywhere(p, rec) == {rec.tok, rec.oldTok} \ {None}

\* revoke_record: never to an issuer that is not the configured one.
Revocable(p, rec) ==
  {t \in {rec.tok, rec.oldTok} \ {None} :
     \/ t = rec.tok /\ rec.iss = issuer[p]
     \/ t = rec.oldTok /\ rec.oldIss = issuer[p]}

\* The tokens ts are sent; the issuer ends the grants of those in acted.
Revoke(p, ts, acted) ==
  /\ seen' = [t \in Tokens |-> IF t \in ts THEN seen[t] \cup {issuer[p]} ELSE seen[t]]
  /\ revoked' = revoked \cup {mint[t].grant : t \in acted}

\* complete, between its transactions: the previous grant is revoked.
RevokePrevious(p) ==
  /\ At(p, "retiring")
  /\ LET ts == Revocable(p, proc[p].rec) \cap {proc[p].rec.oldTok}
     IN  \E acted \in SUBSET ts :
           /\ Revoke(p, ts, acted)
           /\ \/ acted # {} /\ Goto(p, "retired", proc[p].rec)
              \/ Return(p)
  /\ UNCHANGED <<row, pending, issuer, started, mint, uses, codes>>

\* Variant: what was saved before the revocation is saved again.
ForgetPreviousBlind(p) ==
  /\ At(p, "retired")
  /\ row' = [proc[p].rec EXCEPT !.oldTok = None, !.oldIss = None]
  /\ Return(p)
  /\ UNCHANGED <<pending, issuer, world>>

\* complete, last: the receipt goes if nobody changed the row in between.
ForgetPrevious(p) ==
  /\ At(p, "retired")
  /\ row' = IF row = proc[p].rec
            THEN [row EXCEPT !.oldTok = None, !.oldIss = None] ELSE row
  /\ Return(p)
  /\ UNCHANGED <<pending, issuer, world>>

\* disconnect: local use stops first.
BeginDisconnect(p) ==
  /\ At(p, "idle") /\ row.state # "absent"
  /\ row' = [row EXCEPT !.state = "disconnected"]
  /\ pending' = [pending EXCEPT ![p] = None]
  /\ Goto(p, "disconnecting", AbsentRow)
  /\ UNCHANGED <<issuer, world>>

\* Variant: the retired grant is saved as it was stored, without a state.
RemainingStateless(told) ==
  CASE row.tok \notin told /\ row.oldTok \notin told -> row
    [] row.tok \notin told /\ row.oldTok \in told -> [row EXCEPT !.oldTok = None, !.oldIss = None]
    [] row.tok \in told /\ row.oldTok \notin told \cup {None} ->
         [AbsentRow EXCEPT !.tok = row.oldTok, !.iss = row.oldIss]
    [] OTHER -> AbsentRow

\* What is kept once the revocations of told are confirmed.
Remaining(told) ==
  LET current == row.tok \notin told
      retired == row.oldTok # None /\ row.oldTok \notin told
  IN  CASE current /\ retired -> row
        [] current /\ ~retired -> [row EXCEPT !.oldTok = None, !.oldIss = None]
        [] ~current /\ retired ->
             [AbsentRow EXCEPT !.state = "disconnected", !.tok = row.oldTok, !.iss = row.oldIss]
        [] OTHER -> AbsentRow

\* disconnect, second transaction, on whatever the row has become.
FinishDisconnect(p) ==
  /\ At(p, "disconnecting") /\ row.state # "absent"
  /\ LET ts == Revocable(p, row)
     IN  \E acted \in SUBSET ts : \E told \in SUBSET acted :
           Revoke(p, ts, acted) /\ row' = Remaining(told)
  /\ Return(p)
  /\ UNCHANGED <<pending, issuer, started, mint, uses, codes>>

NothingToDisconnect(p) ==
  /\ At(p, "disconnecting") /\ row.state = "absent"
  /\ Return(p)
  /\ UNCHANGED <<row, pending, issuer, world>>

-----------------------------------------------------------------------------
(* access_token: a lasting token that is due is rotated *)

Refreshable(p) ==
  /\ At(p, "idle")
  /\ row.state = "connected" /\ row.iss = issuer[p]
  /\ mint[row.tok].lasting

\* Variant: the connection stays connected while its token is presented.
BeginRefreshUnmarked(p) ==
  /\ Refreshable(p)
  /\ Goto(p, "refreshing", row)
  /\ UNCHANGED <<row, pending, issuer, world>>

\* The durable mark, before the token is sent.
BeginRefresh(p) ==
  /\ Refreshable(p)
  /\ row' = [row EXCEPT !.state = "refresh_pending"]
  /\ Goto(p, "refreshing", row')
  /\ UNCHANGED <<pending, issuer, world>>

PresentToken(p) ==
  LET t == proc[p].rec.tok
  IN  /\ uses' = [uses EXCEPT ![t] = @ + 1]
      /\ seen' = [seen EXCEPT ![t] = @ \cup {issuer[p]}]

\* The reply is lost or refused; the mark stays.
RotationLost(p) ==
  /\ At(p, "refreshing") /\ row = proc[p].rec
  /\ PresentToken(p)
  /\ Return(p)
  /\ UNCHANGED <<row, pending, issuer, started, mint, codes, revoked>>

Rotated(p, t) ==
  /\ At(p, "refreshing")
  /\ PresentToken(p)
  /\ Mint(p, t, mint[proc[p].rec.tok].grant)
  /\ row' = Connection(t, issuer[p], proc[p].rec.oldTok, proc[p].rec.oldIss)
  /\ Return(p)
  /\ UNCHANGED <<pending, issuer, started, codes, revoked>>

\* Variant: without comparing the row to the marked one under the second lock.
RotateBlind(p, t) == Rotated(p, t)

Rotate(p, t) == row = proc[p].rec /\ Rotated(p, t)

\* Another process changed the connection before the second transaction.
RefreshOvertaken(p) ==
  /\ At(p, "refreshing") /\ row # proc[p].rec
  /\ Return(p)
  /\ UNCHANGED <<row, pending, issuer, world>>

-----------------------------------------------------------------------------
\* A process dies and starts again, perhaps with another issuer; its pending
\* sign-in and what it was doing are gone.
Restart(p, i) ==
  /\ issuer' = [issuer EXCEPT ![p] = i]
  /\ pending' = [pending EXCEPT ![p] = None]
  /\ Return(p)
  /\ UNCHANGED <<row, world>>

Next == \E p \in Procs :
  \/ BeginStart(p)
  \/ \E g \in Grants : Registered(p, g)
  \/ RegistrationFailed(p)
  \/ Lapse(p)
  \/ ExchangeLost(p)
  \/ \E t \in Tokens : Exchange(p, t)
  \/ RevokePrevious(p)
  \/ ForgetPrevious(p)
  \/ BeginDisconnect(p)
  \/ FinishDisconnect(p)
  \/ NothingToDisconnect(p)
  \/ BeginRefresh(p)
  \/ RotationLost(p)
  \/ \E t \in Tokens : Rotate(p, t)
  \/ RefreshOvertaken(p)
  \/ \E i \in Issuers : Restart(p, i)

Spec == Init /\ [][Next]_vars

-----------------------------------------------------------------------------
(* Properties *)

\* Every variable has its type.
TypeOK ==
  /\ row \in Row
  /\ pending \in [Procs -> Grants \cup {None}]
  /\ issuer \in [Procs -> Issuers]
  /\ proc \in [Procs -> ProcRow]
  /\ started \subseteq Grants
  /\ mint \in [Tokens -> MintRow]
  /\ uses \in [Tokens -> Nat]
  /\ codes \in [Grants -> Nat]
  /\ seen \in [Tokens -> SUBSET Issuers]
  /\ revoked \subseteq Grants

\* No refresh token and no authorization code is presented twice, whatever
\* replies are lost, processes die or race, and connections are replaced.
PresentedOnce ==
  /\ \A t \in Tokens : uses[t] <= 1
  /\ \A g \in Grants : codes[g] <= 1

\* A token is sent to no issuer but the one that issued it, even when the
\* configuration changed under a stored connection.
TokensStayHome ==
  \A t \in Tokens : seen[t] \subseteq {mint[t].iss}

Recorded(g) ==
  \/ row.tok # None /\ mint[row.tok].grant = g
  \/ row.oldTok # None /\ mint[row.oldTok].grant = g

\* A grant that was ever recorded stays recorded until its issuer ended it:
\* neither replacement, nor rotation, nor disconnecting loses one.
RecordedUntilRevoked ==
  [][\A g \in Grants : Recorded(g) => Recorded(g)' \/ g \in revoked']_vars

\* A connection a person ended does not come back: only the exchange of a new
\* consent makes one.
OnlySignInConnects ==
  [][row.state \in {"absent", "disconnected"} /\ row'.state \in {"connected", "refresh_pending"}
       => /\ row.state = "absent"
          /\ \A t \in Tokens : mint[t].grant # mint'[row'.tok].grant]_vars

=============================================================================
