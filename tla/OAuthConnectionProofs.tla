------------------------ MODULE OAuthConnectionProofs ------------------------
(***************************************************************************)
(* Theorems of OAuthConnection, for any number of processes, sign-ins,     *)
(* tokens and issuers.  The invariant says where each token of a record    *)
(* comes from, that the token a refresh is about to present was never      *)
(* presented and is nobody else's, and that what a process is about to     *)
(* forget has been revoked.                                                *)
(***************************************************************************)
EXTENDS OAuthConnection, TLAPS

Minted(t) == mint[t].grant # None

\* The tokens of a record were minted by the issuer the record names.
Known(m, rec) ==
  /\ rec.tok # None => m[rec.tok].grant # None /\ m[rec.tok].iss = rec.iss
  /\ rec.oldTok # None => m[rec.oldTok].grant # None /\ m[rec.oldTok].iss = rec.oldIss

Custody == Known(mint, row) /\ \A p \in Procs : Known(mint, proc[p].rec)

\* A process in the middle of an operation holds a record of its own issuer,
\* in the state it wrote.
Local ==
  \A p \in Procs :
    /\ At(p, "refreshing") => /\ proc[p].rec.state = "refresh_pending"
                              /\ proc[p].rec.iss = issuer[p]
    /\ proc[p].pc \in {"retiring", "retired"} => proc[p].rec.state = "connected"

\* Nothing happened to a token before it was minted.
Unminted == \A t \in Tokens : ~Minted(t) => uses[t] = 0 /\ seen[t] = {}

\* The token of a connection, and of a refresh under way, is still unused, and
\* no two refreshes hold the same one.
Unpresented ==
  /\ row.state = "connected" => uses[row.tok] = 0
  /\ \A p \in Procs : At(p, "refreshing") =>
       /\ uses[proc[p].rec.tok] = 0
       /\ row.tok = proc[p].rec.tok => row.state # "connected"
       /\ \A q \in Procs \ {p} : At(q, "refreshing") => proc[q].rec.tok # proc[p].rec.tok

\* A pending sign-in is one process's, its code unused, its grant not made.
Consent ==
  /\ \A g \in Grants \ started : codes[g] = 0 /\ \A t \in Tokens : mint[t].grant # g
  /\ \A p \in Procs : pending[p] # None =>
       /\ pending[p] \in started
       /\ codes[pending[p]] = 0
       /\ \A t \in Tokens : mint[t].grant # pending[p]
       /\ \A q \in Procs \ {p} : pending[q] # pending[p]

\* What is about to be forgotten has been revoked.
Retired == \A p \in Procs : At(p, "retired") => mint[proc[p].rec.oldTok].grant \in revoked

IInv == /\ TypeOK /\ Custody /\ Local /\ Unminted /\ Unpresented /\ Consent
        /\ Retired /\ PresentedOnce /\ TokensStayHome

-----------------------------------------------------------------------------
LEMMA InitInv == Init => IInv
<1> SUFFICES ASSUME Init PROVE IInv
  OBVIOUS
<1> USE OAuthAssumption
<1>1. /\ row \in Row
      /\ mint \in [Tokens -> MintRow]
      /\ started \subseteq Grants
      /\ Known(mint, row)
      /\ \A g \in Grants \ started : \A t \in Tokens : mint[t].grant # g
  <2>1. CASE Empty
    BY <2>1 DEF Empty, Row, AbsentRow, MintRow, NotMinted, Known
  <2>2. CASE \E t, u \in Tokens, i, j \in Issuers, g, h \in Grants : Legacy(t, u, i, j, g, h)
    <3>1. PICK t \in Tokens, u \in Tokens, i \in Issuers, j \in Issuers, g \in Grants, h \in Grants :
            Legacy(t, u, i, j, g, h)
      BY <2>2
    <3>2. row \in Row
      BY <3>1 DEF Legacy, LegacyRow, Row, ReplacingRow
    <3>3. mint \in [Tokens -> MintRow]
      BY <3>1 DEF Legacy, MintRow, NotMinted
    <3>4. Known(mint, row)
      BY <3>1 DEF Legacy, LegacyRow, Known, Minted
    <3> QED
      BY <3>1, <3>2, <3>3, <3>4 DEF Legacy, NotMinted
  <2> QED
    BY <2>1, <2>2 DEF Init
<1>2. \A p \in Procs : proc[p] = Idle /\ proc[p].pc = "idle" /\ proc[p].rec.tok = None
                       /\ proc[p].rec.oldTok = None
  BY DEF Init, Idle, AbsentRow
<1>3. TypeOK
  BY <1>1, <1>2 DEF Init, TypeOK, ProcRow
<1>4. Custody /\ Local /\ Retired
  BY <1>1, <1>2 DEF Custody, Known, Local, Retired, At
<1>5. row.state = "connected" => row.tok \in Tokens
  BY <1>1 DEF Row, AbsentRow, KeptRow, ReplacingRow
<1>6. Unminted /\ Unpresented /\ PresentedOnce /\ TokensStayHome
  BY <1>2, <1>5 DEF Init, Unminted, Unpresented, PresentedOnce, TokensStayHome, At
<1>7. Consent
  BY <1>1 DEF Init, Consent
<1> QED
  BY <1>3, <1>4, <1>6, <1>7 DEF IInv

\* A record is what it should be, and so is a process.
LEMMA Shapes ==
  ASSUME IInv
  PROVE  /\ row.tok \in Tokens \cup {None} /\ row.oldTok \in Tokens \cup {None}
         /\ row.tok = None <=> row.state = "absent"
         /\ row.state = "absent" => row = AbsentRow
         /\ row.tok # None => row.iss \in Issuers
         /\ row.oldTok # None => row.oldIss \in Issuers
         /\ row.oldTok = None => row.oldIss = None
         /\ \A p \in Procs :
              /\ proc[p].rec \in Row
              /\ proc[p].rec.tok \in Tokens \cup {None}
              /\ proc[p].rec.oldTok \in Tokens \cup {None}
              /\ At(p, "idle") => proc[p] = Idle
              /\ At(p, "refreshing") => proc[p].rec.tok \in Tokens
              /\ proc[p].pc \in {"retiring", "retired"} =>
                   proc[p].rec \in ReplacingRow
<1> USE OAuthAssumption
<1>1. row \in Row /\ proc \in [Procs -> ProcRow]
  BY DEF IInv, TypeOK
<1>2. /\ row.tok \in Tokens \cup {None} /\ row.oldTok \in Tokens \cup {None}
      /\ row.tok = None <=> row.state = "absent"
      /\ row.state = "absent" => row = AbsentRow
      /\ row.tok # None => row.iss \in Issuers
      /\ row.oldTok # None => row.oldIss \in Issuers
      /\ row.oldTok = None => row.oldIss = None
  BY <1>1 DEF Row, AbsentRow, KeptRow, ReplacingRow
<1>3. ASSUME NEW p \in Procs
      PROVE  /\ proc[p].rec \in Row
             /\ proc[p].rec.tok \in Tokens \cup {None}
             /\ proc[p].rec.oldTok \in Tokens \cup {None}
             /\ At(p, "idle") => proc[p] = Idle
             /\ At(p, "refreshing") => proc[p].rec.tok \in Tokens
             /\ proc[p].pc \in {"retiring", "retired"} => proc[p].rec \in ReplacingRow
  BY <1>1, <1>3 DEF ProcRow, Idle, Row, AbsentRow, KeptRow, ReplacingRow, At
<1> QED
  BY <1>2, <1>3

-----------------------------------------------------------------------------
\* Steps that touch neither the row nor the world, and leave the process with
\* nothing in hand.
LEMMA Frame ==
  ASSUME IInv, NEW p \in Procs, NEW i \in Issuers,
         NEW pc \in {"idle", "registering", "disconnecting"},
         proc' = [proc EXCEPT ![p] = [pc |-> pc, rec |-> AbsentRow]],
         issuer' = [issuer EXCEPT ![p] = i],
         pending' = pending \/ pending' = [pending EXCEPT ![p] = None],
         UNCHANGED <<row, world>>
  PROVE  IInv'
<1> USE OAuthAssumption
<1>1. UNCHANGED <<row, started, mint, uses, codes, seen, revoked>>
  BY DEF world
<1>2. /\ proc'[p].pc = pc /\ proc'[p].rec = AbsentRow
      /\ \A q \in Procs \ {p} : proc'[q] = proc[q] /\ issuer'[q] = issuer[q]
  BY DEF IInv, TypeOK
<1>3. TypeOK'
  BY <1>1 DEF IInv, TypeOK, ProcRow, Idle
<1>4. Custody'
  BY <1>1, <1>2 DEF IInv, Custody, Known, Minted, AbsentRow
<1>5. Local' /\ Retired'
  BY <1>1, <1>2 DEF IInv, Local, Retired, At
<1>6. Unpresented'
  BY <1>1, <1>2 DEF IInv, Unpresented, At
<1>7. Consent'
  BY <1>1 DEF IInv, TypeOK, Consent
<1>8. Unminted' /\ PresentedOnce' /\ TokensStayHome'
  BY <1>1 DEF IInv, Unminted, Minted, PresentedOnce, TokensStayHome
<1> QED
  BY <1>3, <1>4, <1>5, <1>6, <1>7, <1>8 DEF IInv

LEMMA QuietKeeps ==
  ASSUME IInv, NEW p \in Procs,
         \/ BeginStart(p) \/ RegistrationFailed(p) \/ Lapse(p)
         \/ NothingToDisconnect(p) \/ RefreshOvertaken(p)
         \/ \E i \in Issuers : Restart(p, i)
  PROVE  IInv'
<1>1. issuer = [issuer EXCEPT ![p] = issuer[p]] /\ issuer[p] \in Issuers
  BY DEF IInv, TypeOK
<1>2. CASE BeginStart(p)
  BY <1>1, <1>2, Frame DEF BeginStart, Goto
<1>3. CASE RegistrationFailed(p) \/ NothingToDisconnect(p) \/ RefreshOvertaken(p)
  BY <1>1, <1>3, Frame DEF RegistrationFailed, NothingToDisconnect, RefreshOvertaken, Return, Idle
<1>4. CASE Lapse(p)
  <2>1. proc = [proc EXCEPT ![p] = [pc |-> "idle", rec |-> AbsentRow]]
    BY <1>4, Shapes DEF Lapse, Idle, IInv, TypeOK
  <2> QED
    BY <1>1, <1>4, <2>1, Frame DEF Lapse
<1>5. CASE \E i \in Issuers : Restart(p, i)
  BY <1>5, Frame DEF Restart, Return, Idle
<1> QED
  BY <1>2, <1>3, <1>4, <1>5

LEMMA RegisteredKeeps ==
  ASSUME IInv, NEW p \in Procs, NEW g \in Grants, Registered(p, g)
  PROVE  IInv'
<1> USE OAuthAssumption DEF Registered, Return
<1>1. /\ proc'[p] = Idle
      /\ \A q \in Procs \ {p} : proc'[q] = proc[q] /\ pending'[q] = pending[q]
      /\ pending'[p] = g
  BY DEF IInv, TypeOK
<1>2. TypeOK'
  BY DEF IInv, TypeOK, ProcRow
<1>3. Custody' /\ Local' /\ Retired'
  BY <1>1 DEF IInv, Custody, Known, Minted, Local, Retired, At, Idle, AbsentRow
<1>4. Unpresented'
  BY <1>1 DEF IInv, Unpresented, At, Idle
<1>5. Consent'
  BY <1>1 DEF IInv, Consent
<1>6. Unminted' /\ PresentedOnce' /\ TokensStayHome'
  BY DEF IInv, Unminted, Minted, PresentedOnce, TokensStayHome
<1> QED
  BY <1>2, <1>3, <1>4, <1>5, <1>6 DEF IInv

\* The code is p's own, unused, and nobody else's.
LEMMA CodeSpent ==
  ASSUME IInv, NEW p \in Procs, PresentCode(p),
         pending' = [pending EXCEPT ![p] = None], UNCHANGED started
  PROVE  /\ pending[p] \in Grants /\ pending[p] \in started
         /\ codes' \in [Grants -> Nat] /\ \A g \in Grants : codes'[g] <= 1
         /\ \A g \in Grants \ started : codes'[g] = 0
         /\ \A q \in Procs : pending'[q] # None =>
              q # p /\ pending'[q] = pending[q] /\ pending[q] # pending[p] /\ codes'[pending[q]] = 0
<1> USE OAuthAssumption DEF PresentCode
<1>1. pending[p] \in Grants /\ pending[p] \in started /\ codes[pending[p]] = 0
  BY DEF IInv, TypeOK, Consent
<1>2. codes' \in [Grants -> Nat] /\ \A g \in Grants : codes'[g] <= 1
  BY <1>1 DEF IInv, TypeOK, PresentedOnce
<1>3. \A g \in Grants \ started : codes'[g] = 0
  BY <1>1 DEF IInv, TypeOK, Consent
<1>4. ASSUME NEW q \in Procs, pending'[q] # None
      PROVE  q # p /\ pending'[q] = pending[q] /\ pending[q] # pending[p] /\ codes'[pending[q]] = 0
  <2>1. q # p /\ pending'[q] = pending[q]
    BY <1>4 DEF IInv, TypeOK
  <2>2. pending[q] \in Grants /\ codes[pending[q]] = 0 /\ pending[q] # pending[p]
    BY <1>4, <2>1 DEF IInv, TypeOK, Consent
  <2> QED
    BY <2>1, <2>2 DEF IInv, TypeOK
<1> QED
  BY <1>1, <1>2, <1>3, <1>4

LEMMA ExchangeLostKeeps ==
  ASSUME IInv, NEW p \in Procs, ExchangeLost(p)
  PROVE  IInv'
<1> USE OAuthAssumption DEF ExchangeLost
<1>1. /\ pending[p] \in Grants /\ pending[p] \in started
      /\ codes' \in [Grants -> Nat] /\ \A g \in Grants : codes'[g] <= 1
      /\ \A g \in Grants \ started : codes'[g] = 0
      /\ \A q \in Procs : pending'[q] # None =>
           q # p /\ pending'[q] = pending[q] /\ pending[q] # pending[p] /\ codes'[pending[q]] = 0
  BY CodeSpent
<1>2. TypeOK'
  BY <1>1 DEF IInv, TypeOK
<1>3. Custody' /\ Local' /\ Retired' /\ Unminted' /\ TokensStayHome' /\ Unpresented'
  BY DEF IInv, Custody, Known, Minted, Local, Retired, At, Unminted, TokensStayHome, Unpresented
<1>4. Consent'
  <2>1. \A q, r \in Procs : pending'[q] # None /\ q # r => pending'[r] # pending'[q]
    BY <1>1 DEF IInv, TypeOK, Consent
  <2> QED
    BY <1>1, <2>1 DEF IInv, Consent
<1>5. PresentedOnce'
  BY <1>1 DEF IInv, PresentedOnce
<1> QED
  BY <1>2, <1>3, <1>4, <1>5 DEF IInv

\* What a new token reply leaves of the facts about the others.
LEMMA Minting ==
  ASSUME IInv, NEW p \in Procs, NEW t \in Tokens, NEW g \in Grants, Mint(p, t, g)
  PROVE  /\ ~Minted(t) /\ uses[t] = 0 /\ seen[t] = {}
         /\ mint' \in [Tokens -> MintRow]
         /\ Minted(t)' /\ mint'[t].grant = g /\ mint'[t].iss = issuer[p]
         /\ \A u \in Tokens \ {t} : mint'[u] = mint[u] /\ (Minted(u)' <=> Minted(u))
<1> USE OAuthAssumption
<1>1. ~Minted(t) /\ uses[t] = 0 /\ seen[t] = {}
  BY DEF Mint, Minted, NotMinted, IInv, Unminted
<1>2. PICK lasting \in BOOLEAN :
        mint' = [mint EXCEPT ![t] = [grant |-> g, iss |-> issuer[p], lasting |-> lasting]]
  BY DEF Mint
<1>3. /\ mint' \in [Tokens -> MintRow]
      /\ mint'[t].grant = g /\ mint'[t].iss = issuer[p]
      /\ \A u \in Tokens \ {t} : mint'[u] = mint[u]
  BY <1>2 DEF IInv, TypeOK, MintRow
<1>4. Minted(t)' /\ \A u \in Tokens \ {t} : Minted(u)' <=> Minted(u)
  BY <1>3 DEF Minted
<1> QED
  BY <1>1, <1>3, <1>4

LEMMA ExchangeKeeps ==
  ASSUME IInv, NEW p \in Procs, NEW t \in Tokens, Exchange(p, t)
  PROVE  IInv'
<1> USE OAuthAssumption DEF Exchange
<1>1. /\ pending[p] \in Grants /\ pending[p] \in started
      /\ codes' \in [Grants -> Nat] /\ \A g \in Grants : codes'[g] <= 1
      /\ \A g \in Grants \ started : codes'[g] = 0
      /\ \A q \in Procs : pending'[q] # None =>
           q # p /\ pending'[q] = pending[q] /\ pending[q] # pending[p] /\ codes'[pending[q]] = 0
  BY CodeSpent
<1>2. Mint(p, t, pending[p]) /\ issuer[p] \in Issuers /\ At(p, "idle")
  BY DEF IInv, TypeOK, PresentCode
<1>minted. /\ ~Minted(t) /\ uses[t] = 0 /\ seen[t] = {}
      /\ mint' \in [Tokens -> MintRow]
      /\ Minted(t)' /\ mint'[t].grant = pending[p] /\ mint'[t].iss = issuer[p]
      /\ \A u \in Tokens \ {t} : mint'[u] = mint[u] /\ (Minted(u)' <=> Minted(u))
  BY <1>1, <1>2, Minting
<1>3. /\ row'.state = "connected" /\ row'.tok = t /\ row'.iss = issuer[p]
      /\ row'.oldTok = row.tok /\ row'.oldIss = row.iss
  BY DEF Connection
<1>4. row' \in KeptRow \cup ReplacingRow /\ (row.state # "absent" => row' \in ReplacingRow)
  BY <1>2, Shapes DEF Connection, KeptRow, ReplacingRow, AbsentRow
<1>5. /\ proc' \in [Procs -> ProcRow]
      /\ \A q \in Procs \ {p} : proc'[q] = proc[q]
      /\ proc'[p] = Idle \/ (proc'[p].pc = "retiring" /\ proc'[p].rec = row')
  <2>1. CASE row.state = "absent"
    BY <2>1, <1>2, Shapes DEF IInv, TypeOK
  <2>2. CASE row.state # "absent"
    BY <2>2, <1>4 DEF IInv, TypeOK, Goto, ProcRow
  <2> QED
    BY <2>1, <2>2
<1>6. TypeOK'
  BY <1>1, <1>2, <1>4, <1>5, <1>minted DEF IInv, TypeOK, Row
<1>others. /\ row.tok # t /\ row.oldTok # t /\ Known(mint', row)
           /\ \A q \in Procs : /\ proc[q].rec.tok # t /\ proc[q].rec.oldTok # t
                               /\ Known(mint', proc[q].rec)
                               /\ At(q, "retired") => proc[q].rec.oldTok \in Tokens
  <2>1. \A u \in Tokens : mint[u].grant # None => u # t /\ mint'[u] = mint[u]
    BY <1>minted DEF Minted
  <2>2. row.tok # t /\ row.oldTok # t /\ Known(mint', row)
    BY <2>1, <1>minted, Shapes DEF IInv, Custody, Known, Minted
  <2>3. ASSUME NEW q \in Procs
        PROVE  /\ proc[q].rec.tok # t /\ proc[q].rec.oldTok # t
               /\ Known(mint', proc[q].rec)
               /\ At(q, "retired") => proc[q].rec.oldTok \in Tokens
    <3>1. /\ Known(mint, proc[q].rec)
          /\ proc[q].rec.tok \in Tokens \cup {None} /\ proc[q].rec.oldTok \in Tokens \cup {None}
      BY Shapes DEF IInv, Custody
    <3>2. At(q, "retired") => proc[q].rec.oldTok \in Tokens
      BY Shapes DEF At, ReplacingRow
    <3> QED
      BY <2>1, <3>1, <3>2, <1>minted DEF Known, Minted
  <2> QED
    BY <2>2, <2>3
<1>7. Custody'
  <2>2. Known(mint', row')
    BY <1>3, <1>minted, <1>others DEF Known, Minted
  <2>3. \A q \in Procs \ {p} : Known(mint', proc'[q].rec)
    BY <1>5, <1>others
  <2>4. Known(mint', proc'[p].rec)
    BY <1>5, <2>2 DEF Known, Idle, AbsentRow
  <2> QED
    BY <2>2, <2>3, <2>4 DEF Custody, Known
<1>8. Local' /\ Retired'
  <2>1. \A q \in Procs : At(q, "retired") => proc[q].rec.oldTok \in Tokens /\ proc[q].rec.oldTok # t
    BY <1>others
  <2> QED
    BY <1>2, <1>3, <1>5, <2>1, <1>minted DEF IInv, Local, Retired, At, Idle
<1>9. Unminted'
  BY <1>2, <1>minted DEF IInv, Unminted
<1>10. Unpresented'
  <2>1. \A q \in Procs : At(q, "refreshing") => proc[q].rec.tok # t
    BY <1>others
  <2> QED
    BY <1>2, <1>3, <1>5, <2>1, <1>minted DEF IInv, Unpresented, At, Idle
<1>11. Consent'
  <2>1. \A q \in Procs : pending'[q] # None =>
          \A r \in Procs \ {q} : pending'[r] # pending'[q]
    BY <1>1 DEF IInv, TypeOK, Consent
  <2>2. \A q \in Procs : pending'[q] # None => \A u \in Tokens : mint'[u].grant # pending'[q]
    BY <1>1, <1>2, <1>minted DEF IInv, Consent
  <2>3. \A g \in Grants \ started : \A u \in Tokens : mint'[u].grant # g
    BY <1>1, <1>2, <1>minted DEF IInv, Consent
  <2> QED
    BY <1>1, <2>1, <2>2, <2>3 DEF IInv, Consent
<1>12. PresentedOnce' /\ TokensStayHome'
  BY <1>1, <1>2, <1>minted DEF IInv, PresentedOnce, TokensStayHome
<1> QED
  BY <1>6, <1>7, <1>8, <1>9, <1>10, <1>11, <1>12 DEF IInv

-----------------------------------------------------------------------------
\* Revocation adds to what the issuers ended, and sends home what it sends.
LEMMA Revoking ==
  ASSUME IInv, NEW p \in Procs, NEW rec \in Row, Known(mint, rec),
         NEW ts \in SUBSET Revocable(p, rec), NEW acted \in SUBSET ts,
         Revoke(p, ts, acted), UNCHANGED mint
  PROVE  /\ seen' \in [Tokens -> SUBSET Issuers] /\ revoked' \subseteq Grants
         /\ revoked \subseteq revoked' /\ \A t \in acted : mint[t].grant \in revoked'
         /\ TokensStayHome'
         /\ \A t \in Tokens : ~Minted(t) => seen'[t] = seen[t]
<1> USE OAuthAssumption DEF Revoke
<1>1. \A t \in ts : t \in Tokens /\ Minted(t) /\ mint[t].iss = issuer[p]
  BY DEF Revocable, Known, Minted, Row, AbsentRow, KeptRow, ReplacingRow
<1>2. \A t \in Tokens : Minted(t) => mint[t].grant \in Grants
  BY DEF IInv, TypeOK, MintRow, NotMinted, Minted
<1>3. revoked' \subseteq Grants /\ revoked \subseteq revoked'
      /\ \A t \in acted : mint[t].grant \in revoked'
  BY <1>1, <1>2 DEF IInv, TypeOK
<1>4. seen' \in [Tokens -> SUBSET Issuers]
  BY DEF IInv, TypeOK
<1>5. TokensStayHome'
  BY <1>1 DEF IInv, TypeOK, TokensStayHome
<1> QED
  BY <1>1, <1>3, <1>4, <1>5

LEMMA RevokePreviousKeeps ==
  ASSUME IInv, NEW p \in Procs, RevokePrevious(p)
  PROVE  IInv'
<1> USE OAuthAssumption
<1>1. /\ At(p, "retiring") /\ proc[p].rec \in ReplacingRow /\ proc[p].rec \in Row
      /\ Known(mint, proc[p].rec)
      /\ UNCHANGED <<row, pending, issuer, started, mint, uses, codes>>
  BY Shapes DEF RevokePrevious, IInv, Custody, At
<1> DEFINE ts == Revocable(p, proc[p].rec) \cap {proc[p].rec.oldTok}
<1>2. PICK acted \in SUBSET ts :
        /\ Revoke(p, ts, acted)
        /\ \/ acted # {} /\ Goto(p, "retired", proc[p].rec)
           \/ Return(p)
  BY DEF RevokePrevious
<1>3. /\ seen' \in [Tokens -> SUBSET Issuers] /\ revoked' \subseteq Grants
      /\ revoked \subseteq revoked' /\ \A t \in acted : mint[t].grant \in revoked'
      /\ TokensStayHome'
      /\ \A t \in Tokens : ~Minted(t) => seen'[t] = seen[t]
  <2>1. ts \in SUBSET Revocable(p, proc[p].rec)
    OBVIOUS
  <2> HIDE DEF ts
  <2> QED
    BY <1>1, <1>2, <2>1, Revoking
<1>4. /\ \A q \in Procs \ {p} : proc'[q] = proc[q]
      /\ \/ proc'[p].pc = "retired" /\ proc'[p].rec = proc[p].rec /\ proc[p].rec.oldTok \in acted
         \/ proc'[p] = Idle
      /\ proc' \in [Procs -> ProcRow]
  BY <1>1, <1>2 DEF IInv, TypeOK, Goto, Return, ProcRow
<1>5. TypeOK'
  BY <1>1, <1>3, <1>4 DEF IInv, TypeOK
<1>6. Custody' /\ Local'
  BY <1>1, <1>4 DEF IInv, Custody, Known, Local, At, Idle, AbsentRow
<1>7. Retired'
  BY <1>1, <1>3, <1>4 DEF IInv, Retired, At, Idle
<1>8. Unpresented'
  BY <1>1, <1>4 DEF IInv, Unpresented, At, Idle
<1>9. Unminted' /\ Consent' /\ PresentedOnce'
  BY <1>1, <1>3 DEF IInv, Unminted, Minted, Consent, PresentedOnce
<1> QED
  BY <1>3, <1>5, <1>6, <1>7, <1>8, <1>9 DEF IInv

\* Steps of one process that only rewrite the row.
LEMMA ForgetPreviousKeeps ==
  ASSUME IInv, NEW p \in Procs, ForgetPrevious(p)
  PROVE  IInv'
<1> USE OAuthAssumption
<1>1. UNCHANGED <<pending, issuer, started, mint, uses, codes, seen, revoked>>
  BY DEF ForgetPrevious, world
<1>2. /\ proc'[p] = Idle /\ \A q \in Procs \ {p} : proc'[q] = proc[q]
      /\ proc' \in [Procs -> ProcRow]
  BY DEF ForgetPrevious, Return, IInv, TypeOK, ProcRow
<1>3. row' \in Row /\ row'.tok = row.tok /\ row'.iss = row.iss /\ row'.state = row.state
      /\ (row'.oldTok = None \/ row' = row)
  <2>1. CASE row # proc[p].rec
    BY <2>1 DEF ForgetPrevious, IInv, TypeOK
  <2>2. CASE row = proc[p].rec
    <3>1. row \in ReplacingRow /\ row' = [row EXCEPT !.oldTok = None, !.oldIss = None]
      BY <2>2, Shapes DEF ForgetPrevious, At
    <3> QED
      BY <3>1 DEF Row, KeptRow, ReplacingRow
  <2> QED
    BY <2>1, <2>2
<1>4. TypeOK'
  BY <1>1, <1>2, <1>3 DEF IInv, TypeOK
<1>5. Custody'
  BY <1>1, <1>2, <1>3 DEF IInv, Custody, Known, Idle, AbsentRow
<1>6. Local' /\ Retired'
  BY <1>1, <1>2 DEF IInv, Local, Retired, At, Idle
<1>7. Unpresented'
  BY <1>1, <1>2, <1>3 DEF IInv, Unpresented, At, Idle
<1>8. Unminted' /\ Consent' /\ PresentedOnce' /\ TokensStayHome'
  BY <1>1 DEF IInv, Unminted, Minted, Consent, PresentedOnce, TokensStayHome
<1> QED
  BY <1>4, <1>5, <1>6, <1>7, <1>8 DEF IInv

LEMMA BeginDisconnectKeeps ==
  ASSUME IInv, NEW p \in Procs, BeginDisconnect(p)
  PROVE  IInv'
<1> USE OAuthAssumption
<1>1. UNCHANGED <<issuer, started, mint, uses, codes, seen, revoked>>
      /\ pending' = [pending EXCEPT ![p] = None] /\ row.state # "absent"
  BY DEF BeginDisconnect, world
<1>2. /\ proc'[p].pc = "disconnecting" /\ proc'[p].rec = AbsentRow
      /\ \A q \in Procs \ {p} : proc'[q] = proc[q]
      /\ proc' \in [Procs -> ProcRow]
  BY DEF BeginDisconnect, Goto, IInv, TypeOK, ProcRow
<1>3. row' \in Row /\ row'.tok = row.tok /\ row'.iss = row.iss /\ row'.state = "disconnected"
      /\ row'.oldTok = row.oldTok /\ row'.oldIss = row.oldIss
  BY <1>1 DEF BeginDisconnect, IInv, TypeOK, Row, AbsentRow, KeptRow, ReplacingRow
<1>4. TypeOK'
  BY <1>1, <1>2, <1>3 DEF IInv, TypeOK
<1>5. Custody'
  BY <1>1, <1>2, <1>3 DEF IInv, Custody, Known, AbsentRow
<1>6. Local' /\ Retired'
  BY <1>1, <1>2 DEF IInv, Local, Retired, At
<1>7. Unpresented'
  BY <1>1, <1>2, <1>3 DEF IInv, Unpresented, At
<1>8. Unminted' /\ Consent' /\ PresentedOnce' /\ TokensStayHome'
  BY <1>1 DEF IInv, TypeOK, Unminted, Minted, Consent, PresentedOnce, TokensStayHome
<1> QED
  BY <1>4, <1>5, <1>6, <1>7, <1>8 DEF IInv

\* What a disconnect leaves: nothing, or tokens the row already held, under
\* the issuers it named; a grant it drops was confirmed as revoked.
LEMMA RemainingRow ==
  ASSUME IInv, row.state # "absent", NEW told \in SUBSET Tokens
  PROVE  /\ Remaining(told) \in Row /\ Known(mint, Remaining(told))
         /\ Remaining(told).state = "connected" => row.state = "connected" /\ Remaining(told).tok = row.tok
         /\ Remaining(told).state \notin {"connected", "refresh_pending"} \/ Remaining(told).state = row.state
         /\ \A t \in {row.tok, row.oldTok} \ {None} :
              t \in told \/ t \in {Remaining(told).tok, Remaining(told).oldTok}
<1> USE OAuthAssumption
<1>1. row \in KeptRow \cup ReplacingRow /\ Known(mint, row)
  BY Shapes DEF IInv, TypeOK, Row, AbsentRow, Custody
<1> DEFINE new == [AbsentRow EXCEPT !.state = "disconnected", !.tok = row.oldTok, !.iss = row.oldIss]
           cut == [row EXCEPT !.oldTok = None, !.oldIss = None]
<1>2. /\ cut \in Row /\ cut.tok = row.tok /\ cut.oldTok = None /\ cut.state = row.state
      /\ cut.iss = row.iss
  BY <1>1 DEF Row, KeptRow, ReplacingRow
<1>3. row.oldTok # None => /\ new \in Row /\ new.tok = row.oldTok /\ new.iss = row.oldIss
                           /\ new.oldTok = None /\ new.state = "disconnected"
  BY <1>1 DEF Row, KeptRow, ReplacingRow, AbsentRow
<1>4. AbsentRow \in Row /\ AbsentRow.tok = None /\ AbsentRow.oldTok = None /\ AbsentRow.state = "absent"
  BY DEF Row, AbsentRow
<1>5. \/ row.tok \notin told /\ row.oldTok # None /\ row.oldTok \notin told /\ Remaining(told) = row
      \/ row.tok \notin told /\ (row.oldTok = None \/ row.oldTok \in told) /\ Remaining(told) = cut
      \/ row.tok \in told /\ row.oldTok # None /\ row.oldTok \notin told /\ Remaining(told) = new
      \/ row.tok \in told /\ (row.oldTok = None \/ row.oldTok \in told) /\ Remaining(told) = AbsentRow
  BY DEF Remaining
<1> HIDE DEF new, cut
<1>6. row \in Row
  BY DEF IInv, TypeOK
<1> QED
  BY <1>1, <1>2, <1>3, <1>4, <1>5, <1>6 DEF Known

LEMMA FinishDisconnectKeeps ==
  ASSUME IInv, NEW p \in Procs, FinishDisconnect(p)
  PROVE  IInv'
<1> USE OAuthAssumption
<1>1. UNCHANGED <<pending, issuer, started, mint, uses, codes>> /\ row.state # "absent"
  BY DEF FinishDisconnect
<1>2. PICK acted \in SUBSET Revocable(p, row) : \E told \in SUBSET acted :
        Revoke(p, Revocable(p, row), acted) /\ row' = Remaining(told)
  BY DEF FinishDisconnect
<1>3. PICK told \in SUBSET acted : Revoke(p, Revocable(p, row), acted) /\ row' = Remaining(told)
  BY <1>2
<1>4. /\ seen' \in [Tokens -> SUBSET Issuers] /\ revoked' \subseteq Grants
      /\ revoked \subseteq revoked'
      /\ TokensStayHome'
      /\ \A t \in Tokens : ~Minted(t) => seen'[t] = seen[t]
  BY <1>1, <1>3, Revoking DEF IInv, TypeOK, Custody
<1>5. told \in SUBSET Tokens
  BY Shapes DEF Revocable
<1>6. /\ row' \in Row /\ Known(mint, row')
      /\ row'.state = "connected" => row.state = "connected" /\ row'.tok = row.tok
  BY <1>1, <1>3, <1>5, RemainingRow
<1>7. /\ proc'[p] = Idle /\ \A q \in Procs \ {p} : proc'[q] = proc[q]
      /\ proc' \in [Procs -> ProcRow]
  BY DEF FinishDisconnect, Return, IInv, TypeOK, ProcRow
<1>8. TypeOK'
  BY <1>1, <1>4, <1>6, <1>7 DEF IInv, TypeOK
<1>9. Custody'
  BY <1>1, <1>6, <1>7 DEF IInv, Custody, Known, Idle, AbsentRow
<1>10. Local' /\ Retired'
  BY <1>1, <1>4, <1>7 DEF IInv, Local, Retired, At, Idle
<1>11. Unpresented'
  BY <1>1, <1>6, <1>7 DEF IInv, Unpresented, At, Idle
<1>12. Unminted' /\ Consent' /\ PresentedOnce'
  BY <1>1, <1>4 DEF IInv, Unminted, Minted, Consent, PresentedOnce
<1> QED
  BY <1>4, <1>8, <1>9, <1>10, <1>11, <1>12 DEF IInv

-----------------------------------------------------------------------------
LEMMA BeginRefreshKeeps ==
  ASSUME IInv, NEW p \in Procs, BeginRefresh(p)
  PROVE  IInv'
<1> USE OAuthAssumption
<1>1. /\ UNCHANGED <<pending, issuer, started, mint, uses, codes, seen, revoked>>
      /\ row.state = "connected" /\ row.iss = issuer[p]
  BY DEF BeginRefresh, Refreshable, world
<1>2. row \in KeptRow \cup ReplacingRow /\ uses[row.tok] = 0 /\ Known(mint, row)
  BY <1>1, Shapes DEF IInv, TypeOK, Row, AbsentRow, Custody, Unpresented
<1>3. /\ row' \in KeptRow \cup ReplacingRow
      /\ row'.tok = row.tok /\ row'.iss = row.iss /\ row'.state = "refresh_pending"
      /\ row'.oldTok = row.oldTok /\ row'.oldIss = row.oldIss
  BY <1>2 DEF BeginRefresh, KeptRow, ReplacingRow
<1>4. /\ proc' \in [Procs -> ProcRow]
      /\ proc'[p].pc = "refreshing" /\ proc'[p].rec = row'
      /\ \A q \in Procs \ {p} : proc'[q] = proc[q]
  BY <1>3 DEF BeginRefresh, Goto, IInv, TypeOK, ProcRow
<1>5. TypeOK'
  BY <1>1, <1>3, <1>4 DEF IInv, TypeOK, Row
<1>6. Custody'
  BY <1>1, <1>2, <1>3, <1>4 DEF IInv, Custody, Known
<1>7. Local' /\ Retired'
  BY <1>1, <1>3, <1>4 DEF IInv, Local, Retired, At
<1>8. Unpresented'
  BY <1>1, <1>2, <1>3, <1>4 DEF IInv, Unpresented, At
<1>9. Unminted' /\ Consent' /\ PresentedOnce' /\ TokensStayHome'
  BY <1>1 DEF IInv, Unminted, Minted, Consent, PresentedOnce, TokensStayHome
<1> QED
  BY <1>5, <1>6, <1>7, <1>8, <1>9 DEF IInv

\* The token presented is the issuer's own, minted, unused, and of this
\* refresh only.
LEMMA Presenting ==
  ASSUME IInv, NEW p \in Procs, At(p, "refreshing"), PresentToken(p)
  PROVE  LET u == proc[p].rec.tok
         IN  /\ u \in Tokens /\ Minted(u) /\ mint[u].iss = issuer[p] /\ uses'[u] = 1
             /\ \A x \in Tokens \ {u} : uses'[x] = uses[x] /\ seen'[x] = seen[x]
             /\ seen'[u] = seen[u] \cup {issuer[p]}
             /\ uses' \in [Tokens -> Nat] /\ seen' \in [Tokens -> SUBSET Issuers]
             /\ \A q \in Procs \ {p} : At(q, "refreshing") => proc[q].rec.tok # u
             /\ row.tok = u => row.state # "connected"
<1> USE OAuthAssumption
<1> DEFINE u == proc[p].rec.tok
<1>1. u \in Tokens /\ uses[u] = 0 /\ issuer[p] \in Issuers
  BY Shapes DEF IInv, TypeOK, Unpresented
<1>2. Minted(u) /\ mint[u].iss = issuer[p]
  BY <1>1 DEF IInv, Custody, Known, Minted, Local
<1>3. /\ uses' = [uses EXCEPT ![u] = @ + 1]
      /\ seen' = [seen EXCEPT ![u] = @ \cup {issuer[p]}]
  BY DEF PresentToken
<1>4. /\ uses'[u] = 1 /\ uses' \in [Tokens -> Nat] /\ seen' \in [Tokens -> SUBSET Issuers]
      /\ \A x \in Tokens \ {u} : uses'[x] = uses[x] /\ seen'[x] = seen[x]
      /\ seen'[u] = seen[u] \cup {issuer[p]}
  BY <1>1, <1>3 DEF IInv, TypeOK
<1>5. /\ \A q \in Procs \ {p} : At(q, "refreshing") => proc[q].rec.tok # u
      /\ row.tok = u => row.state # "connected"
  BY DEF IInv, Unpresented
<1> QED
  BY <1>1, <1>2, <1>4, <1>5

LEMMA RotationLostKeeps ==
  ASSUME IInv, NEW p \in Procs, RotationLost(p)
  PROVE  IInv'
<1> USE OAuthAssumption
<1> DEFINE u == proc[p].rec.tok
<1>1. /\ u \in Tokens /\ Minted(u) /\ mint[u].iss = issuer[p] /\ uses'[u] = 1
      /\ \A x \in Tokens \ {u} : uses'[x] = uses[x] /\ seen'[x] = seen[x]
      /\ seen'[u] = seen[u] \cup {issuer[p]}
      /\ uses' \in [Tokens -> Nat] /\ seen' \in [Tokens -> SUBSET Issuers]
      /\ \A q \in Procs \ {p} : At(q, "refreshing") => proc[q].rec.tok # u
      /\ row.tok = u => row.state # "connected"
  BY Presenting DEF RotationLost
<1>2. /\ proc'[p] = Idle /\ \A q \in Procs \ {p} : proc'[q] = proc[q]
      /\ proc' \in [Procs -> ProcRow]
      /\ UNCHANGED <<row, pending, issuer, started, mint, codes, revoked>>
  BY DEF RotationLost, Return, IInv, TypeOK, ProcRow
<1> HIDE DEF u
<1>3. TypeOK'
  BY <1>1, <1>2 DEF IInv, TypeOK
<1>4. Custody' /\ Local' /\ Retired'
  BY <1>2 DEF IInv, Custody, Known, Local, Retired, At, Idle, AbsentRow
<1>5. Unpresented'
  <2>1. row.state = "connected" => uses'[row.tok] = 0
    BY <1>1, Shapes DEF IInv, Unpresented
  <2>2. \A q \in Procs : At(q, "refreshing") /\ q # p => uses'[proc[q].rec.tok] = 0
    BY <1>1, Shapes DEF IInv, Unpresented
  <2> QED
    BY <1>2, <2>1, <2>2 DEF IInv, Unpresented, At, Idle
<1>6. Unminted' /\ Consent'
  BY <1>1, <1>2 DEF IInv, Unminted, Minted, Consent
<1>7. PresentedOnce' /\ TokensStayHome'
  BY <1>1, <1>2 DEF IInv, PresentedOnce, TokensStayHome
<1> QED
  BY <1>3, <1>4, <1>5, <1>6, <1>7 DEF IInv

LEMMA RotateKeeps ==
  ASSUME IInv, NEW p \in Procs, NEW t \in Tokens, Rotate(p, t)
  PROVE  IInv'
<1> USE OAuthAssumption
<1> DEFINE u == proc[p].rec.tok
           g == mint[u].grant
<1>1. /\ u \in Tokens /\ Minted(u) /\ mint[u].iss = issuer[p] /\ uses'[u] = 1
      /\ \A x \in Tokens \ {u} : uses'[x] = uses[x] /\ seen'[x] = seen[x]
      /\ seen'[u] = seen[u] \cup {issuer[p]}
      /\ uses' \in [Tokens -> Nat] /\ seen' \in [Tokens -> SUBSET Issuers]
      /\ \A q \in Procs \ {p} : At(q, "refreshing") => proc[q].rec.tok # u
      /\ row.tok = u => row.state # "connected"
  BY Presenting DEF Rotate, Rotated
<1>2. g \in Grants /\ g # None /\ Mint(p, t, g) /\ row = proc[p].rec
  BY <1>1 DEF Rotate, Rotated, IInv, TypeOK, MintRow, NotMinted, Minted
<1>3. /\ ~Minted(t) /\ uses[t] = 0 /\ seen[t] = {}
      /\ mint' \in [Tokens -> MintRow]
      /\ Minted(t)' /\ mint'[t].grant = g /\ mint'[t].iss = issuer[p]
      /\ \A x \in Tokens \ {t} : mint'[x] = mint[x] /\ (Minted(x)' <=> Minted(x))
  <2> HIDE DEF g
  <2> QED
    BY <1>2, Minting
<1>4. t # u
  BY <1>1, <1>3
<1>5. /\ proc'[p] = Idle /\ \A q \in Procs \ {p} : proc'[q] = proc[q]
      /\ proc' \in [Procs -> ProcRow]
      /\ UNCHANGED <<pending, issuer, started, codes, revoked>>
  BY DEF Rotate, Rotated, Return, IInv, TypeOK, ProcRow
<1>6. /\ row' \in Row
      /\ row'.state = "connected" /\ row'.tok = t /\ row'.iss = issuer[p]
      /\ row'.oldTok = row.oldTok /\ row'.oldIss = row.oldIss
  <2>1. row \in KeptRow \cup ReplacingRow
    BY <1>1, <1>2 DEF IInv, TypeOK, Row, AbsentRow
  <2> QED
    BY <1>2, <2>1 DEF Rotate, Rotated, Connection, Row, KeptRow, ReplacingRow, IInv, TypeOK
<1> HIDE DEF u, g
<1>7. /\ row.oldTok # t /\ (row.oldTok # None => mint'[row.oldTok] = mint[row.oldTok])
      /\ \A q \in Procs : /\ proc[q].rec.tok # t /\ proc[q].rec.oldTok # t
                          /\ Known(mint', proc[q].rec)
                          /\ At(q, "retired") => proc[q].rec.oldTok \in Tokens
  <2>1. \A x \in Tokens : mint[x].grant # None => x # t /\ mint'[x] = mint[x]
    BY <1>3 DEF Minted
  <2>2. row.oldTok # t /\ (row.oldTok # None => mint'[row.oldTok] = mint[row.oldTok])
    BY <2>1, Shapes DEF IInv, Custody, Known
  <2>3. ASSUME NEW q \in Procs
        PROVE  /\ proc[q].rec.tok # t /\ proc[q].rec.oldTok # t
               /\ Known(mint', proc[q].rec)
               /\ At(q, "retired") => proc[q].rec.oldTok \in Tokens
    <3>1. /\ Known(mint, proc[q].rec)
          /\ proc[q].rec.tok \in Tokens \cup {None} /\ proc[q].rec.oldTok \in Tokens \cup {None}
      BY Shapes DEF IInv, Custody
    <3>2. At(q, "retired") => proc[q].rec.oldTok \in Tokens
      BY Shapes DEF At, ReplacingRow
    <3> QED
      BY <2>1, <3>1, <3>2 DEF Known
  <2> QED
    BY <2>2, <2>3
<1>8. TypeOK'
  BY <1>1, <1>3, <1>5, <1>6 DEF IInv, TypeOK
<1>9. Custody'
  <2>1. Known(mint', row')
    BY <1>3, <1>6, <1>7 DEF IInv, Custody, Known, Minted
  <2>2. \A q \in Procs : Known(mint', proc'[q].rec)
    BY <1>5, <1>7 DEF Known, Idle, AbsentRow
  <2> QED
    BY <2>1, <2>2 DEF Custody
<1>10. Local' /\ Retired'
  <2>1. Local'
    BY <1>5 DEF IInv, Local, At, Idle
  <2>2. Retired'
    BY <1>3, <1>5, <1>7 DEF IInv, Retired, At, Idle
  <2> QED
    BY <2>1, <2>2
<1>11. Unpresented'
  <2>1. row'.state = "connected" /\ row'.tok = t /\ uses'[t] = 0
    BY <1>1, <1>3, <1>4, <1>6
  <2>2. \A q \in Procs : At(q, "refreshing") /\ q # p =>
          uses'[proc[q].rec.tok] = 0 /\ proc[q].rec.tok # t
    BY <1>1, <1>7, Shapes DEF IInv, Unpresented
  <2> QED
    BY <1>5, <2>1, <2>2 DEF IInv, Unpresented, At, Idle
<1>12. Unminted'
  BY <1>1, <1>3 DEF IInv, Unminted
<1>13. Consent'
  <2>1. \A x \in Tokens : mint'[x].grant = mint[x].grant \/ mint'[x].grant = g
    BY <1>3
  <2>2. g \in started /\ \A q \in Procs : pending[q] # None => pending[q] # g
    BY <1>1, <1>2 DEF IInv, Consent, g
  <2> QED
    BY <1>5, <2>1, <2>2 DEF IInv, Consent
<1>14. PresentedOnce' /\ TokensStayHome'
  <2>1. PresentedOnce'
    BY <1>1, <1>5 DEF IInv, PresentedOnce
  <2>2. ASSUME NEW x \in Tokens PROVE seen'[x] \subseteq {mint'[x].iss}
    BY <1>1, <1>3, <1>4 DEF IInv, TokensStayHome
  <2> QED
    BY <2>1, <2>2 DEF TokensStayHome
<1> QED
  BY <1>8, <1>9, <1>10, <1>11, <1>12, <1>13, <1>14 DEF IInv

-----------------------------------------------------------------------------
LEMMA InvStep == IInv /\ [Next]_vars => IInv'
<1> SUFFICES ASSUME IInv, [Next]_vars PROVE IInv'
  OBVIOUS
<1>1. CASE UNCHANGED vars
  BY <1>1 DEF vars, IInv, TypeOK, Custody, Known, Local, Unminted, Minted, Unpresented,
              Consent, Retired, At, PresentedOnce, TokensStayHome
<1>2. ASSUME NEW p \in Procs, NEW g \in Grants, Registered(p, g) PROVE IInv'
  BY <1>2, RegisteredKeeps
<1>3. ASSUME NEW p \in Procs, NEW t \in Tokens, Exchange(p, t) PROVE IInv'
  BY <1>3, ExchangeKeeps
<1>4. ASSUME NEW p \in Procs, NEW t \in Tokens, Rotate(p, t) PROVE IInv'
  BY <1>4, RotateKeeps
<1>5. ASSUME NEW p \in Procs,
             \/ BeginStart(p) \/ RegistrationFailed(p) \/ Lapse(p)
             \/ NothingToDisconnect(p) \/ RefreshOvertaken(p)
             \/ \E i \in Issuers : Restart(p, i)
      PROVE IInv'
  BY <1>5, QuietKeeps
<1>6. ASSUME NEW p \in Procs,
             \/ ExchangeLost(p) \/ RevokePrevious(p) \/ ForgetPrevious(p)
             \/ BeginDisconnect(p) \/ FinishDisconnect(p)
             \/ BeginRefresh(p) \/ RotationLost(p)
      PROVE IInv'
  BY <1>6, ExchangeLostKeeps, RevokePreviousKeeps, ForgetPreviousKeeps,
     BeginDisconnectKeeps, FinishDisconnectKeeps, BeginRefreshKeeps, RotationLostKeeps
<1> QED
  BY <1>1, <1>2, <1>3, <1>4, <1>5, <1>6 DEF Next

\* The invariant holds in every reachable state.
THEOREM Invariant == Spec => []IInv
<1> QED
  BY InitInv, InvStep, PTL DEF Spec

\* Every reachable state is well typed.
THEOREM TypeSafe == Spec => []TypeOK
<1>1. IInv => TypeOK
  BY DEF IInv
<1> QED
  BY <1>1, Invariant, PTL

\* access_token and complete present no refresh token and no code twice, for
\* any number of processes on one store.
THEOREM PresentedOnceSafe == Spec => []PresentedOnce
<1>1. IInv => PresentedOnce
  BY DEF IInv
<1> QED
  BY <1>1, Invariant, PTL

\* revoke_record and access_token send a token to nobody but its issuer.
THEOREM StayHomeSafe == Spec => []TokensStayHome
<1>1. IInv => TokensStayHome
  BY DEF IInv
<1> QED
  BY <1>1, Invariant, PTL

-----------------------------------------------------------------------------
(* The two action properties, a step at a time from the invariant *)

Keeps == \A g \in Grants : Recorded(g) => Recorded(g)' \/ g \in revoked'

\* Steps that leave the row and the replies alone lose nothing.
LEMMA KeptBySame ==
  ASSUME UNCHANGED <<row, mint>>
  PROVE  Keeps
BY DEF Keeps, Recorded

\* Nor do steps that rewrite the row but keep both of its tokens.
LEMMA KeptByRewrite ==
  ASSUME row'.tok = row.tok, row'.oldTok = row.oldTok, UNCHANGED mint
  PROVE  Keeps
BY DEF Keeps, Recorded

LEMMA KeptByExchange ==
  ASSUME IInv, NEW p \in Procs, NEW t \in Tokens, Exchange(p, t)
  PROVE  Keeps
<1> USE OAuthAssumption
<1>1. row.oldTok = None
  BY Shapes DEF Exchange, PresentCode, Replaceable, AbsentRow
<1>2. row'.oldTok = row.tok
  BY DEF Exchange, Connection
<1>3. row.tok # None => mint'[row.tok] = mint[row.tok]
  <2>1. row.tok # None => row.tok \in Tokens /\ mint[row.tok] # NotMinted
    BY Shapes DEF IInv, Custody, Known, NotMinted
  <2>2. mint[t] = NotMinted /\ \A x \in Tokens \ {t} : mint'[x] = mint[x]
    BY DEF Exchange, Mint, IInv, TypeOK
  <2> QED
    BY <2>1, <2>2
<1> QED
  BY <1>1, <1>2, <1>3 DEF Keeps, Recorded

LEMMA KeptByForgetting ==
  ASSUME IInv, NEW p \in Procs, ForgetPrevious(p)
  PROVE  Keeps
<1> USE OAuthAssumption
<1>1. UNCHANGED <<mint, revoked>>
  BY DEF ForgetPrevious, world
<1>2. CASE row # proc[p].rec
  BY <1>1, <1>2, KeptBySame DEF ForgetPrevious
<1>3. CASE row = proc[p].rec
  <2>1. row \in ReplacingRow /\ row' = [row EXCEPT !.oldTok = None, !.oldIss = None]
    BY <1>3, Shapes DEF ForgetPrevious, At
  <2>2. row'.tok = row.tok
    BY <2>1 DEF ReplacingRow
  <2>3. mint[row.oldTok].grant \in revoked
    BY <1>3 DEF ForgetPrevious, IInv, Retired
  <2> QED
    BY <1>1, <2>2, <2>3 DEF Keeps, Recorded
<1> QED
  BY <1>2, <1>3

LEMMA KeptByDisconnecting ==
  ASSUME IInv, NEW p \in Procs, FinishDisconnect(p)
  PROVE  Keeps
<1> USE OAuthAssumption
<1>1. row.state # "absent" /\ UNCHANGED mint
  BY DEF FinishDisconnect
<1>2. PICK acted \in SUBSET Revocable(p, row) : \E told \in SUBSET acted :
        Revoke(p, Revocable(p, row), acted) /\ row' = Remaining(told)
  BY DEF FinishDisconnect
<1>3. PICK told \in SUBSET acted : Revoke(p, Revocable(p, row), acted) /\ row' = Remaining(told)
  BY <1>2
<1>4. told \in SUBSET Tokens /\ \A t \in told : mint[t].grant \in revoked'
  BY <1>3, Shapes DEF Revocable, Revoke
<1>5. \A t \in {row.tok, row.oldTok} \ {None} : t \in told \/ t \in {row'.tok, row'.oldTok}
  BY <1>1, <1>3, <1>4, RemainingRow
<1> QED
  BY <1>1, <1>4, <1>5 DEF Keeps, Recorded

LEMMA KeptByRotation ==
  ASSUME IInv, NEW p \in Procs, NEW t \in Tokens, Rotate(p, t)
  PROVE  Keeps
<1> USE OAuthAssumption
<1>1. row.tok \in Tokens /\ row = proc[p].rec
  BY Shapes DEF Rotate, Rotated
<1>2. row'.tok = t /\ row'.oldTok = row.oldTok
  BY <1>1 DEF Rotate, Rotated, Connection
<1>3. /\ mint'[t].grant = mint[row.tok].grant
      /\ mint[t] = NotMinted /\ \A x \in Tokens \ {t} : mint'[x] = mint[x]
  BY <1>1 DEF Rotate, Rotated, Mint, IInv, TypeOK
<1>4. row.oldTok # None => mint'[row.oldTok] = mint[row.oldTok]
  BY <1>3, Shapes DEF IInv, Custody, Known, NotMinted
<1> QED
  BY <1>2, <1>3, <1>4 DEF Keeps, Recorded

\* Replacement, rotation and disconnect lose no grant that its issuer has not
\* ended, whatever is lost, raced or restarted on the way.
THEOREM RecordedSafe == Spec => RecordedUntilRevoked
<1> DEFINE A == \A g \in Grants : Recorded(g) => Recorded(g)' \/ g \in revoked'
<1>1. ASSUME IInv, [Next]_vars PROVE [A]_vars
  <2>1. CASE UNCHANGED vars
    BY <2>1
  <2>2. ASSUME NEW p \in Procs, NEW t \in Tokens, Exchange(p, t) \/ Rotate(p, t) PROVE Keeps
    BY <1>1, <2>2, KeptByExchange, KeptByRotation
  <2>3. ASSUME NEW p \in Procs, ForgetPrevious(p) \/ FinishDisconnect(p) PROVE Keeps
    BY <1>1, <2>3, KeptByForgetting, KeptByDisconnecting
  <2>4. ASSUME NEW p \in Procs, BeginDisconnect(p) \/ BeginRefresh(p) PROVE Keeps
    <3>1. /\ row.state # "absent"
          /\ \/ row' = [row EXCEPT !.state = "disconnected"]
             \/ row' = [row EXCEPT !.state = "refresh_pending"]
          /\ UNCHANGED mint
      BY <2>4 DEF BeginDisconnect, BeginRefresh, Refreshable, world
    <3>2. row \in KeptRow \cup ReplacingRow
      BY <1>1, <3>1 DEF IInv, TypeOK, Row, AbsentRow
    <3>3. row'.tok = row.tok /\ row'.oldTok = row.oldTok
      BY <3>1, <3>2 DEF KeptRow, ReplacingRow
    <3> QED
      BY <3>1, <3>3, KeptByRewrite
  <2>5. ASSUME NEW p \in Procs,
               \/ BeginStart(p) \/ RegistrationFailed(p) \/ Lapse(p) \/ ExchangeLost(p)
               \/ RevokePrevious(p) \/ NothingToDisconnect(p) \/ RotationLost(p)
               \/ RefreshOvertaken(p) \/ (\E i \in Issuers : Restart(p, i))
               \/ (\E g \in Grants : Registered(p, g))
        PROVE Keeps
    <3>1. UNCHANGED <<row, mint>>
      BY <2>5 DEF BeginStart, RegistrationFailed, Lapse, ExchangeLost, RevokePrevious,
                  NothingToDisconnect, RotationLost, RefreshOvertaken, Restart, Registered, world
    <3> QED
      BY <3>1, KeptBySame
  <2>6. Next => Keeps
    BY <2>2, <2>3, <2>4, <2>5 DEF Next
  <2> QED
    BY <1>1, <2>1, <2>6 DEF Keeps
<1>2. IInv /\ [Next]_vars => [A]_vars
  BY <1>1
<1> QED
  BY <1>2, Invariant, PTL DEF Spec, RecordedUntilRevoked

\* A connection a person ended is not brought back by a refresh or a
\* replacement under way elsewhere; a new one carries a new consent.
THEOREM OnlySignInSafe == Spec => OnlySignInConnects
<1> USE OAuthAssumption
<1> DEFINE A == row.state \in {"absent", "disconnected"} /\ row'.state \in {"connected", "refresh_pending"}
                => /\ row.state = "absent"
                   /\ \A t \in Tokens : mint[t].grant # mint'[row'.tok].grant
<1>1. ASSUME IInv, [Next]_vars PROVE [A]_vars
  <2>1. CASE UNCHANGED vars
    BY <2>1
  <2>2. ASSUME NEW p \in Procs, NEW t \in Tokens, Exchange(p, t) PROVE A
    <3>1. /\ row'.tok = t /\ mint'[t].grant = pending[p] /\ pending[p] # None
          /\ row.state # "disconnected"
      BY <1>1, <2>2 DEF Exchange, PresentCode, Replaceable, Mint, Connection, IInv, TypeOK
    <3>2. \A x \in Tokens : mint[x].grant # pending[p]
      BY <1>1, <3>1 DEF IInv, Consent
    <3> QED
      BY <3>1, <3>2
  <2>3. ASSUME NEW p \in Procs, NEW t \in Tokens, Rotate(p, t) PROVE A
    BY <1>1, <2>3 DEF Rotate, Rotated, IInv, Local
  <2>4. ASSUME NEW p \in Procs, ForgetPrevious(p) PROVE A
    <3>1. CASE row # proc[p].rec
      BY <2>4, <3>1 DEF ForgetPrevious
    <3>2. CASE row = proc[p].rec
      BY <1>1, <2>4, <3>2 DEF ForgetPrevious, At, IInv, Local
    <3> QED
      BY <3>1, <3>2
  <2>5. ASSUME NEW p \in Procs, FinishDisconnect(p) PROVE A
    <3>1. PICK acted \in SUBSET Revocable(p, row) : \E told \in SUBSET acted : row' = Remaining(told)
      BY <2>5 DEF FinishDisconnect
    <3>2. PICK told \in SUBSET acted : row' = Remaining(told)
      BY <3>1
    <3>3. told \in SUBSET Tokens /\ row.state # "absent"
      BY <1>1, <2>5, Shapes DEF Revocable, FinishDisconnect
    <3>4. row'.state \notin {"connected", "refresh_pending"} \/ row'.state = row.state
      BY <1>1, <3>2, <3>3, RemainingRow
    <3> QED
      BY <3>4
  <2>6. ASSUME NEW p \in Procs, BeginDisconnect(p) \/ BeginRefresh(p) PROVE A
    <3>1. CASE BeginDisconnect(p)
      <4>1. row \in KeptRow \cup ReplacingRow /\ row' = [row EXCEPT !.state = "disconnected"]
        BY <1>1, <3>1 DEF BeginDisconnect, IInv, TypeOK, Row, AbsentRow
      <4> QED
        BY <4>1 DEF KeptRow, ReplacingRow
    <3>2. CASE BeginRefresh(p)
      BY <3>2 DEF BeginRefresh, Refreshable
    <3> QED
      BY <2>6, <3>1, <3>2
  <2>7. ASSUME NEW p \in Procs,
               \/ BeginStart(p) \/ RegistrationFailed(p) \/ Lapse(p) \/ ExchangeLost(p)
               \/ RevokePrevious(p) \/ NothingToDisconnect(p) \/ RotationLost(p)
               \/ RefreshOvertaken(p) \/ (\E i \in Issuers : Restart(p, i))
               \/ (\E g \in Grants : Registered(p, g))
        PROVE A
    <3>1. UNCHANGED row
      BY <2>7 DEF BeginStart, RegistrationFailed, Lapse, ExchangeLost, RevokePrevious,
                  NothingToDisconnect, RotationLost, RefreshOvertaken, Restart, Registered
    <3> QED
      BY <3>1
  <2>8. Next => A
    BY <2>2, <2>3, <2>4, <2>5, <2>6, <2>7 DEF Next
  <2> QED
    BY <1>1, <2>1, <2>8
<1>2. IInv /\ [Next]_vars => [A]_vars
  BY <1>1
<1> QED
  BY <1>2, Invariant, PTL DEF Spec, OnlySignInConnects

=============================================================================
