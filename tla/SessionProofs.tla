------------------------------- MODULE SessionProofs -------------------------------
(***************************************************************************)
(* Sessions that are removed, and the names that go with them, for any number *)
(* of sessions and of requests at a time.                                    *)
(***************************************************************************)
EXTENDS Session, TLAPS

OnStored(t) == task[t].step \in {"register", "map", "issue"}
OnIssued(t) == task[t].step \in {"read", "repopulate", "delete", "unmap", "unname", "update"}

\* A session that is being created is known to its request alone, and has come as
\* far as the request has; it does not expire before that.
Creations ==
    \A t \in Request : Creating(t) =>
        LET s == task[t].id IN
        /\ s \in used /\ s \notin Issued /\ s \notin gone /\ s \notin known
        /\ now < task[t].expires_at
        /\ \A u \in Request \ {t} : ~At(u, "idle") => task[u].id # s
        /\ At(t, "store") => s \notin DOMAIN rows
        /\ ~At(t, "store") => s \in DOMAIN rows /\ rows[s] = task[t].expires_at
        /\ task[t].step \in {"map", "issue"} => s \in named
        /\ At(t, "issue") => s \in players

\* The other requests are about sessions of clients, and only the names of sessions
\* that are gone are removed.
Removals ==
    /\ \A t \in Request :
        /\ OnIssued(t) => task[t].id \in Issued
        /\ task[t].step \in {"unmap", "unname"} => task[t].id \in gone
    /\ cleaner # Idle => cleaner.ids \subseteq gone
    /\ cleaner.step = "unname" => cleaner.names \subseteq gone
    /\ gone \subseteq used /\ known \subseteq Issued

SessionInv ==
    /\ TypeOK
    /\ Creations
    /\ Removals
    /\ RemovedStaysRemoved
    /\ LiveSessionsAreNamed
    /\ NamesGoWithSessions

LEMMA InitInv == Init => SessionInv
<1>1. SUFFICES ASSUME Init PROVE SessionInv
  OBVIOUS
<1>2. TypeOK
  BY <1>1 DEF Init, TypeOK, Idle, NoRows, Requests
<1>3. \A t \in Request : task[t].step = "idle"
  BY <1>1 DEF Init, Idle
<1>4. Creations /\ Removals
  BY <1>1, <1>3 DEF Init, Creations, Removals, Creating, OnIssued, Issued, NoRows, Idle
<1>5. RemovedStaysRemoved /\ LiveSessionsAreNamed /\ NamesGoWithSessions
  BY <1>1 DEF Init, RemovedStaysRemoved, LiveSessionsAreNamed, NamesGoWithSessions, NoRows
<1>6. QED BY <1>2, <1>4, <1>5 DEF SessionInv

LEMMA StepInv == SessionInv /\ [Next]_vars => SessionInv'
<1> SUFFICES ASSUME SessionInv, [Next]_vars PROVE SessionInv'
  OBVIOUS
<1> USE SessionAssumption
<1>1. ASSUME NEW t \in Request, NEW s \in Session, NewSession(t, s) PROVE SessionInv'
  <2>1. task \in [Request -> Requests] /\ task[t] \in Requests
    BY <1>1 DEF SessionInv, TypeOK
  <2>2. TypeOK'
    BY <1>1, <2>1
    DEF NewSession, SessionInv, At, Goes, Creation, Expiry, data, TypeOK, Requests, Exists,
        Issued, Creations, Removals, Creating, OnIssued
  <2>9. \A u \in Request : ~At(u, "idle") => task[u].id \in used
    BY
    DEF SessionInv, TypeOK, Requests, At, Idle, Creations, Creating, Removals, OnIssued,
        Issued
  <2>3. Creations'
    BY <1>1, <2>1, <2>9
    DEF NewSession, SessionInv, At, Goes, Creation, Expiry, data, TypeOK, Creations,
        Removals, Creating, OnIssued, Issued, Exists
  <2>4. Removals'
    BY <1>1, <2>1
    DEF NewSession, SessionInv, At, Goes, Creation, Expiry, data, Creations, Creating,
        Removals, OnIssued, Issued, TypeOK
  <2>5. RemovedStaysRemoved'
    BY <1>1, <2>1
    DEF NewSession, SessionInv, At, Goes, Creation, Expiry, data, RemovedStaysRemoved,
        Creations, Creating, Exists
  <2>6. LiveSessionsAreNamed'
    BY <1>1, <2>1
    DEF NewSession, SessionInv, At, Goes, Creation, Expiry, data, LiveSessionsAreNamed,
        RemovedStaysRemoved, Creations, Creating, Removals, Exists
  <2>7. NamesGoWithSessions'
    BY <1>1, <2>1
    DEF NewSession, SessionInv, At, Goes, Creation, Expiry, data, NamesGoWithSessions,
        NameIsInHand, Creations, Creating, Exists
  <2>8. QED BY <2>2, <2>3, <2>4, <2>5, <2>6, <2>7 DEF SessionInv
<1>2. ASSUME NEW t \in Request, StoreSession(t) PROVE SessionInv'
  <2>1. task \in [Request -> Requests] /\ task[t] \in Requests
    BY <1>2 DEF SessionInv, TypeOK
  <2>2. TypeOK'
    <3>1. task[t].id \in used /\ task[t].expires_at \in Nat
      BY <1>2, <2>1
      DEF StoreSession, SessionInv, TypeOK, At, Requests, Creations, Creating, Idle
    <3>2. QED
      BY <1>2, <2>1, <3>1
      DEF StoreSession, SessionInv, TypeOK, At, Goes, Creation, WithRow, Requests
  <2>3. Creations'
    BY <1>2, <2>1
    DEF StoreSession, SessionInv, At, Goes, Creation, WithRow, TypeOK, Creations, Removals,
        Creating, OnIssued, Issued, Exists
  <2>4. Removals'
    BY <1>2, <2>1
    DEF StoreSession, SessionInv, At, Goes, Creation, WithRow, Creations, Creating,
        Removals, OnIssued, Issued, TypeOK
  <2>5. RemovedStaysRemoved'
    BY <1>2, <2>1
    DEF StoreSession, SessionInv, At, Goes, Creation, WithRow, RemovedStaysRemoved,
        Creations, Creating, Exists
  <2>6. LiveSessionsAreNamed'
    BY <1>2, <2>1
    DEF StoreSession, SessionInv, At, Goes, Creation, WithRow, LiveSessionsAreNamed,
        RemovedStaysRemoved, Creations, Creating, Removals, Exists
  <2>7. NamesGoWithSessions'
    BY <1>2, <2>1
    DEF StoreSession, SessionInv, At, Goes, Creation, WithRow, NamesGoWithSessions,
        NameIsInHand, Creations, Creating, Exists
  <2>8. QED BY <2>2, <2>3, <2>4, <2>5, <2>6, <2>7 DEF SessionInv
<1>3. ASSUME NEW t \in Request, RegisterPlayer(t) PROVE SessionInv'
  <2>1. task \in [Request -> Requests] /\ task[t] \in Requests
    BY <1>3 DEF SessionInv, TypeOK
  <2>2. TypeOK'
    BY <1>3, <2>1
    DEF RegisterPlayer, SessionInv, At, Goes, Creation, TypeOK, Requests, Exists, Issued,
        Creations, Removals, Creating, OnIssued
  <2>3. Creations'
    BY <1>3, <2>1
    DEF RegisterPlayer, SessionInv, At, Goes, Creation, TypeOK, Creations, Removals,
        Creating, OnIssued, Issued, Exists
  <2>4. Removals'
    BY <1>3, <2>1
    DEF RegisterPlayer, SessionInv, At, Goes, Creation, Creations, Creating, Removals,
        OnIssued, Issued, TypeOK
  <2>5. RemovedStaysRemoved'
    BY <1>3, <2>1
    DEF RegisterPlayer, SessionInv, At, Goes, Creation, RemovedStaysRemoved, Creations,
        Creating, Exists
  <2>6. LiveSessionsAreNamed'
    BY <1>3, <2>1
    DEF RegisterPlayer, SessionInv, At, Goes, Creation, LiveSessionsAreNamed,
        RemovedStaysRemoved, Creations, Creating, Removals, Exists
  <2>7. NamesGoWithSessions'
    BY <1>3, <2>1
    DEF RegisterPlayer, SessionInv, At, Goes, Creation, NamesGoWithSessions, NameIsInHand,
        Creations, Creating, Exists
  <2>8. QED BY <2>2, <2>3, <2>4, <2>5, <2>6, <2>7 DEF SessionInv
<1>4. ASSUME NEW t \in Request, StoreMapping(t) PROVE SessionInv'
  <2>1. task \in [Request -> Requests] /\ task[t] \in Requests
    BY <1>4 DEF SessionInv, TypeOK
  <2>2. TypeOK'
    BY <1>4, <2>1
    DEF StoreMapping, SessionInv, At, Goes, Creation, TypeOK, Requests, Exists, Issued,
        Creations, Removals, Creating, OnIssued
  <2>3. Creations'
    BY <1>4, <2>1
    DEF StoreMapping, SessionInv, At, Goes, Creation, TypeOK, Creations, Removals,
        Creating, OnIssued, Issued, Exists
  <2>4. Removals'
    BY <1>4, <2>1
    DEF StoreMapping, SessionInv, At, Goes, Creation, Creations, Creating, Removals,
        OnIssued, Issued, TypeOK
  <2>5. RemovedStaysRemoved'
    BY <1>4, <2>1
    DEF StoreMapping, SessionInv, At, Goes, Creation, RemovedStaysRemoved, Creations,
        Creating, Exists
  <2>6. LiveSessionsAreNamed'
    BY <1>4, <2>1
    DEF StoreMapping, SessionInv, At, Goes, Creation, LiveSessionsAreNamed,
        RemovedStaysRemoved, Creations, Creating, Removals, Exists
  <2>7. NamesGoWithSessions'
    BY <1>4, <2>1
    DEF StoreMapping, SessionInv, At, Goes, Creation, NamesGoWithSessions, NameIsInHand,
        Creations, Creating, Exists
  <2>8. QED BY <2>2, <2>3, <2>4, <2>5, <2>6, <2>7 DEF SessionInv
<1>5. ASSUME NEW t \in Request, IssueToken(t) PROVE SessionInv'
  <2>1. task \in [Request -> Requests] /\ task[t] \in Requests
    BY <1>5 DEF SessionInv, TypeOK
  <2>2. TypeOK'
    BY <1>5, <2>1
    DEF IssueToken, SessionInv, At, Goes, Exp, Idle, data, TypeOK, Requests, Exists,
        Issued, Creations, Removals, Creating, OnIssued
  <2>3. Creations'
    BY <1>5, <2>1
    DEF IssueToken, SessionInv, At, Goes, Exp, Idle, data, TypeOK, Creations, Removals,
        Creating, OnIssued, Issued, Exists
  <2>4. Removals'
    BY <1>5, <2>1
    DEF IssueToken, SessionInv, At, Goes, Exp, Idle, data, Creations, Creating, Removals,
        OnIssued, Issued, TypeOK
  <2>5. RemovedStaysRemoved'
    BY <1>5, <2>1
    DEF IssueToken, SessionInv, At, Goes, Exp, Idle, data, RemovedStaysRemoved, Creations,
        Creating, Exists
  <2>6. LiveSessionsAreNamed'
    BY <1>5, <2>1
    DEF IssueToken, SessionInv, At, Goes, Exp, Idle, data, LiveSessionsAreNamed,
        RemovedStaysRemoved, Creations, Creating, Removals, Exists
  <2>7. NamesGoWithSessions'
    BY <1>5, <2>1
    DEF IssueToken, SessionInv, At, Goes, Exp, Idle, data, NamesGoWithSessions,
        NameIsInHand, Creations, Creating, Exists
  <2>8. QED BY <2>2, <2>3, <2>4, <2>5, <2>6, <2>7 DEF SessionInv
<1>6. ASSUME NEW t \in Request, NEW s \in Session, LookUp(t, s) PROVE SessionInv'
  <2>1. task \in [Request -> Requests] /\ task[t] \in Requests
    BY <1>6 DEF SessionInv, TypeOK
  <2>2. TypeOK'
    BY <1>6, <2>1
    DEF LookUp, SessionInv, At, Goes, Naming, data, TypeOK, Requests, Exists, Issued,
        Creations, Removals, Creating, OnIssued
  <2>3. Creations'
    BY <1>6, <2>1
    DEF LookUp, SessionInv, At, Goes, Naming, data, TypeOK, Creations, Removals, Creating,
        OnIssued, Issued, Exists
  <2>4. Removals'
    BY <1>6, <2>1
    DEF LookUp, SessionInv, At, Goes, Naming, data, Creations, Creating, Removals,
        OnIssued, Issued, TypeOK
  <2>5. RemovedStaysRemoved'
    BY <1>6, <2>1
    DEF LookUp, SessionInv, At, Goes, Naming, data, RemovedStaysRemoved, Creations,
        Creating, Exists
  <2>6. LiveSessionsAreNamed'
    BY <1>6, <2>1
    DEF LookUp, SessionInv, At, Goes, Naming, data, LiveSessionsAreNamed,
        RemovedStaysRemoved, Creations, Creating, Removals, Exists
  <2>7. NamesGoWithSessions'
    BY <1>6, <2>1
    DEF LookUp, SessionInv, At, Goes, Naming, data, NamesGoWithSessions, NameIsInHand,
        Creations, Creating, Exists
  <2>8. QED BY <2>2, <2>3, <2>4, <2>5, <2>6, <2>7 DEF SessionInv
<1>7. ASSUME NEW t \in Request, ReadName(t) PROVE SessionInv'
  <2>1. task \in [Request -> Requests] /\ task[t] \in Requests
    BY <1>7 DEF SessionInv, TypeOK
  <2>2. TypeOK'
    BY <1>7, <2>1
    DEF ReadName, SessionInv, At, Goes, Naming, Idle, data, TypeOK, Requests, Exists,
        Issued, Creations, Removals, Creating, OnIssued
  <2>3. Creations'
    BY <1>7, <2>1
    DEF ReadName, SessionInv, At, Goes, Naming, Idle, data, TypeOK, Creations, Removals,
        Creating, OnIssued, Issued, Exists
  <2>4. Removals'
    BY <1>7, <2>1
    DEF ReadName, SessionInv, At, Goes, Naming, Idle, data, Creations, Creating, Removals,
        OnIssued, Issued, TypeOK
  <2>5. RemovedStaysRemoved'
    BY <1>7, <2>1
    DEF ReadName, SessionInv, At, Goes, Naming, Idle, data, RemovedStaysRemoved, Creations,
        Creating, Exists
  <2>6. LiveSessionsAreNamed'
    BY <1>7, <2>1
    DEF ReadName, SessionInv, At, Goes, Naming, Idle, data, LiveSessionsAreNamed,
        RemovedStaysRemoved, Creations, Creating, Removals, Exists
  <2>7. NamesGoWithSessions'
    BY <1>7, <2>1
    DEF ReadName, SessionInv, At, Goes, Naming, Idle, data, NamesGoWithSessions,
        NameIsInHand, Creations, Creating, Exists
  <2>8. QED BY <2>2, <2>3, <2>4, <2>5, <2>6, <2>7 DEF SessionInv
<1>8. ASSUME NEW t \in Request, Repopulate(t) PROVE SessionInv'
  <2>1. task \in [Request -> Requests] /\ task[t] \in Requests
    BY <1>8 DEF SessionInv, TypeOK
  <2>2. TypeOK'
    BY <1>8, <2>1
    DEF Repopulate, SessionInv, At, Goes, Idle, TypeOK, Requests, Exists, Issued,
        Creations, Removals, Creating, OnIssued
  <2>3. Creations'
    BY <1>8, <2>1
    DEF Repopulate, SessionInv, At, Goes, Idle, TypeOK, Creations, Removals, Creating,
        OnIssued, Issued, Exists
  <2>4. Removals'
    BY <1>8, <2>1
    DEF Repopulate, SessionInv, At, Goes, Idle, Creations, Creating, Removals, OnIssued,
        Issued, TypeOK
  <2>5. RemovedStaysRemoved'
    BY <1>8, <2>1
    DEF Repopulate, SessionInv, At, Goes, Idle, RemovedStaysRemoved, Creations, Creating,
        Exists
  <2>6. LiveSessionsAreNamed'
    BY <1>8, <2>1
    DEF Repopulate, SessionInv, At, Goes, Idle, LiveSessionsAreNamed, RemovedStaysRemoved,
        Creations, Creating, Removals, Exists
  <2>7. NamesGoWithSessions'
    BY <1>8, <2>1
    DEF Repopulate, SessionInv, At, Goes, Idle, NamesGoWithSessions, NameIsInHand,
        Creations, Creating, Exists
  <2>8. QED BY <2>2, <2>3, <2>4, <2>5, <2>6, <2>7 DEF SessionInv
<1>9. ASSUME NEW t \in Request, NEW s \in Session, RevokeSession(t, s) PROVE SessionInv'
  <2>1. task \in [Request -> Requests] /\ task[t] \in Requests
    BY <1>9 DEF SessionInv, TypeOK
  <2>2. TypeOK'
    BY <1>9, <2>1
    DEF RevokeSession, SessionInv, At, Goes, Revocation, data, TypeOK, Requests, Exists,
        Issued, Creations, Removals, Creating, OnIssued
  <2>3. Creations'
    BY <1>9, <2>1
    DEF RevokeSession, SessionInv, At, Goes, Revocation, data, TypeOK, Creations, Removals,
        Creating, OnIssued, Issued, Exists
  <2>4. Removals'
    BY <1>9, <2>1
    DEF RevokeSession, SessionInv, At, Goes, Revocation, data, Creations, Creating,
        Removals, OnIssued, Issued, TypeOK
  <2>5. RemovedStaysRemoved'
    BY <1>9, <2>1
    DEF RevokeSession, SessionInv, At, Goes, Revocation, data, RemovedStaysRemoved,
        Creations, Creating, Exists
  <2>6. LiveSessionsAreNamed'
    BY <1>9, <2>1
    DEF RevokeSession, SessionInv, At, Goes, Revocation, data, LiveSessionsAreNamed,
        RemovedStaysRemoved, Creations, Creating, Removals, Exists
  <2>7. NamesGoWithSessions'
    BY <1>9, <2>1
    DEF RevokeSession, SessionInv, At, Goes, Revocation, data, NamesGoWithSessions,
        NameIsInHand, Creations, Creating, Exists
  <2>8. QED BY <2>2, <2>3, <2>4, <2>5, <2>6, <2>7 DEF SessionInv
<1>10. ASSUME NEW t \in Request, DeleteSession(t) PROVE SessionInv'
  <2>1. task \in [Request -> Requests] /\ task[t] \in Requests
    BY <1>10 DEF SessionInv, TypeOK
  <2>2. TypeOK'
    BY <1>10, <2>1
    DEF DeleteSession, SessionInv, At, Goes, Revocation, Idle, WithoutRows, TypeOK,
        Requests, Exists, Issued, Creations, Removals, Creating, OnIssued
  <2>3. Creations'
    BY <1>10, <2>1
    DEF DeleteSession, SessionInv, At, Goes, Revocation, Idle, WithoutRows, TypeOK,
        Creations, Removals, Creating, OnIssued, Issued, Exists
  <2>4. Removals'
    BY <1>10, <2>1
    DEF DeleteSession, SessionInv, At, Goes, Revocation, Idle, WithoutRows, Creations,
        Creating, Removals, OnIssued, Issued, TypeOK
  <2>5. RemovedStaysRemoved'
    BY <1>10, <2>1
    DEF DeleteSession, SessionInv, At, Goes, Revocation, Idle, WithoutRows,
        RemovedStaysRemoved, Creations, Creating, Exists
  <2>6. LiveSessionsAreNamed'
    BY <1>10, <2>1
    DEF DeleteSession, SessionInv, At, Goes, Revocation, Idle, WithoutRows,
        LiveSessionsAreNamed, RemovedStaysRemoved, Creations, Creating, Removals, Exists
  <2>7. NamesGoWithSessions'
    BY <1>10, <2>1
    DEF DeleteSession, SessionInv, At, Goes, Revocation, Idle, WithoutRows,
        NamesGoWithSessions, NameIsInHand, Creations, Creating, Exists
  <2>8. QED BY <2>2, <2>3, <2>4, <2>5, <2>6, <2>7 DEF SessionInv
<1>11. ASSUME NEW t \in Request, UnmapSession(t) PROVE SessionInv'
  <2>1. task \in [Request -> Requests] /\ task[t] \in Requests
    BY <1>11 DEF SessionInv, TypeOK
  <2>2. TypeOK'
    BY <1>11, <2>1
    DEF UnmapSession, SessionInv, At, Goes, Revocation, Idle, TypeOK, Requests, Exists,
        Issued, Creations, Removals, Creating, OnIssued
  <2>3. Creations'
    BY <1>11, <2>1
    DEF UnmapSession, SessionInv, At, Goes, Revocation, Idle, TypeOK, Creations, Removals,
        Creating, OnIssued, Issued, Exists
  <2>4. Removals'
    BY <1>11, <2>1
    DEF UnmapSession, SessionInv, At, Goes, Revocation, Idle, Creations, Creating,
        Removals, OnIssued, Issued, TypeOK
  <2>5. RemovedStaysRemoved'
    BY <1>11, <2>1
    DEF UnmapSession, SessionInv, At, Goes, Revocation, Idle, RemovedStaysRemoved,
        Creations, Creating, Exists
  <2>6. LiveSessionsAreNamed'
    BY <1>11, <2>1
    DEF UnmapSession, SessionInv, At, Goes, Revocation, Idle, LiveSessionsAreNamed,
        RemovedStaysRemoved, Creations, Creating, Removals, Exists
  <2>7. NamesGoWithSessions'
    BY <1>11, <2>1
    DEF UnmapSession, SessionInv, At, Goes, Revocation, Idle, NamesGoWithSessions,
        NameIsInHand, Creations, Creating, Exists
  <2>8. QED BY <2>2, <2>3, <2>4, <2>5, <2>6, <2>7 DEF SessionInv
<1>12. ASSUME NEW t \in Request, RemovePlayer(t) PROVE SessionInv'
  <2>1. task \in [Request -> Requests] /\ task[t] \in Requests
    BY <1>12 DEF SessionInv, TypeOK
  <2>2. TypeOK'
    BY <1>12, <2>1
    DEF RemovePlayer, SessionInv, At, Goes, Idle, TypeOK, Requests, Exists, Issued,
        Creations, Removals, Creating, OnIssued
  <2>3. Creations'
    BY <1>12, <2>1
    DEF RemovePlayer, SessionInv, At, Goes, Idle, TypeOK, Creations, Removals, Creating,
        OnIssued, Issued, Exists
  <2>4. Removals'
    BY <1>12, <2>1
    DEF RemovePlayer, SessionInv, At, Goes, Idle, Creations, Creating, Removals, OnIssued,
        Issued, TypeOK
  <2>5. RemovedStaysRemoved'
    BY <1>12, <2>1
    DEF RemovePlayer, SessionInv, At, Goes, Idle, RemovedStaysRemoved, Creations, Creating,
        Exists
  <2>6. LiveSessionsAreNamed'
    BY <1>12, <2>1
    DEF RemovePlayer, SessionInv, At, Goes, Idle, LiveSessionsAreNamed,
        RemovedStaysRemoved, Creations, Creating, Removals, Exists
  <2>7. NamesGoWithSessions'
    BY <1>12, <2>1
    DEF RemovePlayer, SessionInv, At, Goes, Idle, NamesGoWithSessions, NameIsInHand,
        Creations, Creating, Exists
  <2>8. QED BY <2>2, <2>3, <2>4, <2>5, <2>6, <2>7 DEF SessionInv
<1>13. ASSUME NEW t \in Request, NEW s \in Session, ExtendSession(t, s) PROVE SessionInv'
  <2>1. task \in [Request -> Requests] /\ task[t] \in Requests
    BY <1>13 DEF SessionInv, TypeOK
  <2>2. TypeOK'
    BY <1>13, <2>1
    DEF ExtendSession, SessionInv, At, Goes, Extension, Expiry, data, TypeOK, Requests,
        Exists, Issued, Creations, Removals, Creating, OnIssued
  <2>3. Creations'
    BY <1>13, <2>1
    DEF ExtendSession, SessionInv, At, Goes, Extension, Expiry, data, TypeOK, Creations,
        Removals, Creating, OnIssued, Issued, Exists
  <2>4. Removals'
    BY <1>13, <2>1
    DEF ExtendSession, SessionInv, At, Goes, Extension, Expiry, data, Creations, Creating,
        Removals, OnIssued, Issued, TypeOK
  <2>5. RemovedStaysRemoved'
    BY <1>13, <2>1
    DEF ExtendSession, SessionInv, At, Goes, Extension, Expiry, data, RemovedStaysRemoved,
        Creations, Creating, Exists
  <2>6. LiveSessionsAreNamed'
    BY <1>13, <2>1
    DEF ExtendSession, SessionInv, At, Goes, Extension, Expiry, data, LiveSessionsAreNamed,
        RemovedStaysRemoved, Creations, Creating, Removals, Exists
  <2>7. NamesGoWithSessions'
    BY <1>13, <2>1
    DEF ExtendSession, SessionInv, At, Goes, Extension, Expiry, data, NamesGoWithSessions,
        NameIsInHand, Creations, Creating, Exists
  <2>8. QED BY <2>2, <2>3, <2>4, <2>5, <2>6, <2>7 DEF SessionInv
<1>14. ASSUME NEW t \in Request, UpdateSession(t) PROVE SessionInv'
  <2>1. task \in [Request -> Requests] /\ task[t] \in Requests
    BY <1>14 DEF SessionInv, TypeOK
  <2>2. TypeOK'
    BY <1>14, <2>1
    DEF UpdateSession, SessionInv, At, Goes, Idle, WithRow, TypeOK, Requests, Exists,
        Issued, Creations, Removals, Creating, OnIssued
  <2>3. Creations'
    BY <1>14, <2>1
    DEF UpdateSession, SessionInv, At, Goes, Idle, WithRow, TypeOK, Creations, Removals,
        Creating, OnIssued, Issued, Exists
  <2>4. Removals'
    BY <1>14, <2>1
    DEF UpdateSession, SessionInv, At, Goes, Idle, WithRow, Creations, Creating, Removals,
        OnIssued, Issued, TypeOK
  <2>5. RemovedStaysRemoved'
    BY <1>14, <2>1
    DEF UpdateSession, SessionInv, At, Goes, Idle, WithRow, RemovedStaysRemoved, Creations,
        Creating, Exists
  <2>6. LiveSessionsAreNamed'
    BY <1>14, <2>1
    DEF UpdateSession, SessionInv, At, Goes, Idle, WithRow, LiveSessionsAreNamed,
        RemovedStaysRemoved, Creations, Creating, Removals, Exists
  <2>7. NamesGoWithSessions'
    BY <1>14, <2>1
    DEF UpdateSession, SessionInv, At, Goes, Idle, WithRow, NamesGoWithSessions,
        NameIsInHand, Creations, Creating, Exists
  <2>8. QED BY <2>2, <2>3, <2>4, <2>5, <2>6, <2>7 DEF SessionInv
<1>15. ASSUME CleanUp PROVE SessionInv'
  <2>1. Lapsed \subseteq DOMAIN rows /\ \A s \in Lapsed : rows[s] <= now
    BY DEF Lapsed, SessionInv, TypeOK
  <2>2. TypeOK'
    BY <1>15, <2>1 DEF CleanUp, SessionInv, TypeOK, WithoutRows
  <2>3. Creations'
    BY <1>15, <2>1
    DEF CleanUp, SessionInv, Creations, Creating, TypeOK, WithoutRows, At, Issued, Requests
  <2>4. Removals'
    BY <1>15, <2>1 DEF CleanUp, SessionInv, Removals, OnIssued, Issued, TypeOK, Idle
  <2>5. RemovedStaysRemoved' /\ LiveSessionsAreNamed'
    BY <1>15, <2>1
    DEF CleanUp, SessionInv, RemovedStaysRemoved, LiveSessionsAreNamed, WithoutRows, Exists
  <2>6. NamesGoWithSessions'
    BY <1>15, <2>1
    DEF CleanUp, SessionInv, NamesGoWithSessions, NameIsInHand, WithoutRows, Idle
  <2>7. QED BY <2>2, <2>3, <2>4, <2>5, <2>6 DEF SessionInv
<1>16. ASSUME NEW s \in Session, UnmapLapsed(s) PROVE SessionInv'
  <2>1. s \in gone /\ cleaner # Idle
    BY <1>16 DEF UnmapLapsed, SessionInv, Removals, Idle
  <2>2. TypeOK'
    BY <1>16 DEF UnmapLapsed, SessionInv, TypeOK, NameOf, Idle
  <2>3. Creations'
    BY <1>16, <2>1 DEF UnmapLapsed, SessionInv, Creations, Creating, At, Issued
  <2>4. Removals'
    BY <1>16, <2>1 DEF UnmapLapsed, SessionInv, Removals, OnIssued, Issued, NameOf
  <2>5. RemovedStaysRemoved' /\ LiveSessionsAreNamed'
    BY <1>16, <2>1
    DEF UnmapLapsed, SessionInv, RemovedStaysRemoved, LiveSessionsAreNamed, Exists
  <2>6. NamesGoWithSessions'
    BY <1>16 DEF UnmapLapsed, SessionInv, NamesGoWithSessions, NameIsInHand, NameOf
  <2>7. QED BY <2>2, <2>3, <2>4, <2>5, <2>6 DEF SessionInv
<1>17. ASSUME RemoveLapsed PROVE SessionInv'
  <2>1. cleaner.names \subseteq gone /\ cleaner # Idle
    BY <1>17 DEF RemoveLapsed, SessionInv, Removals, Idle
  <2>2. TypeOK'
    BY <1>17 DEF RemoveLapsed, SessionInv, TypeOK, Idle
  <2>3. Creations'
    BY <1>17, <2>1 DEF RemoveLapsed, SessionInv, Creations, Creating, At, Issued
  <2>4. Removals'
    BY <1>17, <2>1 DEF RemoveLapsed, SessionInv, Removals, OnIssued, Issued, Idle
  <2>5. RemovedStaysRemoved' /\ LiveSessionsAreNamed'
    BY <1>17, <2>1
    DEF RemoveLapsed, SessionInv, RemovedStaysRemoved, LiveSessionsAreNamed, Exists
  <2>6. NamesGoWithSessions'
    BY <1>17 DEF RemoveLapsed, SessionInv, NamesGoWithSessions, NameIsInHand, Idle
  <2>7. QED BY <2>2, <2>3, <2>4, <2>5, <2>6 DEF SessionInv
<1>18. ASSUME Tick PROVE SessionInv'
  <2>1. \A t \in Request : Creating(t) => now + 1 < task[t].expires_at
    BY <1>18 DEF Tick
  <2>2. TypeOK'
    BY <1>18 DEF Tick, data, SessionInv, TypeOK
  <2>3. Creations'
    BY <1>18, <2>1 DEF Tick, data, SessionInv, Creations, Creating, At, Issued
  <2>4. QED
    BY <1>18, <2>2, <2>3
    DEF Tick, data, SessionInv, Removals, OnIssued, Issued, RemovedStaysRemoved,
        LiveSessionsAreNamed, NamesGoWithSessions, NameIsInHand, Exists
<1>19. ASSUME Restart PROVE SessionInv'
  <2>1. \A t \in Request : task'[t] = Idle
    BY <1>19 DEF Restart
  <2>2. TypeOK'
    BY <1>19 DEF Restart, SessionInv, TypeOK, NoRows, Requests
  <2>3. Creations' /\ Removals'
    BY <1>19, <2>1
    DEF Restart, SessionInv, Creations, Creating, Removals, OnIssued, Issued, Idle, TypeOK
  <2>4. RemovedStaysRemoved'
    BY <1>19 DEF Restart, SessionInv, RemovedStaysRemoved, NoRows
  <2>5. LiveSessionsAreNamed' /\ NamesGoWithSessions'
    BY <1>19 DEF Restart, LiveSessionsAreNamed, NamesGoWithSessions
  <2>6. QED BY <2>2, <2>3, <2>4, <2>5 DEF SessionInv
<1>20. CASE UNCHANGED vars
  BY <1>20
  DEF vars, data, SessionInv, TypeOK, Creations, Creating, Removals, OnIssued, Issued, At,
     RemovedStaysRemoved, LiveSessionsAreNamed, NamesGoWithSessions, NameIsInHand, Exists
<1>21. QED
  BY <1>1, <1>2, <1>3, <1>4, <1>5, <1>6, <1>7, <1>8, <1>9, <1>10, <1>11, <1>12, <1>13, <1>14,
     <1>15, <1>16, <1>17, <1>18, <1>19, <1>20 DEF Next, CleanerStep

\* The inductive invariant holds in every reachable state.
THEOREM SessionInvariant == Spec => []SessionInv
BY InitInv, StepInv, PTL DEF Spec

\* Requests, clean-up and maps keep to their types, however many run at a time.
THEOREM SessionTypeCorrect == Spec => []TypeOK
<1>1. SessionInv => TypeOK
  BY DEF SessionInv
<1>2. QED BY <1>1, SessionInvariant, PTL

\* A session that was removed never comes back, whatever was under way.
THEOREM NoSessionReturns == Spec => []RemovedStaysRemoved
<1>1. SessionInv => RemovedStaysRemoved
  BY DEF SessionInv
<1>2. QED BY <1>1, SessionInvariant, PTL

\* No request takes the name of a session that is still there.
THEOREM LiveSessionKeepsName == Spec => []LiveSessionsAreNamed
<1>1. SessionInv => LiveSessionsAreNamed
  BY DEF SessionInv
<1>2. QED BY <1>1, SessionInvariant, PTL

\* A name outlives its session in the two ways named, and in no other.
THEOREM NameGoesWithSession == Spec => []NamesGoWithSessions
<1>1. SessionInv => NamesGoWithSessions
  BY DEF SessionInv
<1>2. QED BY <1>1, SessionInvariant, PTL

-----------------------------------------------------------------------------
(* How long a session validates.                                             *)

\* A session lives no longer than a lifetime from now, and its token at least as
\* long as the session, unless that was extended.
TokensOutlast ==
    /\ \A s \in DOMAIN rows : rows[s] <= now + Lifetime
    /\ \A t \in Request :
          Creating(t) \/ At(t, "update") => task[t].expires_at <= now + Lifetime
    /\ \A s \in Issued \cap DOMAIN rows : s \in extended \/ rows[s] <= token[s]

LEMMA InitOutlast == Init => TokensOutlast
BY DEF Init, TokensOutlast, NoRows, Creating, At, Idle, Issued

LEMMA StepOutlast == SessionInv /\ TokensOutlast /\ [Next]_vars => TokensOutlast'
<1> SUFFICES ASSUME SessionInv, TokensOutlast, [Next]_vars PROVE TokensOutlast'
  OBVIOUS
<1> USE SessionAssumption
<1>0. /\ task \in [Request -> Requests] /\ now \in Nat
      /\ \A s \in DOMAIN rows : rows[s] \in Nat
      /\ \A s \in DOMAIN token : token[s] \in Nat
      /\ \A t \in Request : task[t] \in Requests
  BY DEF SessionInv, TypeOK
<1>1. ASSUME NEW t \in Request, StoreSession(t) PROVE TokensOutlast'
  <2>1. task[t].id \notin Issued
    BY <1>1 DEF StoreSession, SessionInv, Creations, Creating, At
  <2>2. QED
    BY <1>0, <1>1, <2>1
    DEF StoreSession, At, Goes, Creation, WithRow, TokensOutlast, Creating, Issued
<1>2. ASSUME NEW t \in Request, RegisterPlayer(t) PROVE TokensOutlast'
  BY <1>0, <1>2
  DEF RegisterPlayer, At, Goes, Creation, TokensOutlast, Creating, Issued
<1>3. ASSUME NEW t \in Request, StoreMapping(t) PROVE TokensOutlast'
  BY <1>0, <1>3
  DEF StoreMapping, At, Goes, Creation, TokensOutlast, Creating, Issued
<1>4. ASSUME NEW t \in Request, IssueToken(t) PROVE TokensOutlast'
  BY <1>0, <1>4
  DEF IssueToken, At, Goes, Idle, Exp, data, TokensOutlast, Creating, Issued
<1>5. ASSUME NEW t \in Request, ReadName(t) PROVE TokensOutlast'
  BY <1>0, <1>5
  DEF ReadName, At, Goes, Naming, Idle, data, TokensOutlast, Creating, Issued
<1>6. ASSUME NEW t \in Request, Repopulate(t) PROVE TokensOutlast'
  BY <1>0, <1>6
  DEF Repopulate, At, Goes, Idle, TokensOutlast, Creating, Issued
<1>7. ASSUME NEW t \in Request, DeleteSession(t) PROVE TokensOutlast'
  BY <1>0, <1>7
  DEF DeleteSession, At, Goes, Revocation, Idle, WithoutRows, TokensOutlast, Creating, Issued
<1>8. ASSUME NEW t \in Request, UnmapSession(t) PROVE TokensOutlast'
  BY <1>0, <1>8
  DEF UnmapSession, At, Goes, Revocation, Idle, TokensOutlast, Creating, Issued
<1>9. ASSUME NEW t \in Request, RemovePlayer(t) PROVE TokensOutlast'
  BY <1>0, <1>9
  DEF RemovePlayer, At, Goes, Idle, TokensOutlast, Creating, Issued
<1>10. ASSUME NEW t \in Request, UpdateSession(t) PROVE TokensOutlast'
  BY <1>0, <1>10
  DEF UpdateSession, At, Goes, Idle, WithRow, Exists, TokensOutlast, Creating, Issued
<1>11. ASSUME NEW t \in Request, NEW s \in Session, NewSession(t, s) PROVE TokensOutlast'
  BY <1>0, <1>11
  DEF NewSession, At, Goes, Creation, Expiry, data, TokensOutlast, Creating, Issued
<1>12. ASSUME NEW t \in Request, NEW s \in Session, LookUp(t, s) PROVE TokensOutlast'
  BY <1>0, <1>12
  DEF LookUp, At, Goes, Naming, data, TokensOutlast, Creating, Issued
<1>13. ASSUME NEW t \in Request, NEW s \in Session, RevokeSession(t, s) PROVE TokensOutlast'
  BY <1>0, <1>13
  DEF RevokeSession, At, Goes, Revocation, data, TokensOutlast, Creating, Issued
<1>14. ASSUME NEW t \in Request, NEW s \in Session, ExtendSession(t, s) PROVE TokensOutlast'
  BY <1>0, <1>14
  DEF ExtendSession, At, Goes, Extension, Expiry, data, TokensOutlast, Creating, Issued
<1>15. ASSUME CleanUp PROVE TokensOutlast'
  BY <1>0, <1>15 DEF CleanUp, Lapsed, WithoutRows, TokensOutlast, Creating, At, Issued
<1>16. ASSUME NEW s \in Session, UnmapLapsed(s) PROVE TokensOutlast'
  BY <1>0, <1>16 DEF UnmapLapsed, TokensOutlast, Creating, At, Issued
<1>17. ASSUME RemoveLapsed PROVE TokensOutlast'
  BY <1>0, <1>17 DEF RemoveLapsed, TokensOutlast, Creating, At, Issued
<1>18. ASSUME Tick PROVE TokensOutlast'
  <2>1. now' = now + 1 /\ UNCHANGED <<rows, token, task, extended>>
    BY <1>18 DEF Tick, data
  <2>2. \A s \in DOMAIN rows : rows[s] <= now + 1 + Lifetime
    BY <1>0 DEF TokensOutlast
  <2>3. ASSUME NEW t \in Request, Creating(t) \/ At(t, "update")
        PROVE  task[t].expires_at <= now + 1 + Lifetime
    <3>1. task[t].expires_at \in Nat
      BY <1>0, <2>3 DEF Requests, Creating, At, Idle
    <3>2. task[t].expires_at <= now + Lifetime
      BY <2>3 DEF TokensOutlast
    <3>3. QED
      BY <1>0, <3>1, <3>2
  <2>4. QED
    BY <2>1, <2>2, <2>3 DEF TokensOutlast, Creating, At, Issued
<1>19. ASSUME Restart PROVE TokensOutlast'
  BY <1>0, <1>19 DEF Restart, NoRows, Idle, TokensOutlast, Creating, At, Issued
<1>20. CASE UNCHANGED vars
  BY <1>20 DEF vars, data, TokensOutlast, Creating, At, Issued
<1>21. QED
  BY <1>1, <1>2, <1>3, <1>4, <1>5, <1>6, <1>7, <1>8, <1>9, <1>10, <1>11, <1>12, <1>13, <1>14, <1>15, <1>16, <1>17, <1>18, <1>19, <1>20
  DEF Next, CleanerStep

\* A session that validates stops to for one of four reasons, whatever else runs: a
\* revocation of its own, its expiry, its token's once it was extended, and without a
\* database a restart or the clean-up at the last instant.
THEOREM SessionLastsUntilExpiry == Spec => ValidUntilExpiry
<1> DEFINE Ends(s) ==
             \/ \E t \in Request : At(t, "delete") /\ task[t].id = s
             \/ now' > rows[s] \/ Overdue(s)'
             \/ s \in extended /\ ~TokenAccepted(s)'
             \/ ~persistent /\ (restarts' # restarts \/ now = rows[s])
           Lasts == \A s \in Session : Validates(s) /\ ~Validates(s)' => Ends(s)
<1>1. ASSUME SessionInv, TokensOutlast, [Next]_vars, NEW s \in Session,
             Validates(s), ~Validates(s)'
      PROVE  Ends(s)
  <2> USE SessionAssumption
  <2>1. /\ now \in Nat /\ s \in DOMAIN rows /\ rows[s] \in Nat /\ ~(now > rows[s])
        /\ s \in DOMAIN token /\ token[s] \in Nat /\ token[s] >= now - Leeway
        /\ s \in extended \/ rows[s] <= token[s]
    BY <1>1 DEF SessionInv, TypeOK, Validates, TokenAccepted, Exists, IsExpired, TokensOutlast,
                Issued
  <2>2. ASSUME UNCHANGED <<now, rows, token>> PROVE FALSE
    BY <1>1, <2>2 DEF Validates, TokenAccepted, Exists, IsExpired
  <2>3. ASSUME NEW t \in Request, StoreSession(t) PROVE FALSE
    <3>1. task[t].id # s
      BY <1>1, <2>1, <2>3 DEF StoreSession, SessionInv, Creations, Creating, At, Issued
    <3>2. /\ s \in DOMAIN rows' /\ rows'[s] = rows[s] /\ token' = token /\ now' = now
      BY <2>1, <2>3, <3>1 DEF StoreSession, WithRow
    <3>3. QED
      BY <1>1, <2>1, <3>2 DEF Validates, TokenAccepted, Exists, IsExpired
  <2>4. ASSUME NEW t \in Request, IssueToken(t) PROVE FALSE
    <3>1. task[t].id # s
      BY <1>1, <2>1, <2>4 DEF IssueToken, SessionInv, Creations, Creating, At, Issued
    <3>2. /\ s \in DOMAIN token' /\ token'[s] = token[s] /\ rows' = rows /\ now' = now
      BY <2>1, <2>4, <3>1 DEF IssueToken, data
    <3>3. QED
      BY <1>1, <2>1, <3>2 DEF Validates, TokenAccepted, Exists, IsExpired
  <2>5. ASSUME NEW t \in Request, DeleteSession(t) PROVE Ends(s)
    <3>1. CASE task[t].id = s
      BY <2>5, <3>1 DEF DeleteSession
    <3>2. CASE task[t].id # s
      <4>1. /\ s \in DOMAIN rows' /\ rows'[s] = rows[s] /\ token' = token /\ now' = now
        BY <2>1, <2>5, <3>2 DEF DeleteSession, WithoutRows
      <4>2. QED
        BY <1>1, <2>1, <4>1 DEF Validates, TokenAccepted, Exists, IsExpired
    <3>3. QED
      BY <3>1, <3>2
  <2>6. ASSUME NEW t \in Request, UpdateSession(t) PROVE Ends(s)
    <3>1. /\ s \in DOMAIN rows' /\ token' = token /\ now' = now
      BY <2>1, <2>6 DEF UpdateSession, WithRow
    <3>2. Overdue(s)'
      BY <1>1, <2>1, <3>1 DEF Validates, TokenAccepted, Exists, Overdue
    <3>3. QED
      BY <3>2
  <2>7. ASSUME CleanUp PROVE Ends(s)
    <3>1. token' = token /\ now' = now /\ rows' = WithoutRows(Lapsed)
      BY <2>7 DEF CleanUp
    <3>2. s \in Lapsed
      BY <1>1, <2>1, <3>1 DEF WithoutRows, Validates, TokenAccepted, Exists, IsExpired
    <3>3. ~persistent /\ now = rows[s]
      BY <2>1, <3>2 DEF Lapsed
    <3>4. QED
      BY <3>3
  <2>8. ASSUME Tick PROVE Ends(s)
    <3>1. now' = now + 1 /\ rows' = rows /\ token' = token
      BY <2>8 DEF Tick, data
    <3>2. ~TokenAccepted(s)' \/ now' > rows[s]
      BY <1>1, <2>1, <3>1 DEF Validates, Exists, IsExpired
    <3>3. CASE s \in extended
      BY <3>2, <3>3
    <3>4. CASE rows[s] <= token[s]
      <4>1. ~TokenAccepted(s)' => token[s] < now + 1 - Leeway
        BY <2>1, <3>1 DEF TokenAccepted
      <4>2. QED
        BY <2>1, <3>1, <3>2, <3>4, <4>1
    <3>5. QED
      BY <2>1, <3>3, <3>4
  <2>9. ASSUME Restart PROVE Ends(s)
    <3>1. CASE persistent
      <4>1. UNCHANGED <<now, rows, token>>
        BY <2>9, <3>1 DEF Restart
      <4>2. QED
        BY <2>2, <4>1
    <3>2. CASE ~persistent
      <4>1. restarts' = restarts + 1 /\ restarts \in Nat
        BY <1>1, <2>9 DEF Restart, SessionInv, TypeOK
      <4>2. restarts' # restarts
        BY <4>1
      <4>3. QED
        BY <3>2, <4>2
    <3>3. QED
      BY <3>1, <3>2
  <2>10. \/ UNCHANGED <<now, rows, token>>
         \/ \E t \in Request : \/ StoreSession(t) \/ IssueToken(t)
                               \/ DeleteSession(t) \/ UpdateSession(t)
         \/ CleanUp \/ Tick \/ Restart
    BY <1>1
    DEF Next, CleanerStep, vars, data, RegisterPlayer, StoreMapping, ReadName, Repopulate,
        UnmapSession, RemovePlayer, NewSession, LookUp, RevokeSession, ExtendSession,
        UnmapLapsed, RemoveLapsed
  <2>11. QED
    BY <2>2, <2>3, <2>4, <2>5, <2>6, <2>7, <2>8, <2>9, <2>10
<1>2. SessionInv /\ TokensOutlast /\ [Next]_vars => [Lasts]_vars
  BY <1>1
<1>3. Spec => []TokensOutlast
  BY InitOutlast, StepOutlast, SessionInvariant, PTL DEF Spec
<1>4. QED
  BY <1>2, <1>3, SessionInvariant, PTL DEF Spec, ValidUntilExpiry
=============================================================================
