----------------------------------- MODULE Session -----------------------------------
(***************************************************************************)
(* SessionService: session rows, the tokens issued for them, and the two     *)
(* maps in memory that name their players, under requests that interleave at *)
(* every await, a clean-up task, the passing of time and restarts.           *)
(*                                                                         *)
(* A session's id is also its player's.  The rows are in Postgres or, without *)
(* a database, in memory; the maps are always in memory.                     *)
(***************************************************************************)
EXTENDS Integers

CONSTANTS Session,                    \* the fresh uuids of sessions
          Request,                    \* requests that may run at one time
          Lifetime, Leeway,           \* of a session; and that of the token library
          MaxTime, MaxRestarts        \* bounds

ASSUME SessionAssumption ==
    /\ Lifetime \in Nat \ {0} /\ Leeway \in Nat
    /\ MaxTime \in Nat /\ MaxRestarts \in Nat

VARIABLES persistent,   \* whether the rows are in Postgres
          now,
          rows,         \* user_sessions: id -> expires_at
          named,        \* uuid_to_playername: players with a name
          players,      \* session_to_player_uuid: sessions that are mapped
          token,        \* what clients hold: id -> exp
          task,         \* request -> where it is
          cleaner,      \* where the clean-up task is
          restarts,
          used,         \* ids generated so far
          gone,         \* history variable: sessions whose row was removed
          known,        \* history variable: created completely since the last restart
          extended,     \* history variable: sessions that were extended
          leaked        \* history variable: names that nothing will remove

data == <<rows, named, players>>
vars == <<persistent, now, data, token, task, cleaner, restarts,
          used, gone, known, extended, leaked>>

Idle == [step |-> "idle"]
Creation(step, s, expires_at) == [step |-> step, id |-> s, expires_at |-> expires_at]
Naming(step, s) == [step |-> step, id |-> s]
Revocation(step, s, mapped) == [step |-> step, id |-> s, mapped |-> mapped]
Extension(s, expires_at) == [step |-> "update", id |-> s, expires_at |-> expires_at]
At(t, step) == task[t].step = step
Goes(t, to) == task' = [task EXCEPT ![t] = to]
NoRows == [x \in {} |-> x]
Exists(s) == s \in DOMAIN rows
WithRow(s, expires_at) ==
    [x \in DOMAIN rows \cup {s} |-> IF x = s THEN expires_at ELSE rows[x]]
WithoutRows(S) == [x \in DOMAIN rows \ S |-> rows[x]]

Init ==
    /\ persistent \in BOOLEAN /\ now = 0
    /\ rows = NoRows /\ named = {} /\ players = {} /\ token = NoRows
    /\ task = [t \in Request |-> Idle] /\ cleaner = Idle
    /\ restarts = 0 /\ used = {}
    /\ gone = {} /\ known = {} /\ extended = {} /\ leaked = {}
-----------------------------------------------------------------------------
(* create_session, step by step: the row lives from the first one. *)

\* Wrong variant: the days are counted back.
ExpiryBack == now - Lifetime

\* expires_at of a session that is new, or extended.
Expiry == now + Lifetime

NewSession(t, s) ==
    /\ At(t, "idle") /\ s \notin used
    /\ used' = used \cup {s}
    /\ Goes(t, Creation("store", s, Expiry))
    /\ UNCHANGED <<persistent, now, data, token, cleaner, restarts,
                   gone, known, extended, leaked>>

StoreSession(t) ==
    /\ At(t, "store")
    /\ rows' = WithRow(task[t].id, task[t].expires_at)
    /\ Goes(t, Creation("register", task[t].id, task[t].expires_at))
    /\ UNCHANGED <<persistent, now, named, players, token, cleaner, restarts,
                   used, gone, known, extended, leaked>>

\* Nobody else knows the id yet, so the mapping cannot have it.
RegisterPlayer(t) ==
    /\ At(t, "register")
    /\ named' = named \cup {task[t].id}
    /\ Goes(t, Creation("map", task[t].id, task[t].expires_at))
    /\ UNCHANGED <<persistent, now, rows, players, token, cleaner, restarts,
                   used, gone, known, extended, leaked>>

StoreMapping(t) ==
    /\ At(t, "map")
    /\ players' = players \cup {task[t].id}
    /\ Goes(t, Creation("issue", task[t].id, task[t].expires_at))
    /\ UNCHANGED <<persistent, now, rows, named, token, cleaner, restarts,
                   used, gone, known, extended, leaked>>

\* Wrong variant: a token for a moment only.
MomentaryExp == now

\* The token takes the time once more; both sides of its check are whole seconds.
Exp == now + Lifetime

IssueToken(t) ==
    /\ At(t, "issue")
    /\ token' = [x \in DOMAIN token \cup {task[t].id} |->
                    IF x = task[t].id THEN Exp ELSE token[x]]
    /\ known' = known \cup {task[t].id}
    /\ Goes(t, Idle)
    /\ UNCHANGED <<persistent, now, data, cleaner, restarts,
                   used, gone, extended, leaked>>
-----------------------------------------------------------------------------
(* validate_session: the token first, then the row. *)

TokenAccepted(s) == s \in DOMAIN token /\ token[s] >= now - Leeway
IsExpired(s) == now > rows[s]
Validates(s) == TokenAccepted(s) /\ Exists(s) /\ ~IsExpired(s)
-----------------------------------------------------------------------------
(* get_playername_by_uuid: a name that is missing is read from the row. *)

Issued == DOMAIN token

LookUp(t, s) ==
    /\ At(t, "idle") /\ s \in Issued /\ s \notin named
    /\ Goes(t, Naming("read", s))
    /\ UNCHANGED <<persistent, now, data, token, cleaner, restarts,
                   used, gone, known, extended, leaked>>

ReadName(t) ==
    /\ At(t, "read")
    /\ Goes(t, IF Exists(task[t].id) THEN Naming("repopulate", task[t].id) ELSE Idle)
    /\ UNCHANGED <<persistent, now, data, token, cleaner, restarts,
                   used, gone, known, extended, leaked>>

\* The row may have gone since: then the name stays for good.
Repopulate(t) ==
    /\ At(t, "repopulate")
    /\ named' = named \cup {task[t].id}
    /\ leaked' = IF Exists(task[t].id) THEN leaked ELSE leaked \cup {task[t].id}
    /\ Goes(t, Idle)
    /\ UNCHANGED <<persistent, now, rows, players, token, cleaner, restarts,
                   used, gone, known, extended>>
-----------------------------------------------------------------------------
(* revoke_session and extend_session *)

\* Wrong variant: the session is taken from the map before its row is removed.
RevokeFromMapFirst(t, s) ==
    /\ At(t, "idle") /\ s \in Issued
    /\ players' = players \ {s}
    /\ Goes(t, Revocation("delete", s, s \in players))
    /\ UNCHANGED <<persistent, now, rows, named, token, cleaner, restarts,
                   used, gone, known, extended, leaked>>

RevokeSession(t, s) ==
    /\ At(t, "idle") /\ s \in Issued
    /\ Goes(t, Revocation("delete", s, s \in players))
    /\ UNCHANGED <<persistent, now, data, token, cleaner, restarts,
                   used, gone, known, extended, leaked>>

\* NotFound ends the request with everything else as it is.
DeleteSession(t) ==
    /\ At(t, "delete")
    /\ IF Exists(task[t].id)
       THEN /\ rows' = WithoutRows({task[t].id})
            /\ gone' = gone \cup {task[t].id}
            /\ Goes(t, Revocation("unmap", task[t].id, task[t].mapped))
       ELSE Goes(t, Idle) /\ UNCHANGED <<rows, gone>>
    /\ UNCHANGED <<persistent, now, named, players, token, cleaner, restarts,
                   used, known, extended, leaked>>

\* After a restart the session is not mapped, and its name is left alone.
UnmapSession(t) ==
    /\ At(t, "unmap")
    /\ players' = players \ {task[t].id}
    /\ IF task[t].mapped
       THEN Goes(t, Revocation("unname", task[t].id, task[t].mapped)) /\ UNCHANGED leaked
       ELSE Goes(t, Idle) /\ leaked' = leaked \cup {task[t].id}
    /\ UNCHANGED <<persistent, now, rows, named, token, cleaner, restarts,
                   used, gone, known, extended>>

RemovePlayer(t) ==
    /\ At(t, "unname")
    /\ named' = named \ {task[t].id}
    /\ Goes(t, Idle)
    /\ UNCHANGED <<persistent, now, rows, players, token, cleaner, restarts,
                   used, gone, known, extended, leaked>>

ExtendSession(t, s) ==
    /\ At(t, "idle") /\ s \in Issued /\ Exists(s)
    /\ Goes(t, Extension(s, Expiry))
    /\ UNCHANGED <<persistent, now, data, token, cleaner, restarts,
                   used, gone, known, extended, leaked>>

\* Wrong variant: the row is written whether or not it is still there.
UpsertSession(t) ==
    /\ At(t, "update")
    /\ rows' = WithRow(task[t].id, task[t].expires_at)
    /\ extended' = extended \cup {task[t].id}
    /\ Goes(t, Idle)
    /\ UNCHANGED <<persistent, now, named, players, token, cleaner, restarts,
                   used, gone, known, leaked>>

UpdateSession(t) ==
    /\ At(t, "update")
    /\ IF Exists(task[t].id)
       THEN /\ rows' = WithRow(task[t].id, task[t].expires_at)
            /\ extended' = extended \cup {task[t].id}
       ELSE UNCHANGED <<rows, extended>>
    /\ Goes(t, Idle)
    /\ UNCHANGED <<persistent, now, named, players, token, cleaner, restarts,
                   used, gone, known, leaked>>
-----------------------------------------------------------------------------
(* cleanup_expired_sessions *)

\* Wrong variant: only sessions that the service has mapped are looked at.
LapsedMapped == {s \in players \cap DOMAIN rows :
                    IF persistent THEN rows[s] < now ELSE rows[s] <= now}

\* In memory a session goes at its last instant, in Postgres after it.
Lapsed == {s \in DOMAIN rows :
              IF persistent THEN rows[s] < now ELSE rows[s] <= now}

CleanUp ==
    /\ cleaner = Idle /\ Lapsed # {}
    /\ rows' = WithoutRows(Lapsed)
    /\ gone' = gone \cup Lapsed
    /\ cleaner' = [step |-> "unmap", ids |-> Lapsed]
    /\ UNCHANGED <<persistent, now, named, players, token, task, restarts,
                   used, known, extended, leaked>>

\* Wrong variant: only a mapped session's name is removed.
NamedBy(s) == players \cap {s}

\* Whose name goes with s: the player it was mapped to or, if it was not, s itself.
NameOf(s) == {s}

UnmapLapsed(s) ==
    /\ cleaner.step = "unmap" /\ s \in cleaner.ids
    /\ players' = players \ {s}
    /\ cleaner' = [step |-> "unname", ids |-> cleaner.ids \ {s}, names |-> NameOf(s)]
    /\ UNCHANGED <<persistent, now, rows, named, token, task, restarts,
                   used, gone, known, extended, leaked>>

RemoveLapsed ==
    /\ cleaner.step = "unname"
    /\ named' = named \ cleaner.names
    /\ cleaner' = IF cleaner.ids = {} THEN Idle ELSE [step |-> "unmap", ids |-> cleaner.ids]
    /\ UNCHANGED <<persistent, now, rows, players, token, task, restarts,
                   used, gone, known, extended, leaked>>
-----------------------------------------------------------------------------
(* Time and restarts.  A creation takes less than a session's lifetime. *)

Creating(t) == task[t].step \in {"store", "register", "map", "issue"}

Tick ==
    /\ now < MaxTime
    /\ \A t \in Request : Creating(t) => now + 1 < task[t].expires_at
    /\ now' = now + 1
    /\ UNCHANGED <<persistent, data, token, task, cleaner, restarts,
                   used, gone, known, extended, leaked>>

\* Clients keep their tokens, the database its rows; the requests are lost.
Restart ==
    /\ restarts < MaxRestarts
    /\ restarts' = restarts + 1
    /\ rows' = IF persistent THEN rows ELSE NoRows
    /\ gone' = IF persistent THEN gone ELSE gone \cup DOMAIN rows
    /\ named' = {} /\ players' = {} /\ known' = {} /\ leaked' = {}
    /\ task' = [t \in Request |-> Idle] /\ cleaner' = Idle
    /\ UNCHANGED <<persistent, now, token, used, extended>>

CleanerStep == CleanUp \/ (\E s \in Session : UnmapLapsed(s)) \/ RemoveLapsed

Next ==
    \/ \E t \in Request :
          \/ StoreSession(t) \/ RegisterPlayer(t) \/ StoreMapping(t) \/ IssueToken(t)
          \/ ReadName(t) \/ Repopulate(t)
          \/ DeleteSession(t) \/ UnmapSession(t) \/ RemovePlayer(t) \/ UpdateSession(t)
    \/ \E t \in Request, s \in Session :
          NewSession(t, s) \/ LookUp(t, s) \/ RevokeSession(t, s) \/ ExtendSession(t, s)
    \/ CleanerStep \/ Tick \/ Restart

Spec == Init /\ [][Next]_vars

\* The clean-up task is woken by its interval again and again.
FairSpec == Spec /\ WF_vars(CleanerStep)
-----------------------------------------------------------------------------
(* Properties. *)

Requests ==
    {Idle}
    \cup [step : {"store", "register", "map", "issue"}, id : Session, expires_at : Nat]
    \cup [step : {"read", "repopulate"}, id : Session]
    \cup [step : {"delete", "unmap", "unname"}, id : Session, mapped : BOOLEAN]
    \cup [step : {"update"}, id : Session, expires_at : Nat]

\* Type invariant: every request is at a step of its own procedure, and what is kept
\* is kept of sessions that were generated.
TypeOK ==
    /\ persistent \in BOOLEAN /\ now \in Nat /\ restarts \in Nat
    /\ used \subseteq Session /\ named \subseteq used /\ players \subseteq used
    /\ DOMAIN rows \subseteq used /\ \A s \in DOMAIN rows : rows[s] \in Nat
    /\ DOMAIN token \subseteq used /\ \A s \in DOMAIN token : token[s] \in Nat
    /\ task \in [Request -> Requests]
    /\ cleaner \in {Idle} \cup [step : {"unmap"}, ids : SUBSET Session]
                  \cup [step : {"unname"}, ids : SUBSET Session, names : SUBSET Session]

\* A session that was revoked, cleaned up or lost in a restart never comes back,
\* whichever extension or creation was under way: no request validates with it.
RemovedStaysRemoved == gone \cap DOMAIN rows = {}

\* While a session created since the restart has its row, its player has a name and
\* the maps have it: no other request or clean-up takes them away first.
LiveSessionsAreNamed == \A s \in known : Exists(s) => s \in named /\ s \in players

\* Who is about to remove the name of s.
NameIsInHand(s) ==
    \/ \E t \in Request : task[t].step \in {"unmap", "unname"} /\ task[t].id = s
    \/ cleaner.step # "idle" /\ s \in cleaner.ids
    \/ cleaner.step = "unname" /\ s \in cleaner.names

\* A name outlives its session only if a lookup that had read the row put it back,
\* or if the session, not mapped since a restart, was revoked.
NamesGoWithSessions ==
    \A s \in named \ DOMAIN rows : s \in leaked \/ NameIsInHand(s)

Overdue(s) == Exists(s) /\ IsExpired(s)
\* A session that validates goes on validating until it is revoked, until its row
\* expires (an extension written late may bring that forward) or, once extended, its
\* token does; without a database also until a restart or, by the clean-up, its last
\* instant.
ValidUntilExpiry ==
    [][\A s \in Session :
          Validates(s) /\ ~Validates(s)' =>
             \/ \E t \in Request : At(t, "delete") /\ task[t].id = s
             \/ now' > rows[s] \/ Overdue(s)'
             \/ s \in extended /\ ~TokenAccepted(s)'
             \/ ~persistent /\ (restarts' # restarts \/ now = rows[s])]_vars

\* A session that has expired is removed in the end, unless it is extended before.
ExpiredAreRemoved == \A s \in Session : Overdue(s) ~> ~Overdue(s)
=============================================================================
