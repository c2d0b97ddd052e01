---------------------------- MODULE SessionAccess ----------------------------
(***************************************************************************)
(* Who may see one session: its entry in the access store, the spool       *)
(* record next to which it lives, and the handlers that touch one, the     *)
(* other or both: creation, registration, member changes, the list with    *)
(* its pruning, and a request that is let in or turned away.  The store    *)
(* holds one entry per session; entries do not affect each other.          *)
(*                                                                         *)
(* Time passes in ticks, of which Grace make aclGrace.  Go slices are      *)
(* modelled where they are shared: an access list handed to a request      *)
(* aliases the store's own array.                                          *)
(***************************************************************************)
EXTENDS Naturals, Sequences, FiniteSets

CONSTANTS
  Users,
  Nobody,  \* no owner, no user
  Grace,   \* ticks an entry without a record is kept
  MaxBusy  \* bound: handlers at work at once

ASSUME AccessAssumption ==
  /\ Nobody \notin Users
  /\ Grace \in Nat \ {0} /\ MaxBusy \in Nat \ {0}

VARIABLES
  record,   \* the session's record is in the spool
  launch,   \* "new", "owned", "started" or "failed" by handleCreate; "announced"
  reg,      \* handleRegister: the user whose owner entry is still to be written
  entry,    \* the store has an entry for the session
  owner, age, \* the entry's owner and its time since AddedAt
  cells, count, \* the array of the member list, and the length of the list
  listing,  \* views: "none", or whether the live set held the session
  change,   \* a member change that was authorized and is still to be applied
  req,      \* a request and its copy of the entry
  \* history
  made, granted, \* what was promised: the owner last recorded, the members last added
  gone,     \* ticks the record has been missing, at most Grace
  exposed   \* the entry was old while the record was missing: the promise is off

storeVars   == <<entry, owner, age, cells, count>>
handlerVars == <<launch, reg, listing, change>>
promiseVars == <<made, granted>>
pastVars    == <<gone, exposed>>
vars == <<record, storeVars, handlerVars, req, promiseVars, pastVars>>

-----------------------------------------------------------------------------
(* Values *)

Members == {cells[i] : i \in 1..count}

Allowed(u) == entry /\ (owner = u \/ u \in Members)

NoChange == <<"none", Nobody>>
NoOwner  == <<"none", Nobody>>

\* A request: whose it is, how far its scan of the member list has come, the
\* length it read and the array it read if the store has another by now;
\* what it found; and whether, while it ran, the user was ever in, was ever
\* out, and a member was ever removed.
Idle == [user |-> Nobody, at |-> 0, length |-> 0, copy |-> <<>>, answer |-> "none",
         wasIn |-> FALSE, wasOut |-> FALSE, removal |-> FALSE]

\* The handlers that have begun and not returned.
Busy == {h \in {"create", "register", "list", "change", "request"} :
           \/ h = "create" /\ launch = "owned"
           \/ h = "register" /\ reg # NoOwner
           \/ h = "list" /\ listing # "none"
           \/ h = "change" /\ change # NoChange
           \/ h = "request" /\ req # Idle}
MayBegin == Cardinality(Busy) < MaxBusy

Scanning == req.user # Nobody /\ req.answer = "none"

-----------------------------------------------------------------------------
Init ==
  /\ record = FALSE
  /\ launch = "new" /\ reg = NoOwner
  /\ entry = FALSE /\ owner = Nobody /\ age = 0
  /\ cells = <<>> /\ count = 0
  /\ listing = "none" /\ change = NoChange
  /\ req = Idle
  /\ made = Nobody /\ granted = {}
  /\ gone = 0 /\ exposed = FALSE

-----------------------------------------------------------------------------
(* The store, each under its mutex *)

Promise(o, members) ==
  IF exposed THEN UNCHANGED promiseVars ELSE made' = o /\ granted' = members
NoPromise == made' = Nobody /\ granted' = {}

\* What a running request sees of a change: whether its user is in or out now,
\* and, when the list moved to another array, the array it still reads.
Seen(moved, removed) ==
  LET in == entry' /\ \/ owner' = req.user
                      \/ \E i \in 1..count' : cells'[i] = req.user
  IN  req' = IF ~Scanning THEN req
             ELSE [req EXCEPT !.wasIn = @ \/ in, !.wasOut = @ \/ ~in,
                              !.removal = @ \/ removed,
                              !.copy = IF moved /\ @ = <<>> THEN cells ELSE @]

\* Mutant: the entry is not dated.
SetOwnerUndated(u) ==
  /\ entry' = TRUE /\ owner' = u
  /\ age' = IF entry THEN age ELSE Grace
  /\ UNCHANGED <<cells, count>>
  /\ Promise(u, granted)
  /\ Seen(FALSE, FALSE)

\* AddedAt is set when the entry appears and never again.
SetOwner(u) ==
  /\ entry' = TRUE /\ owner' = u
  /\ age' = IF entry THEN age ELSE 0
  /\ UNCHANGED <<cells, count>>
  /\ Promise(u, granted)
  /\ Seen(FALSE, FALSE)

\* Mutant: the newest member is put in front.
AddInFront(u) ==
  /\ count' = count + 1
  /\ Promise(made, granted \cup {u})
  /\ cells' = <<u>> \o cells
  /\ Seen(FALSE, FALSE)
\* append: over a cell the list no longer counts, else behind the last cell, in
\* the same array if it has room and in a new one if not.
Add(u) ==
  /\ count' = count + 1
  /\ Promise(made, granted \cup {u})
  /\ \/ /\ count < Len(cells)
        /\ cells' = [cells EXCEPT ![count + 1] = u]
        /\ Seen(FALSE, FALSE)
     \/ /\ count = Len(cells)
        /\ cells' = Append(cells, u)
        /\ \E moved \in BOOLEAN : Seen(moved, FALSE)

\* Mutant: only the owner is looked for before the member is added.
AddMemberTwice(u) ==
  /\ entry' = TRUE
  /\ age' = IF entry THEN age ELSE 0
  /\ UNCHANGED owner
  /\ IF u = owner THEN UNCHANGED <<cells, count, promiseVars>> /\ Seen(FALSE, FALSE)
                  ELSE Add(u)
AddMember(u) ==
  /\ entry' = TRUE
  /\ age' = IF entry THEN age ELSE 0
  /\ UNCHANGED owner
  /\ IF u \in Members \cup {owner}
     THEN UNCHANGED <<cells, count, promiseVars>> /\ Seen(FALSE, FALSE)
     ELSE Add(u)

\* The loop over the list: kept[i] is what it kept of the first i members.
Keep(u) ==
  LET kept[i \in 0..count] ==
        IF i = 0 THEN <<>>
        ELSE IF cells[i] # u THEN Append(kept[i - 1], cells[i]) ELSE kept[i - 1]
  IN  kept[count]

\* The members kept are written to the front of the same array, and the list is
\* cut to them.
RemoveMember(u) ==
  /\ IF entry
     THEN /\ cells' = Keep(u) \o SubSeq(cells, Len(Keep(u)) + 1, Len(cells))
          /\ count' = Len(Keep(u))
          /\ Promise(made, granted \ {u})
          /\ UNCHANGED <<entry, owner, age>>
          /\ Seen(FALSE, u \in Members)
     ELSE UNCHANGED <<storeVars, promiseVars, req>>

Delete ==
  /\ entry' = FALSE /\ owner' = Nobody /\ age' = 0
  /\ cells' = <<>> /\ count' = 0
  /\ Seen(TRUE, FALSE)

-----------------------------------------------------------------------------
(* handleCreate *)

\* Under a fresh id; the owner is recorded before the launch, unless a machine
\* created the session.
Create(u) ==
  /\ MayBegin
  /\ launch = "new"
  /\ launch' = "owned"
  /\ IF u # Nobody THEN SetOwner(u) ELSE UNCHANGED <<storeVars, promiseVars, req>>
  /\ UNCHANGED <<record, reg, listing, change, pastVars>>

\* The wrapper runs and writes its record.
Launched ==
  /\ launch = "owned"
  /\ launch' = "started"
  /\ record' = TRUE
  /\ UNCHANGED <<storeVars, reg, listing, change, req, promiseVars, pastVars>>

\* The entry is dropped at once.
LaunchFails ==
  /\ launch = "owned"
  /\ launch' = "failed"
  /\ NoPromise
  /\ Delete
  /\ UNCHANGED <<record, reg, listing, change, pastVars>>

-----------------------------------------------------------------------------
(* handleRegister, for a session announced from another machine *)

\* The record is saved, and listed from then on ...
RegisterSave(u) ==
  /\ MayBegin
  /\ launch \in {"new", "announced"} /\ reg = NoOwner
  /\ launch' = "announced"
  /\ record' = TRUE /\ gone' = IF gone = Grace THEN gone ELSE 0
  /\ reg' = IF u # Nobody THEN <<"saved", u>> ELSE reg
  /\ UNCHANGED <<storeVars, listing, change, req, promiseVars, exposed>>

\* ... before the user whose key announced it is recorded as its owner.
RegisterOwn ==
  /\ reg[1] = "saved"
  /\ SetOwner(reg[2])
  /\ reg' = NoOwner
  /\ UNCHANGED <<record, launch, listing, change, pastVars>>

Expose(old) ==
  IF old THEN exposed' = TRUE /\ NoPromise ELSE UNCHANGED <<exposed, promiseVars>>

\* The wrapper is suspended, cut off or over: the record goes stale.
RecordGoes ==
  /\ record
  /\ record' = FALSE
  /\ Expose(entry /\ age = Grace)
  /\ UNCHANGED <<storeVars, handlerVars, req, gone>>

-----------------------------------------------------------------------------
(* handleAddMember and handleRemoveMember *)

\* manageable: the record is live and the caller, its owner or an admin, may
\* change the list ...
ChangeCheck(op, u) ==
  /\ MayBegin
  /\ change = NoChange
  /\ record
  /\ change' = <<op, u>>
  /\ UNCHANGED <<record, storeVars, launch, reg, listing, req, promiseVars, pastVars>>

\* ... which is changed once the body is read, whatever became of the session.
ChangeApply ==
  /\ change # NoChange
  /\ IF change[1] = "add" THEN AddMember(change[2]) ELSE RemoveMember(change[2])
  /\ change' = NoChange
  /\ UNCHANGED <<record, launch, reg, listing, pastVars>>

-----------------------------------------------------------------------------
(* views *)

\* The live set is read ...
ListLive ==
  /\ MayBegin
  /\ listing = "none"
  /\ listing' = IF record THEN "live" ELSE "missing"
  /\ UNCHANGED <<record, storeVars, launch, reg, change, req, promiseVars, pastVars>>

\* Mutant: an entry without an owner is not looked at.
OrphanIfOwned == entry /\ listing = "missing" /\ age = Grace /\ owner # Nobody
\* What Prune drops: by the live set as it was read, by the age as it is now.
Orphan == entry /\ listing = "missing" /\ age = Grace

Prune ==
  /\ listing # "none"
  /\ listing' = "none"
  /\ IF Orphan THEN /\ Delete
                    /\ gone' = 0 /\ exposed' = FALSE
               ELSE UNCHANGED <<storeVars, req, pastVars>>
  /\ UNCHANGED <<record, launch, reg, change, promiseVars>>

-----------------------------------------------------------------------------
(* A request for the session, by a user who is not an admin *)

\* liveRecord finds the record; ACL copies the entry, not the array.
RequestStart(u) ==
  /\ MayBegin
  /\ req = Idle
  /\ record
  /\ req' = [Idle EXCEPT !.user = u, !.at = 1, !.length = count,
                         !.answer = IF owner = u THEN "in" ELSE "none",
                         !.wasIn = Allowed(u), !.wasOut = ~Allowed(u)]
  /\ UNCHANGED <<record, storeVars, handlerVars, promiseVars, pastVars>>

\* Allows compares the next member, without the store's mutex.
RequestScan ==
  /\ Scanning
  /\ LET read == IF req.copy = <<>> THEN cells ELSE req.copy
     IN  req' = IF req.at > req.length THEN [req EXCEPT !.answer = "out"]
                ELSE IF read[req.at] = req.user THEN [req EXCEPT !.answer = "in"]
                ELSE [req EXCEPT !.at = @ + 1]
  /\ UNCHANGED <<record, storeVars, handlerVars, promiseVars, pastVars>>

RequestDone ==
  /\ req.answer # "none"
  /\ req' = Idle
  /\ UNCHANGED <<record, storeVars, handlerVars, promiseVars, pastVars>>

-----------------------------------------------------------------------------
\* No handler takes as long as a tick.
Tick ==
  /\ Busy = {}
  /\ age' = IF entry /\ age < Grace THEN age + 1 ELSE age
  /\ gone' = IF ~record /\ entry /\ gone < Grace THEN gone + 1 ELSE gone
  /\ Expose(~record /\ entry /\ age' = Grace)
  /\ UNCHANGED <<record, entry, owner, cells, count, handlerVars, req>>

Next ==
  \/ \E u \in Users \cup {Nobody} : Create(u) \/ RegisterSave(u)
  \/ Launched \/ LaunchFails \/ RegisterOwn \/ RecordGoes
  \/ \E u \in Users : RequestStart(u) \/ \E op \in {"add", "remove"} : ChangeCheck(op, u)
  \/ ChangeApply \/ ListLive \/ Prune \/ RequestScan \/ RequestDone
  \/ Tick

\* Some page lists the sessions on its timer, and time passes between listings.
Fairness == /\ WF_vars(Launched \/ LaunchFails) /\ WF_vars(RegisterOwn) /\ WF_vars(ChangeApply)
            /\ WF_vars(RequestScan \/ RequestDone)
            /\ WF_vars(ListLive) /\ WF_vars(Prune) /\ SF_vars(Tick)

Spec == Init /\ [][Next]_vars
FairSpec == Spec /\ Fairness

-----------------------------------------------------------------------------
(* Properties *)

Answer == {"none", "in", "out"}

Ranges ==
  /\ record \in BOOLEAN /\ entry \in BOOLEAN /\ exposed \in BOOLEAN
  /\ launch \in {"new", "owned", "started", "failed", "announced"}
  /\ reg \in {"none", "saved"} \X (Users \cup {Nobody})
  /\ owner \in Users \cup {Nobody} /\ made \in Users \cup {Nobody}
  /\ age \in 0..Grace /\ gone \in 0..Grace
  /\ cells \in Seq(Users) /\ count \in 0..Len(cells)
  /\ listing \in {"none", "live", "missing"}
  /\ change \in {NoChange} \cup ({"add", "remove"} \X Users)
  /\ req \in [user : Users \cup {Nobody}, at : Nat, length : Nat, copy : Seq(Users),
              answer : Answer, wasIn : BOOLEAN, wasOut : BOOLEAN, removal : BOOLEAN]
  /\ granted \subseteq Users

\* Every variable stays in its range, and nobody is in the list twice.
TypeOK == Ranges /\ Cardinality(Members) = count

\* Unless the session was missing with an entry older than the grace, it has
\* the owner last recorded and every member added since and not removed:
\* through its launch, with the entry before the record; through suspensions
\* and returns; through listings that read the live set before it changed.
LastingAccess ==
  ~exposed => granted \subseteq Members /\ (made # Nobody => owner = made)

\* A user is let in only if the list had them at some moment of the request,
\* and turned away only if it did not, or a removal shifted the list while it
\* was read.
AnswerIsCurrent ==
  /\ req.answer = "in" => req.wasIn
  /\ req.answer = "out" => req.wasOut \/ req.removal

\* An entry whose session is missing for good leaves the store.
OrphanIsPruned == entry /\ ~record ~> record \/ ~entry

\* users.go: the grace outlasts any downtime a session can return from, so a
\* listing drops only the entry of a session that was missing for the grace.
AccessSurvivesDowntime ==
  [][entry /\ ~entry' /\ launch # "owned" => gone = Grace]_vars
=============================================================================
