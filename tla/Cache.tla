-------------------------------- MODULE Cache --------------------------------
(***************************************************************************)
(* CacheService for one key with a tag of its own, as platform-settings,   *)
(* the founder's list of institutions and the status of a credential are   *)
(* cached: the entry of each API process, the entry and the tag set in the *)
(* Redis that the processes share, and the row of the database they stand  *)
(* for.                                                                    *)
(*                                                                         *)
(* A read that finds nothing in its process asks Redis, and then loads the *)
(* row; what it stores goes to Redis behind its back, one command after    *)
(* another, and so does what an invalidation deletes there.  Every command *)
(* can fail, which is ignored.  A value is the version of the row.         *)
(***************************************************************************)
EXTENDS Integers

CONSTANTS
    Servers,    \* API processes
    Writers,    \* those that updates of the row come to
    MaxUpsets   \* bound: updates of the row, and commands and audits that fail

ASSUME CacheAssumption == Servers # {} /\ Writers \subseteq Servers /\ MaxUpsets \in Nat

VARIABLES
    row,      \* the version in the database
    local,    \* local[p]: the entry of process p, or Nothing
    remote,   \* the entry in Redis, or Nothing
    tagged,   \* is the key in the tag's set in Redis?
    fetch,    \* fetch[p]: a getOrSet of p and what it has read
    push,     \* push[p]: a set of p on its way to Redis
    drop,     \* drop[p]: an invalidateTag of p on its way to Redis
    writing,  \* writing[p]: p has updated the row and invalidated nothing yet
    writer,   \* history: the process of the last update
    faults,   \* failures so far
    excused   \* history: has something overlapped an update, or failed?

cacheVars == <<row, local, remote, tagged, fetch, push, drop, writing, writer,
               faults, excused>>

-----------------------------------------------------------------------------
Nothing == -1

Versions == 0 .. MaxUpsets

Entry == Versions \cup {Nothing}

\* "fill": with the entry of Redis; "load": before the loader; "keep": with what
\* the loader returned.
Fetch == [at : {"none", "fill", "load", "keep"}, value : Entry]

NoFetch == [at |-> "none", value |-> Nothing]

\* The commands of UpstashRedisCacheAdapter.set that are still to come.
Push == [at : {"none", "set", "add"}, value : Entry]

NoPush == [at |-> "none", value |-> Nothing]

\* The commands of UpstashRedisCacheAdapter.invalidateTag that are still to come.
Drop == {"none", "members", "delete", "untag"}

CacheTypeOK ==
    /\ row \in Versions
    /\ local \in [Servers -> Entry]
    /\ remote \in Entry
    /\ tagged \in BOOLEAN
    /\ fetch \in [Servers -> Fetch]
    /\ push \in [Servers -> Push]
    /\ drop \in [Servers -> Drop]
    /\ writing \in [Servers -> BOOLEAN]
    /\ writer \in Servers
    /\ faults \in 0 .. MaxUpsets
    /\ excused \in BOOLEAN

CacheInit ==
    /\ row = 0
    /\ local = [p \in Servers |-> Nothing]
    /\ remote = Nothing
    /\ tagged = FALSE
    /\ fetch = [p \in Servers |-> NoFetch]
    /\ push = [p \in Servers |-> NoPush]
    /\ drop = [p \in Servers |-> "none"]
    /\ writing = [p \in Servers |-> FALSE]
    /\ writer = CHOOSE p \in Servers : TRUE
    /\ faults = 0
    /\ excused = FALSE

-----------------------------------------------------------------------------
\* An update is under way from its write to the last command of its invalidation.
Updating == \E p \in Servers : writing[p] \/ drop[p] # "none"

\* A value that is not the row's any more is on its way to process p or to Redis.
InFlight(p) == \E copy \in {fetch[p], push[p]} : copy.value \notin {row, Nothing}

Fails == row + faults < MaxUpsets /\ faults' = faults + 1 /\ excused' = TRUE

\* getOrSet misses the entry of its own process and asks Redis, which has one ...
RemoteHit(p) ==
    /\ local[p] = Nothing /\ fetch[p].at = "none"
    /\ remote # Nothing
    /\ fetch' = [fetch EXCEPT ![p] = [at |-> "fill", value |-> remote]]
    /\ excused' = (excused \/ (Updating /\ remote # row))
    /\ UNCHANGED <<row, local, remote, tagged, push, drop, writing, writer, faults>>

\* ... or none, or does not answer.
RemoteMiss(p) ==
    /\ local[p] = Nothing /\ fetch[p].at = "none"
    /\ fetch' = [fetch EXCEPT ![p].at = "load"]
    /\ \/ remote = Nothing /\ UNCHANGED <<faults, excused>>
       \/ remote # Nothing /\ Fails
    /\ UNCHANGED <<row, local, remote, tagged, push, drop, writing, writer>>

\* Mutant of Fill: an entry of Redis is stored with set, for another full life.
FillAsNew(p) ==
    /\ fetch[p].at = "fill" /\ push[p].at = "none"
    /\ local' = [local EXCEPT ![p] = fetch[p].value]
    /\ push' = [push EXCEPT ![p] = [at |-> "set", value |-> fetch[p].value]]
    /\ fetch' = [fetch EXCEPT ![p] = NoFetch]
    /\ UNCHANGED <<row, remote, tagged, drop, writing, writer, faults, excused>>

\* The entry of Redis goes into the process, for the rest of its life there.
Fill(p) ==
    /\ fetch[p].at = "fill"
    /\ local' = [local EXCEPT ![p] = fetch[p].value]
    /\ fetch' = [fetch EXCEPT ![p] = NoFetch]
    /\ UNCHANGED <<row, remote, tagged, push, drop, writing, writer, faults, excused>>

\* The loader reads the row.
LoadRow(p) ==
    /\ fetch[p].at = "load"
    /\ fetch' = [fetch EXCEPT ![p] = [at |-> "keep", value |-> row]]
    /\ UNCHANGED <<row, local, remote, tagged, push, drop, writing, writer, faults, excused>>

\* set: the process keeps the value and sends it to Redis.
Keep(p) ==
    /\ fetch[p].at = "keep" /\ push[p].at = "none"
    /\ local' = [local EXCEPT ![p] = fetch[p].value]
    /\ push' = [push EXCEPT ![p] = [at |-> "set", value |-> fetch[p].value]]
    /\ fetch' = [fetch EXCEPT ![p] = NoFetch]
    /\ UNCHANGED <<row, remote, tagged, drop, writing, writer, faults, excused>>

\* SET.
PushEntry(p) ==
    /\ push[p].at = "set"
    /\ remote' = push[p].value
    /\ push' = [push EXCEPT ![p].at = "add"]
    /\ UNCHANGED <<row, local, tagged, fetch, drop, writing, writer, faults, excused>>

\* Mutant of Tagged: the key does not reach the tag's set.
NotTagged(p) == tagged

Tagged(p) == push[p].at = "add" \/ tagged

\* SADD and EXPIRE.
PushTag(p) ==
    /\ push[p].at = "add"
    /\ tagged' = Tagged(p)
    /\ push' = [push EXCEPT ![p] = NoPush]
    /\ UNCHANGED <<row, local, remote, fetch, drop, writing, writer, faults, excused>>

\* A command of a set fails, and those after it are not sent.
PushFails(p) ==
    /\ push[p].at # "none"
    /\ push' = [push EXCEPT ![p] = NoPush]
    /\ Fails
    /\ UNCHANGED <<row, local, remote, tagged, fetch, drop, writing, writer>>

-----------------------------------------------------------------------------
\* updatePlatformSettings, updateInstitutionStatus and the like update the row ...
WriteRow(p) ==
    /\ p \in Writers
    /\ ~writing[p] /\ drop[p] = "none"
    /\ row + faults < MaxUpsets
    /\ row' = row + 1
    /\ writing' = [writing EXCEPT ![p] = TRUE]
    /\ writer' = p
    /\ UNCHANGED <<local, remote, tagged, fetch, push, drop, faults, excused>>

\* ... and, after the audit entry, invalidate the tag, at once in the process and
\* behind its back in Redis.
InvalidateTag(p) ==
    /\ writing[p]
    /\ local' = [local EXCEPT ![p] = Nothing]
    /\ drop' = [drop EXCEPT ![p] = "members"]
    /\ writing' = [writing EXCEPT ![p] = FALSE]
    /\ excused' = (excused \/ \E q \in Servers : InFlight(q))
    /\ UNCHANGED <<row, remote, tagged, fetch, push, writer, faults>>

\* The audit entry cannot be written: nothing is invalidated.
AuditFails(p) ==
    /\ writing[p]
    /\ writing' = [writing EXCEPT ![p] = FALSE]
    /\ Fails
    /\ UNCHANGED <<row, local, remote, tagged, fetch, push, drop, writer>>

\* SMEMBERS: the keys of the tag, if the set has any.
DropMembers(p) ==
    /\ drop[p] = "members"
    /\ drop' = [drop EXCEPT ![p] = IF tagged THEN "delete" ELSE "untag"]
    /\ UNCHANGED <<row, local, remote, tagged, fetch, push, writing, writer, faults, excused>>

\* DEL of the key.
DropEntry(p) ==
    /\ drop[p] = "delete"
    /\ remote' = Nothing
    /\ drop' = [drop EXCEPT ![p] = "untag"]
    /\ UNCHANGED <<row, local, tagged, fetch, push, writing, writer, faults, excused>>

\* DEL of the tag's set, with what was added to it since.
DropTag(p) ==
    /\ drop[p] = "untag"
    /\ tagged' = FALSE
    /\ drop' = [drop EXCEPT ![p] = "none"]
    /\ excused' = (excused \/ (tagged /\ remote # Nothing))
    /\ UNCHANGED <<row, local, remote, fetch, push, writing, writer, faults>>

DropFails(p) ==
    /\ drop[p] # "none"
    /\ drop' = [drop EXCEPT ![p] = "none"]
    /\ Fails
    /\ UNCHANGED <<row, local, remote, tagged, fetch, push, writing, writer>>

-----------------------------------------------------------------------------
\* get finds the entry of its process expired, and deletes it there and in Redis.
ExpireLocal(p) ==
    /\ local[p] # Nothing
    /\ local' = [local EXCEPT ![p] = Nothing]
    /\ remote' \in {remote, Nothing}
    /\ UNCHANGED <<row, tagged, fetch, push, drop, writing, writer, faults, excused>>

ExpireRemote ==
    /\ remote # Nothing
    /\ remote' = Nothing
    /\ UNCHANGED <<row, local, tagged, fetch, push, drop, writing, writer, faults, excused>>

\* The tag's set has the life of the entry that was added last, and begins it later.
ExpireTag ==
    /\ tagged /\ remote = Nothing
    /\ tagged' = FALSE
    /\ UNCHANGED <<row, local, remote, fetch, push, drop, writing, writer, faults, excused>>

Read(p) == RemoteHit(p) \/ RemoteMiss(p) \/ Fill(p) \/ LoadRow(p) \/ Keep(p)

Send(p) ==
    \/ PushEntry(p) \/ PushTag(p) \/ PushFails(p)
    \/ DropMembers(p) \/ DropEntry(p) \/ DropTag(p) \/ DropFails(p)

Update(p) == WriteRow(p) \/ InvalidateTag(p) \/ AuditFails(p)

CacheNext ==
    \/ \E p \in Servers : Read(p) \/ Send(p) \/ Update(p) \/ ExpireLocal(p)
    \/ ExpireRemote \/ ExpireTag

CacheSpec == CacheInit /\ [][CacheNext]_cacheVars

-----------------------------------------------------------------------------
Fresh(entry) == entry \in {row, Nothing}

\* When an update is over, down to its last command, neither Redis nor the process
\* that made it has anything older than the row, unless an older value was on its
\* way when invalidateTag ran, or something failed.
InvalidationHolds == Updating \/ excused \/ (Fresh(remote) /\ Fresh(local[writer]))

\* Every copy is the row's in the end: whatever the overlaps, failures and lost
\* commands left behind expires, and no process hands it on for longer.
StaleDrains == <>[](Fresh(remote) /\ \A p \in Servers : Fresh(local[p]))
=============================================================================
