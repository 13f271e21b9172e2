------------------------------ MODULE DaemonBoot ------------------------------
(***************************************************************************)
(* How processes come to own a meta store and a socket, and how a client   *)
(* finds them: runServe from bind to clean-up (app/main.go), the socket    *)
(* and its watcher (app/socket.go), the writer lease and its record        *)
(* (core/meta/lease.go, lease_record.go), the command line tools that take *)
(* the lease, and a frontend's connect (rpc/locate.go, tui/client.go).     *)
(*                                                                         *)
(* The file system is a map from addresses to inodes; an inode number is   *)
(* reused as soon as nothing refers to it.  Processes crash, the address   *)
(* is swept by somebody else, and the connection under a PostgreSQL lease  *)
(* is cut.                                                                 *)
(***************************************************************************)
EXTENDS Integers, FiniteSets

CONSTANTS Addrs,          \* socket addresses, "A" the frontend's
          Metas,          \* meta stores, "S" the frontend's
          Daemons,        \* slots for `autodb --serve` processes
          First,          \* the daemon the client's own config starts
          Inodes,         \* inode numbers, a bound: 1..n
          LaunchBudget,   \* bound: processes started
          Mishaps,        \* bound: kills, swept sockets and cut lease connections
          ClientTries,    \* bound: the client's looks within its window
          Tools,          \* subset of {"init", "schema", "migrate"}
          Frontends,      \* subset of {"idle", "absent"}: is there a frontend?
          LeaseKinds,     \* subset of {"file", "pg"}
          Releases        \* the schema versions binaries know

ASSUME BootAssumption ==
  /\ First \in Daemons /\ IsFiniteSet(Inodes) /\ Inodes \subseteq Nat \ {0}
  /\ LaunchBudget \in Nat /\ Mishaps \in Nat /\ ClientTries \in Nat
  /\ LeaseKinds \subseteq {"file", "pg"} /\ Releases \subseteq Nat
  /\ Frontends \subseteq {"idle", "absent"} /\ Daemons \cap {"nobody", "killed", "tool"} = {}

VARIABLES bootCfg,   \* daemon |-> [addr, store, release]: fixed by its config
          leaseKind, \* how stores are leased: a lock file or an advisory lock
          sockAt,    \* address |-> the file there: its inode and who bound it
          dm,        \* daemon |-> its process
          lock,      \* store |-> the process that holds the lease
          record,    \* store |-> the lease record beside it
          schemaAt,  \* store |-> schema version
          tool,      \* one command line tool: schema, init or migrate
          cl,        \* one frontend connecting
          left       \* what is left of the bounds; no mishaps with a frontend

bootVars == <<bootCfg, leaseKind, sockAt, dm, lock, record, schemaAt, tool, cl, left>>

NoFile == [ino |-> 0, by |-> "nobody"]
NoRecord == [who |-> "nobody", role |-> "", addr |-> "", run |-> 0]

\* What a daemon that was killed before left behind.
StaleFile == [ino |-> 1, by |-> "killed"]
StaleRecord == [who |-> "killed", role |-> "serve", addr |-> "A", run |-> 0]

\* A process that is not running.  run counts the starts of the slot and stands
\* for the instance identity.  pin is whose socket was at the address when the
\* identity was taken (history).
Stopped(n) == [at |-> "off", run |-> n, cur |-> 0, stat |-> 0, hold |-> 0, pin |-> "nobody", closed |-> FALSE,
               watch |-> "none", cand |-> 0, candStat |-> 0, engine |-> FALSE,
               cut |-> FALSE, lost |-> FALSE]

BootInit ==
  /\ bootCfg \in [Daemons -> [addr : Addrs, store : Metas, release : Releases]]
  /\ bootCfg[First].addr = "A" /\ bootCfg[First].store = "S"
  /\ \A r \in Releases : bootCfg[First].release <= r
  /\ \A d \in Daemons : bootCfg[d].addr = "A" \/ bootCfg[d].store = "S"
  /\ leaseKind \in LeaseKinds
  /\ \E crashed \in BOOLEAN :
       /\ sockAt = [a \in Addrs |-> IF a = "A" /\ crashed THEN StaleFile ELSE NoFile]
       /\ record = [s \in Metas |-> IF s = "S" /\ crashed /\ leaseKind = "file" THEN StaleRecord ELSE NoRecord]
  /\ dm = [d \in Daemons |-> Stopped(0)]
  /\ lock = [s \in Metas |-> "nobody"]
  /\ schemaAt = [s \in Metas |-> bootCfg[First].release]
  /\ tool = [at |-> "off", role |-> ""]
  /\ \E f \in Frontends :
       cl = [at |-> f, addr |-> "", other |-> FALSE, to |-> "nobody",
             run |-> 0, spawned |-> "nobody", gone |-> FALSE, tries |-> ClientTries]
  /\ cl.at = "idle" =>
       leaseKind = "file" /\ \A d \in Daemons : bootCfg[d].release = bootCfg[First].release
  /\ left = [launch |-> LaunchBudget, mishap |-> IF cl.at = "idle" THEN 0 ELSE Mishaps]

-----------------------------------------------------------------------------
(* Sockets. *)

AddrOf(d) == bootCfg[d].addr
StoreOf(d) == bootCfg[d].store
FileAt(d) == sockAt[AddrOf(d)].ino

\* Inodes with an open listener of d on them.
Listening(d) ==
  (IF dm[d].cur # 0 /\ ~dm[d].closed THEN {dm[d].cur} ELSE {}) \cup ({dm[d].cand} \ {0})

\* Numbers the kernel cannot hand out: at an address, under a listener, or held.
InodesInUse ==
  {sockAt[a].ino : a \in Addrs} \cup UNION {Listening(d) \cup {dm[d].hold, dm[d].candStat} : d \in Daemons}

FreshInode == CHOOSE i \in Inodes : i \notin InodesInUse /\ \A j \in Inodes \ InodesInUse : i <= j

CanBind(d) == FileAt(d) = 0 /\ Inodes \ InodesInUse # {}

\* net.Listen: the file appears and is the listener's.
BoundTo(d, to) ==
  /\ sockAt' = [sockAt EXCEPT ![AddrOf(d)] = [ino |-> FreshInode, by |-> d]]
  /\ dm' = [dm EXCEPT ![d] = to]

Goes(d, at) == dm' = [dm EXCEPT ![d].at = at]
Exits(d) == dm' = [dm EXCEPT ![d] = Stopped(dm[d].run)]

\* Who would accept a connection made to an address now.
AcceptorsAt(a) == {d \in Daemons : sockAt[a].ino # 0 /\ sockAt[a].ino \in Listening(d)}
\* Who would answer sys.hello there: before srv.Run nobody reads what is accepted.
AnswerersAt(a) == {d \in AcceptorsAt(a) : dm[d].at = "serve"}

world == <<bootCfg, leaseKind, tool, left>>

-----------------------------------------------------------------------------
(* runServe, in its order. *)

LaunchWith(d) == [Stopped(dm[d].run + 1) EXCEPT !.at = "listen"]

Launch(d) ==
  /\ dm[d].at = "off" /\ left.launch > 0
  /\ dm' = [dm EXCEPT ![d] = LaunchWith(d)]
  /\ left' = [left EXCEPT !.launch = @ - 1]
  /\ UNCHANGED <<bootCfg, leaseKind, sockAt, lock, record, schemaAt, tool, cl>>

\* The first Listen of listen, and the second after a stale file was removed.
ListenAt(d) ==
  /\ dm[d].at \in {"listen", "relisten"}
  /\ \/ CanBind(d) /\ BoundTo(d, [dm[d] EXCEPT !.at = "own", !.cur = FreshInode])
     \/ /\ FileAt(d) # 0
        /\ IF dm[d].at = "listen" THEN Goes(d, "inuse") ELSE Exits(d)
        /\ UNCHANGED sockAt
  /\ UNCHANGED <<world, lock, record, schemaAt, cl>>

\* A live occupant ends the start; a file nobody listens behind is stale.
DialOccupant(d) ==
  /\ dm[d].at = "inuse"
  /\ IF AcceptorsAt(AddrOf(d)) # {} THEN Exits(d) ELSE Goes(d, "stale")
  /\ UNCHANGED <<world, sockAt, lock, record, schemaAt, cl>>

RemoveStale(d) ==
  /\ dm[d].at = "stale"
  /\ IF FileAt(d) = 0 THEN Exits(d) ELSE Goes(d, "relisten")
  /\ sockAt' = [sockAt EXCEPT ![AddrOf(d)] = NoFile]
  /\ UNCHANGED <<world, lock, record, schemaAt, cl>>

\* ownSocket: the identity is that of whatever is at the address by now.  A
\* file that is gone fails the start, and Close still unlinks the address.
OwnSocket(d) ==
  /\ \/ /\ dm[d].at = "own" /\ FileAt(d) # 0
        /\ dm' = [dm EXCEPT ![d].at = "open", ![d].stat = FileAt(d), ![d].hold = FileAt(d),
                           ![d].pin = sockAt[AddrOf(d)].by, ![d].watch = "idle"]
        /\ UNCHANGED sockAt
     \/ dm[d].at = "own" /\ FileAt(d) = 0 /\ Goes(d, "disown") /\ UNCHANGED sockAt
     \/ dm[d].at = "disown" /\ sockAt' = [sockAt EXCEPT ![AddrOf(d)] = NoFile] /\ Exits(d)
  /\ UNCHANGED <<world, lock, record, schemaAt, cl>>

\* meta.Open brings the schema to the binary's own release, and refuses one
\* that is ahead of it.
Migrated(version, release) == IF version <= release THEN release ELSE version

OpenStore(d) ==
  /\ dm[d].at = "open"
  /\ schemaAt' = [schemaAt EXCEPT ![StoreOf(d)] = Migrated(@, bootCfg[d].release)]
  /\ Goes(d, IF schemaAt[StoreOf(d)] <= bootCfg[d].release THEN "lease" ELSE "cleanup")
  /\ UNCHANGED <<world, sockAt, lock, record, cl>>

\* A lock file keyed by the store file's own identity, or an advisory lock keyed by
\* the server's: one holder per store however it is spelled.
Vacant(s) == lock[s] = "nobody"

\* The lock is tried once.  Losing it removes the socket again and looks for the
\* holder to name it.
TakeLease(d) ==
  /\ dm[d].at = "lease"
  /\ IF Vacant(StoreOf(d))
       THEN /\ lock' = [lock EXCEPT ![StoreOf(d)] = d]
            /\ Goes(d, IF leaseKind = "file" THEN "record" ELSE "engine")
       ELSE Goes(d, "cleanup") /\ UNCHANGED lock
  /\ UNCHANGED <<world, sockAt, record, schemaAt, cl>>

WriteRecord(d) ==
  /\ dm[d].at = "record"
  /\ record' = [record EXCEPT ![StoreOf(d)] = [who |-> d, role |-> "serve", addr |-> "", run |-> dm[d].run]]
  /\ Goes(d, "engine")
  /\ UNCHANGED <<world, sockAt, lock, schemaAt, cl>>

\* startEngine and what follows it up to rpc.New may fail; the deferred calls then
\* run as at a stop.
StartEngine(d) ==
  /\ dm[d].at = "engine"
  /\ \/ dm' = [dm EXCEPT ![d].at = "announce", ![d].engine = TRUE]
     \/ Goes(d, "release")
  /\ UNCHANGED <<world, sockAt, lock, record, schemaAt, cl>>

Announce(d) ==
  /\ dm[d].at = "announce"
  /\ record' = IF leaseKind # "file" THEN record
               ELSE [record EXCEPT ![StoreOf(d)] = [who |-> d, role |-> "serve", addr |-> AddrOf(d), run |-> dm[d].run]]
  /\ Goes(d, "serve")
  /\ UNCHANGED <<world, sockAt, lock, schemaAt, cl>>

\* The lease given up under an engine that is closed with the process.
MutStopServing(d) ==
  /\ dm[d].at = "serve"
  /\ dm' = [dm EXCEPT ![d].at = "release", ![d].closed = TRUE]
  /\ UNCHANGED <<world, sockAt, lock, record, schemaAt, cl>>

\* srv.Run returns: a signal, a shutdown request, a failed front door, a lost
\* lease.  It has closed its listener.
StopServing(d) ==
  /\ dm[d].at = "serve"
  /\ dm' = [dm EXCEPT ![d].at = "engineClose", ![d].closed = TRUE]
  /\ UNCHANGED <<world, sockAt, lock, record, schemaAt, cl>>

CloseEngine(d) ==
  /\ dm[d].at = "engineClose"
  /\ dm' = [dm EXCEPT ![d].at = "release", ![d].engine = FALSE]
  /\ UNCHANGED <<world, sockAt, lock, record, schemaAt, cl>>

Freed(p, s) == IF lock[s] = p THEN [lock EXCEPT ![s] = "nobody"] ELSE lock

\* Release: stop the heartbeat, give an advisory lock up; for a lock file remove
\* the record first and unlock second.
ReleaseLease(d) ==
  /\ dm[d].at \in {"release", "unlock"}
  /\ IF dm[d].at = "release" /\ leaseKind = "file"
       THEN /\ record' = [record EXCEPT ![StoreOf(d)] = NoRecord]
            /\ Goes(d, "unlock") /\ UNCHANGED lock
       ELSE lock' = Freed(d, StoreOf(d)) /\ Goes(d, "cleanup") /\ UNCHANGED record
  /\ UNCHANGED <<world, sockAt, schemaAt, cl>>

\* Cleanup: close, stop the watcher and wait for it, then remove the file if it is
\* still the one bound.  Stat and Remove are two calls.
CleanupClose(d) ==
  /\ dm[d].at = "cleanup"
  /\ dm' = [dm EXCEPT ![d].at = "join", ![d].closed = TRUE]
  /\ UNCHANGED <<world, sockAt, lock, record, schemaAt, cl>>

JoinWatcher(d) ==
  /\ dm[d].at = "join" /\ dm[d].watch \in {"idle", "done"}
  /\ dm' = [dm EXCEPT ![d].at = "compare", ![d].watch = "done"]
  /\ UNCHANGED <<world, sockAt, lock, record, schemaAt, cl>>

CompareSocket(d) ==
  /\ dm[d].at = "compare"
  /\ IF FileAt(d) = dm[d].stat THEN Goes(d, "remove") ELSE Exits(d)
  /\ UNCHANGED <<world, sockAt, lock, record, schemaAt, cl>>

RemoveSocket(d) ==
  /\ dm[d].at = "remove"
  /\ sockAt' = [sockAt EXCEPT ![AddrOf(d)] = NoFile]
  /\ Exits(d)
  /\ UNCHANGED <<world, lock, record, schemaAt, cl>>

-----------------------------------------------------------------------------
(* The socket's watcher, which runs from the bind to the join. *)

\* Every five seconds; an address that is occupied, by whomever, is left alone.
WatchTick(d) ==
  /\ dm[d].watch = "idle" /\ FileAt(d) = 0
  /\ dm' = [dm EXCEPT ![d].watch = "bind"]
  /\ UNCHANGED <<world, sockAt, lock, record, schemaAt, cl>>

WatchBind(d) ==
  /\ dm[d].watch = "bind"
  /\ \/ CanBind(d) /\ BoundTo(d, [dm[d] EXCEPT !.watch = "pin", !.cand = FreshInode])
     \/ FileAt(d) # 0 /\ dm' = [dm EXCEPT ![d].watch = "idle"] /\ UNCHANGED sockAt
  /\ UNCHANGED <<world, lock, record, schemaAt, cl>>

\* ownSocket again, for the candidate.
WatchPin(d) ==
  /\ dm[d].watch = "pin"
  /\ dm' = IF FileAt(d) = 0 THEN [dm EXCEPT ![d].watch = "idle", ![d].cand = 0]
                            ELSE [dm EXCEPT ![d].watch = "swap", ![d].candStat = FileAt(d), ![d].pin = sockAt[AddrOf(d)].by]
  /\ UNCHANGED <<world, sockAt, lock, record, schemaAt, cl>>

\* A socket closed meanwhile gives the candidate back; otherwise it takes over.
WatchSwap(d) ==
  /\ dm[d].watch = "swap"
  /\ LET next == [dm[d] EXCEPT !.cand = 0, !.candStat = 0]
     IN IF dm[d].closed
          THEN /\ dm' = [dm EXCEPT ![d] = [next EXCEPT !.watch = "done"]]
               /\ sockAt' = IF FileAt(d) = dm[d].candStat THEN [sockAt EXCEPT ![AddrOf(d)] = NoFile] ELSE sockAt
          ELSE /\ dm' = [dm EXCEPT ![d] = [next EXCEPT !.watch = "idle", !.cur = dm[d].cand,
                                             !.stat = dm[d].candStat, !.hold = dm[d].candStat]]
               /\ UNCHANGED sockAt
  /\ UNCHANGED <<world, lock, record, schemaAt, cl>>

-----------------------------------------------------------------------------
(* The lease's connection, crashes, and a sweep of the socket's directory. *)

\* The server ends the session that holds the advisory lock; the holder has not
\* noticed.
CutLease(d) ==
  /\ left.mishap > 0 /\ leaseKind = "pg" /\ lock[StoreOf(d)] = d
  /\ lock' = Freed(d, StoreOf(d))
  /\ dm' = [dm EXCEPT ![d].cut = TRUE]
  /\ left' = [left EXCEPT !.mishap = @ - 1]
  /\ UNCHANGED <<bootCfg, leaseKind, sockAt, record, schemaAt, tool, cl>>

\* A beat that only ends itself.
MutHeartbeat(d) ==
  /\ dm[d].cut /\ ~dm[d].lost /\ dm[d].at \in {"engine", "announce", "serve"}
  /\ UNCHANGED bootVars

Heartbeat(d) ==
  /\ dm[d].cut /\ ~dm[d].lost /\ dm[d].at \in {"engine", "announce", "serve"}
  /\ dm' = [dm EXCEPT ![d].lost = TRUE]
  /\ UNCHANGED <<world, sockAt, lock, record, schemaAt, cl>>

\* watchLease: a lost lease stops the daemon.
StopOnLoss(d) == dm[d].lost /\ StopServing(d)

KillDaemon(d) ==
  /\ dm[d].at # "off" /\ left.mishap > 0
  /\ Exits(d)
  /\ lock' = Freed(d, StoreOf(d))
  /\ left' = [left EXCEPT !.mishap = @ - 1]
  /\ UNCHANGED <<bootCfg, leaseKind, sockAt, record, schemaAt, tool, cl>>

SweepSocket(a) ==
  /\ sockAt[a] # NoFile /\ left.mishap > 0
  /\ sockAt' = [sockAt EXCEPT ![a] = NoFile]
  /\ left' = [left EXCEPT !.mishap = @ - 1]
  /\ UNCHANGED <<bootCfg, leaseKind, dm, lock, record, schemaAt, tool, cl>>

-----------------------------------------------------------------------------
(* The tools that take the same lease on store S: --init opens the store as a *)
(* daemon does, the schema and migration commands without migrating it.       *)

Newest == CHOOSE r \in Releases : \A q \in Releases : q <= r

toolLeaves == <<bootCfg, leaseKind, sockAt, dm, cl>>

\* BoundTo: a tool runs only where no frontend connects.
ToolStart(role) ==
  /\ cl.at = "absent" /\ tool.at = "off" /\ left.launch > 0
  /\ tool' = [at |-> IF role = "init" THEN "open" ELSE "lease", role |-> role]
  /\ left' = [left EXCEPT !.launch = @ - 1]
  /\ UNCHANGED <<toolLeaves, lock, record, schemaAt>>

ToolOpen ==
  /\ tool.at = "open"
  /\ schemaAt' = [schemaAt EXCEPT !["S"] = Migrated(@, Newest)]
  /\ tool' = [tool EXCEPT !.at = "lease"]
  /\ UNCHANGED <<toolLeaves, lock, record, left>>

ToolLease ==
  /\ tool.at = "lease"
  /\ IF Vacant("S")
       THEN /\ lock' = [lock EXCEPT !["S"] = "tool"]
            /\ tool' = [tool EXCEPT !.at = IF leaseKind = "file" THEN "record" ELSE "work"]
       ELSE tool' = [at |-> "off", role |-> ""] /\ UNCHANGED lock
  /\ UNCHANGED <<toolLeaves, record, schemaAt, left>>

ToolRecord ==
  /\ tool.at = "record"
  /\ record' = [record EXCEPT !["S"] = [who |-> "tool", role |-> tool.role, addr |-> "", run |-> 0]]
  /\ tool' = [tool EXCEPT !.at = "work"]
  /\ UNCHANGED <<toolLeaves, lock, schemaAt, left>>

\* Applying scripts and migrating bring the schema forward; reverting the latest
\* script takes it back; a dry run and --init's ceremony leave it.
ToolWork ==
  /\ tool.at = "work"
  /\ \E v \in Releases \cup {schemaAt["S"]} :
       /\ tool.role = "init" => v = schemaAt["S"]
       /\ tool.role = "migrate" => v >= schemaAt["S"]
       /\ schemaAt' = [schemaAt EXCEPT !["S"] = v]
  /\ tool' = [tool EXCEPT !.at = "release"]
  /\ UNCHANGED <<toolLeaves, lock, record, left>>

ToolRelease ==
  /\ tool.at \in {"release", "unlock"}
  /\ IF tool.at = "release" /\ leaseKind = "file"
       THEN /\ record' = [record EXCEPT !["S"] = NoRecord]
            /\ tool' = [tool EXCEPT !.at = "unlock"] /\ UNCHANGED lock
       ELSE lock' = Freed("tool", "S") /\ tool' = [at |-> "off", role |-> ""] /\ UNCHANGED record
  /\ UNCHANGED <<toolLeaves, schemaAt, left>>

-----------------------------------------------------------------------------
(* A frontend of store S, configured for address A.  Only a store with a lock *)
(* file has an identity to look for.                                          *)

clientLeaves == <<bootCfg, leaseKind, sockAt, lock, record, schemaAt, tool>>

ClientAsks ==
  /\ cl.at = "idle"
  /\ cl' = [cl EXCEPT !.at = "locate"]
  /\ UNCHANGED <<clientLeaves, dm, left>>

\* The configured address is probed, and the store that answers is compared.
LocateConfigured ==
  /\ cl.at = "locate"
  /\ cl' = IF \E d \in AnswerersAt("A") : StoreOf(d) = "S"
           THEN [cl EXCEPT !.at = "dial", !.addr = "A"]
           ELSE [cl EXCEPT !.at = "readRecord", !.other = AnswerersAt("A") # {}]
  /\ UNCHANGED <<clientLeaves, dm, left>>

\* ReadLeaseHolder: only a serving holder's recorded address, still a socket.
LocateRecord ==
  /\ cl.at = "readRecord"
  /\ LET r == record["S"]
     IN cl' = IF r.role = "serve" /\ r.addr # "" /\ sockAt[r.addr] # NoFile
                THEN [cl EXCEPT !.at = "probeRecord", !.addr = r.addr, !.to = r.who, !.run = r.run]
                ELSE [cl EXCEPT !.at = IF cl.other THEN "failed" ELSE "missed"]
  /\ UNCHANGED <<clientLeaves, dm, left>>

\* The daemon there must serve the store and be the instance the record names.
LocateHolder ==
  /\ cl.at = "probeRecord"
  /\ cl' = IF \E d \in AnswerersAt(cl.addr) : StoreOf(d) = "S" /\ d = cl.to /\ dm[d].run = cl.run
             THEN [cl EXCEPT !.at = "dial"]
             ELSE [cl EXCEPT !.at = IF cl.other THEN "failed" ELSE "missed"]
  /\ UNCHANGED <<clientLeaves, dm, left>>

\* The spawned process has exited, whatever it reported.
SpawnGone == cl.spawned # "nobody" /\ dm[cl.spawned].at = "off"

\* A frontend spawns at most one `autodb --serve` of its own config.
SpawnsServe ==
  /\ cl.spawned = "nobody" /\ left.launch > 0
  /\ \E d \in Daemons :
       /\ dm[d].at = "off" /\ bootCfg[d].addr = "A" /\ bootCfg[d].store = "S"
       /\ dm' = [dm EXCEPT ![d] = LaunchWith(d)]
       /\ cl' = [cl EXCEPT !.at = "locate", !.spawned = d, !.tries = @ - 1]
  /\ left' = [left EXCEPT !.launch = @ - 1]

\* Nobody found: spawn, then look again until the window closes; once the spawned
\* process has gone, look one last time.
ClientMissed ==
  /\ cl.at = "missed"
  /\ IF cl.gone \/ cl.tries = 0
       THEN cl' = [cl EXCEPT !.at = "failed"] /\ UNCHANGED <<dm, left>>
       ELSE \/ SpawnsServe
            \/ /\ cl.spawned # "nobody" \/ left.launch = 0
               /\ cl' = [cl EXCEPT !.at = "locate", !.tries = @ - 1] /\ UNCHANGED <<dm, left>>
            \/ SpawnGone /\ cl' = [cl EXCEPT !.at = "locate", !.gone = TRUE] /\ UNCHANGED <<dm, left>>
  /\ UNCHANGED clientLeaves

ClientDials ==
  /\ cl.at = "dial"
  /\ IF AcceptorsAt(cl.addr) = {} THEN cl' = [cl EXCEPT !.at = "missed"]
     ELSE \E d \in AcceptorsAt(cl.addr) : cl' = [cl EXCEPT !.at = "hello", !.to = d, !.run = dm[d].run]
  /\ UNCHANGED <<clientLeaves, dm, left>>

\* The handshake waits for a daemon that is still starting, and fails with one
\* that closes.  What answers must be the store that was located.
ClientHello ==
  /\ cl.at = "hello"
  /\ LET d == dm[cl.to]
     IN \/ /\ d.run = cl.run /\ d.at = "serve"
           /\ cl' = [cl EXCEPT !.at = IF StoreOf(cl.to) # "S" THEN "failed" ELSE "connected"]
        \/ (d.run # cl.run \/ d.closed \/ d.at = "off") /\ cl' = [cl EXCEPT !.at = "failed"]
  /\ UNCHANGED <<clientLeaves, dm, left>>

ClientStep == \/ LocateConfigured \/ LocateRecord \/ LocateHolder
              \/ ClientMissed \/ ClientDials \/ ClientHello

-----------------------------------------------------------------------------
Starting(d) == \/ ListenAt(d) \/ DialOccupant(d) \/ RemoveStale(d) \/ OwnSocket(d)
               \/ OpenStore(d) \/ TakeLease(d) \/ WriteRecord(d) \/ StartEngine(d) \/ Announce(d)

Stopping(d) == \/ CloseEngine(d) \/ ReleaseLease(d) \/ CleanupClose(d) \/ JoinWatcher(d)
               \/ CompareSocket(d) \/ RemoveSocket(d)

Watching(d) == WatchTick(d) \/ WatchBind(d) \/ WatchPin(d) \/ WatchSwap(d)

ToolSteps == ToolOpen \/ ToolLease \/ ToolRecord \/ ToolWork \/ ToolRelease

BootNext ==
  \/ \E d \in Daemons : \/ Launch(d) \/ Starting(d) \/ StopServing(d) \/ Stopping(d) \/ Watching(d)
                        \/ CutLease(d) \/ Heartbeat(d) \/ KillDaemon(d)
  \/ \E a \in Addrs : SweepSocket(a)
  \/ \E role \in Tools : ToolStart(role)
  \/ ToolSteps
  \/ ClientAsks \/ ClientStep

\* Every thread of a running process is scheduled; nobody is made to start or
\* stop one.
BootFairness ==
  /\ \A d \in Daemons : /\ WF_bootVars(Starting(d)) /\ WF_bootVars(Stopping(d))
                        /\ WF_bootVars(Watching(d)) /\ WF_bootVars(Heartbeat(d))
                        /\ WF_bootVars(StopOnLoss(d))
  /\ WF_bootVars(ToolSteps) /\ WF_bootVars(ClientStep)

BootSpec == BootInit /\ [][BootNext]_bootVars

BootFairSpec == BootSpec /\ BootFairness

-----------------------------------------------------------------------------
(* Properties. *)

\* Two processes have an engine open on one store only if one of them lost the
\* connection that carried its lease (AcquireLease before startEngine, eng.Close
\* before Release in runServe's deferred calls).
OneServes ==
  \A d, e \in Daemons :
    (d # e /\ dm[d].engine /\ dm[e].engine /\ StoreOf(d) = StoreOf(e)) => dm[d].cut \/ dm[e].cut

\* From the moment it is written until its holder takes it away, the record beside
\* a store names the process that holds the store, whoever came and went before
\* (acquireFileLease, Announce and the order inside Release).
RecordIsHolders ==
  leaseKind = "file" =>
    /\ \A d \in Daemons : dm[d].at \in {"engine", "announce", "serve", "engineClose"} =>
         record[StoreOf(d)].who = d /\ record[StoreOf(d)].run = dm[d].run
    /\ tool.at = "work" => record["S"].who = "tool"

\* A frontend that located its store by identity ends up connected to a daemon of
\* that store, although the address may change hands between the probe, the dial
\* and the handshake (Session.connect).
ClientTalksToItsStore ==
  cl.at = "connected" => StoreOf(cl.to) = "S"

\* What processes that come and go keep of a store: one serves it, its record says who,
\* and a frontend that looked for it talks to it.
StoreHasOneDaemon == OneServes /\ RecordIsHolders /\ ClientTalksToItsStore

\* What a shutdown takes for its own socket is one it bound or pinned itself, even
\* though the file may have been swept and its number given to a successor's socket
\* (socketIdentity, withInodeHeld).  The pin at start may be of another start's
\* socket: that is the race of two starts over one stale file.
ShutdownKnowsItsSocket ==
  \A d \in Daemons : (dm[d].at = "compare" /\ dm'[d].at = "remove") =>
     sockAt[AddrOf(d)].by = dm[d].pin

\* A serving daemon whose socket was swept does not stay unreachable: it listens at
\* its address again, stops, or somebody else's file is there (unixSocket.watch).
SweptSocketHeals ==
  \A d \in Daemons :
    (dm[d].at = "serve" /\ FileAt(d) = 0) ~>
       (FileAt(d) \in Listening(d) \/ dm[d].at # "serve" \/ (FileAt(d) # 0 /\ sockAt[AddrOf(d)].by # d))

\* A daemon that lost its lease stops serving (heartbeat, watchLease).
LostLeaseStops == \A d \in Daemons : (dm[d].cut /\ dm[d].at = "serve") ~> dm[d].at # "serve"

=============================================================================
