---------------------------- MODULE FileMonitor ----------------------------
(***************************************************************************)
(* The shared file monitor (basecatalog/monitor.go) and the goroutines     *)
(* that watch files through it the way the YAML provider does: Path()      *)
(* first, then a read, then a read for every event.                        *)
(*                                                                         *)
(* All files lie in one directory.  A subscription is one call of Path();  *)
(* its channel has one slot.  fsnotify and the files are the environment.  *)
(* Contents are numbered; a hash is identified with the contents it was    *)
(* computed from.                                                          *)
(***************************************************************************)
EXTENDS Integers

CONSTANTS File,       \* the files of the directory
          Sub,        \* the subscriptions
          FileOf,     \* the file a subscription is for
          MaxChanges  \* bound on changes of files

ASSUME FileOfAssumption == FileOf \in [Sub -> File]
ASSUME ChangesAssumption == MaxChanges \in Nat

NoFile == 0 \* there is no such file; also the hash of a new record

VARIABLES
    content,  \* the files
    events,   \* Create and Write events fsnotify has not delivered yet
    changes,  \* changes of files so far, which number the contents
    watched,  \* the directory is added to the watcher
    at,       \* the monitor goroutine
    toScan,   \* records the current scan has still to visit
    records,  \* the files that have a record
    hash,     \* record.hash
    channels, \* record.channels, as sets of subscriptions
    chan,     \* a subscription's channel
    token,    \* the event in its slot
    ctxDone,  \* its context is cancelled
    client,   \* the goroutine that subscribed
    seen,     \* what it read last
    closing,  \* Close(): "no", "watcher" closed, or "all"
    panicked, \* history: a send on, or close of, a closed channel
    muddled   \* history: files whose contents came back, or that two live
              \* subscriptions shared

fs   == <<content, events, changes>>
mon  == <<watched, at, toScan, records, hash, channels>>
subs == <<chan, token, ctxDone>>
hist == <<panicked, muddled>>
vars == <<fs, mon, subs, client, seen, closing, hist>>

MonitorPCs == {"select", "pause", "scan", "ended"}
ClientPCs == {"start", "read", "wait", "once", "done"}

Init ==
    /\ content \in [File -> {NoFile, 1}]
    /\ events = 0
    /\ changes = 0
    /\ watched = FALSE
    /\ at = "select"
    /\ toScan = {}
    /\ records = {}
    /\ hash = [f \in File |-> NoFile]
    /\ channels = [f \in File |-> {}]
    /\ chan = [s \in Sub |-> "none"]
    /\ token = [s \in Sub |-> FALSE]
    /\ ctxDone = [s \in Sub |-> FALSE]
    /\ client = [s \in Sub |-> "start"]
    /\ seen = [s \in Sub |-> NoFile]
    /\ closing = "no"
    /\ panicked = FALSE
    /\ muddled = {}

-----------------------------------------------------------------------------
(* The environment: new contents, contents the file may have had before,   *)
(* or a removal, whose event the monitor ignores.                          *)
Change(f, c) ==
    /\ changes < MaxChanges
    /\ changes' = changes + 1
    /\ content[f] # c
    /\ content' = [content EXCEPT ![f] = c]
    /\ UNCHANGED <<mon, subs, client, seen, closing, panicked>>

WriteEvent == events' = IF watched /\ closing = "no" THEN events + 1 ELSE events

WriteFile(f) == Change(f, changes + 2) /\ WriteEvent /\ UNCHANGED muddled

RevertFile(f) == /\ \E c \in 1..(changes + 1) : Change(f, c)
                 /\ WriteEvent
                 /\ muddled' = muddled \cup {f}

RemoveFile(f) == Change(f, NoFile) /\ UNCHANGED <<events, muddled>>

Cancel(s) ==
    /\ ~ctxDone[s]
    /\ ctxDone' = [ctxDone EXCEPT ![s] = TRUE]
    /\ UNCHANGED <<fs, mon, chan, token, client, seen, closing, hist>>

-----------------------------------------------------------------------------
(* updateHash(): an unreadable file leaves the hash as it is. *)
NewHash(f) == IF content[f] = NoFile THEN hash[f] ELSE content[f]

Live(s) == chan[s] = "open" /\ ~ctxDone[s]

(* Path(): the record, the channel and the hash, under recordsMu. *)
Path(s) ==
    /\ client[s] = "start"
    /\ at # "scan"
    /\ closing = "no"
    /\ watched' = TRUE
    /\ records' = records \cup {FileOf[s]}
    /\ channels' = [channels EXCEPT ![FileOf[s]] = @ \cup {s}]
    /\ hash' = [hash EXCEPT ![FileOf[s]] = NewHash(FileOf[s])]
    /\ chan' = [chan EXCEPT ![s] = "open"]
    /\ client' = [client EXCEPT ![s] = "read"]
    /\ muddled' = IF \E r \in channels[FileOf[s]] : Live(r)
                  THEN muddled \cup {FileOf[s]} ELSE muddled
    /\ UNCHANGED <<fs, at, toScan, token, ctxDone, seen, closing, panicked>>

(* The watcher is closed: Path() fails, and the client reads only once.    *)
PathFails(s) ==
    /\ client[s] = "start"
    /\ closing # "no"
    /\ client' = [client EXCEPT ![s] = "once"]
    /\ UNCHANGED <<fs, mon, subs, seen, closing, hist>>

CloseChannels(S) ==
    /\ chan' = [s \in Sub |-> IF s \in S THEN "closed" ELSE chan[s]]
    /\ panicked' = (panicked \/ \E s \in S : chan[s] = "closed")

(* Mutant: the goroutine does not look whether the monitor was closed. *)
UnsubscribeUnchecked(s) ==
    /\ ctxDone[s]
    /\ s \in channels[FileOf[s]] \/ (closing = "all" /\ chan[s] # "none")
    /\ at # "scan"
    /\ channels' = [channels EXCEPT ![FileOf[s]] = @ \ {s}]
    /\ CloseChannels({s})
    /\ UNCHANGED <<fs, watched, at, toScan, records, hash, token, ctxDone,
                   client, seen, closing, muddled>>

(* Mutant: what slices.Delete returns is not stored, and the list keeps    *)
(* the nil that Delete leaves at its end.                                  *)
UnsubscribeLeavesNil(s) ==
    /\ ctxDone[s]
    /\ s \in channels[FileOf[s]]
    /\ at # "scan"
    /\ closing # "all"
    /\ channels' = [channels EXCEPT ![FileOf[s]] = (@ \ {s}) \cup {"nil"}]
    /\ CloseChannels({s})
    /\ UNCHANGED <<fs, watched, at, toScan, records, hash, token, ctxDone,
                   client, seen, closing, muddled>>

(* Mutant: the channel is only taken off the list. *)
UnsubscribeNoClose(s) ==
    /\ ctxDone[s]
    /\ s \in channels[FileOf[s]]
    /\ at # "scan"
    /\ closing # "all"
    /\ channels' = [channels EXCEPT ![FileOf[s]] = @ \ {s}]
    /\ UNCHANGED <<fs, watched, at, toScan, records, hash, subs, client, seen,
                   closing, hist>>

(* The goroutine of Path(): once the context is done it removes and closes *)
(* the channel, unless Close() has done so.                                *)
Unsubscribe(s) ==
    /\ ctxDone[s]
    /\ s \in channels[FileOf[s]]
    /\ at # "scan"
    /\ closing # "all"
    /\ channels' = [channels EXCEPT ![FileOf[s]] = @ \ {s}]
    /\ CloseChannels({s})
    /\ UNCHANGED <<fs, watched, at, toScan, records, hash, token, ctxDone,
                   client, seen, closing, muddled>>

-----------------------------------------------------------------------------
(* monitor(): take an event, pause, then visit every record of the         *)
(* directory, holding recordsMu for reading.                               *)
TakeEvent ==
    /\ at = "select"
    /\ closing = "no"
    /\ events > 0
    /\ events' = events - 1
    /\ at' = "pause"
    /\ UNCHANGED <<content, changes, watched, toScan, records, hash, channels,
                   subs, client, seen, closing, hist>>

(* Mutant: files whose subscribers still have an event are left out. *)
PauseOverSkipsFull ==
    /\ at = "pause"
    /\ at' = "scan"
    /\ toScan' = {f \in records : \E s \in channels[f] : ~token[s]}
    /\ UNCHANGED <<fs, watched, records, hash, channels, subs, client, seen,
                   closing, hist>>

PauseOver ==
    /\ at = "pause"
    /\ at' = "scan"
    /\ toScan' = records
    /\ UNCHANGED <<fs, watched, records, hash, channels, subs, client, seen,
                   closing, hist>>

(* A changed file: an event for every channel whose slot is free. *)
Notify(S) ==
    /\ token' = [s \in Sub |-> token[s] \/ s \in S]
    /\ panicked' = (panicked \/ \E s \in S : chan[s] = "closed")

(* Mutant: only one of the channels gets the event. *)
ScanFileFirstOnly(f) ==
    /\ at = "scan"
    /\ f \in toScan
    /\ toScan' = toScan \ {f}
    /\ hash' = [hash EXCEPT ![f] = NewHash(f)]
    /\ Notify(IF NewHash(f) # hash[f] /\ channels[f] # {}
              THEN {CHOOSE s \in channels[f] : TRUE} ELSE {})
    /\ UNCHANGED <<fs, watched, at, records, channels, chan, ctxDone, client,
                   seen, closing, muddled>>

ScanFile(f) ==
    /\ at = "scan"
    /\ f \in toScan
    /\ toScan' = toScan \ {f}
    /\ hash' = [hash EXCEPT ![f] = NewHash(f)]
    /\ Notify(IF NewHash(f) # hash[f] THEN channels[f] ELSE {})
    /\ UNCHANGED <<fs, watched, at, records, channels, chan, ctxDone, client,
                   seen, closing, muddled>>

ScanDone ==
    /\ at = "scan"
    /\ toScan = {}
    /\ at' = "select"
    /\ UNCHANGED <<fs, watched, toScan, records, hash, channels, subs, client,
                   seen, closing, hist>>

(* Close(): the watcher first, the goroutine ends, then all channels. *)
CloseWatcher ==
    /\ closing = "no"
    /\ closing' = "watcher"
    /\ UNCHANGED <<fs, mon, subs, client, seen, hist>>

MonitorEnds ==
    /\ at = "select"
    /\ closing = "watcher"
    /\ at' = "ended"
    /\ UNCHANGED <<fs, watched, toScan, records, hash, channels, subs, client,
                   seen, closing, hist>>

CloseRecords ==
    /\ at = "ended"
    /\ closing = "watcher"
    /\ closing' = "all"
    /\ CloseChannels(UNION {channels[f] : f \in records})
    /\ records' = {}
    /\ channels' = [f \in File |-> {}]
    /\ UNCHANGED <<fs, watched, at, toScan, hash, token, ctxDone, client, seen,
                   muddled>>

-----------------------------------------------------------------------------
(* The client, as yamlModelProvider.Models(): an event leads to a read;    *)
(* a cancelled context or a closed channel ends it.                        *)
Read(s) ==
    /\ client[s] \in {"read", "once"}
    /\ seen' = [seen EXCEPT ![s] = content[FileOf[s]]]
    /\ client' = [client EXCEPT ![s] = IF @ = "once" THEN "done" ELSE "wait"]
    /\ UNCHANGED <<fs, mon, subs, closing, hist>>

(* Mutant: the loop around the select is missing. *)
ReceiveOnce(s) ==
    /\ client[s] = "wait"
    /\ token[s]
    /\ token' = [token EXCEPT ![s] = FALSE]
    /\ client' = [client EXCEPT ![s] = "once"]
    /\ UNCHANGED <<fs, mon, chan, ctxDone, seen, closing, hist>>

Receive(s) ==
    /\ client[s] = "wait"
    /\ token[s]
    /\ token' = [token EXCEPT ![s] = FALSE]
    /\ client' = [client EXCEPT ![s] = "read"]
    /\ UNCHANGED <<fs, mon, chan, ctxDone, seen, closing, hist>>

ClientStops(s) ==
    /\ client[s] = "wait"
    /\ ctxDone[s] \/ (chan[s] = "closed" /\ ~token[s])
    /\ client' = [client EXCEPT ![s] = "done"]
    /\ UNCHANGED <<fs, mon, subs, seen, closing, hist>>

-----------------------------------------------------------------------------
Monitor == \/ TakeEvent \/ PauseOver \/ ScanDone \/ MonitorEnds
           \/ \E f \in File : ScanFile(f)

Client(s) == Path(s) \/ PathFails(s) \/ Read(s) \/ Receive(s) \/ ClientStops(s)

Next ==
    \/ \E f \in File : WriteFile(f) \/ RevertFile(f) \/ RemoveFile(f)
    \/ Monitor
    \/ CloseWatcher \/ CloseRecords
    \/ \E s \in Sub : Client(s) \/ Cancel(s) \/ Unsubscribe(s)

Spec == Init /\ [][Next]_vars

(* Fairness: the monitor, the clients, the goroutines of Path() and a      *)
(* Close() that has begun go on.                                           *)
FairSpec ==
    /\ Spec
    /\ WF_vars(Monitor)
    /\ WF_vars(CloseRecords)
    /\ \A s \in Sub : WF_vars(Client(s)) /\ WF_vars(Unsubscribe(s))

-----------------------------------------------------------------------------
TypeOK ==
    /\ content \in [File -> Nat]
    /\ events \in Nat
    /\ changes \in Nat
    /\ watched \in BOOLEAN
    /\ at \in MonitorPCs
    /\ toScan \subseteq File
    /\ records \subseteq File
    /\ hash \in [File -> Nat]
    /\ channels \in [File -> SUBSET Sub]
    /\ chan \in [Sub -> {"none", "open", "closed"}]
    /\ token \in [Sub -> BOOLEAN]
    /\ ctxDone \in [Sub -> BOOLEAN]
    /\ client \in [Sub -> ClientPCs]
    /\ seen \in [Sub -> Nat]
    /\ closing \in {"no", "watcher", "all"}
    /\ panicked \in BOOLEAN
    /\ muddled \subseteq File

(* Scans, the cleanup goroutines of Path() and Close() share the channels  *)
(* without a send on, or a second close of, a closed channel, which would  *)
(* crash the process.                                                      *)
NoPanic == ~panicked

(* monitor() will still look at f: an event is waiting, or the scan has    *)
(* yet to come to f.                                                       *)
WillScan(f) == events > 0 \/ at = "pause" \/ (at = "scan" /\ f \in toScan)

(* A hash that is out of date will be recomputed, whoever registers,       *)
(* leaves, changes or reverts files in the meantime.                       *)
HashTracks ==
    \A f \in records : closing = "no" /\ content[f] \notin {NoFile, hash[f]}
                           => WillScan(f)

(* No change is lost, as long as the contents of the file have not come    *)
(* back and live subscriptions have not shared it: a subscriber that has   *)
(* not read the current contents is about to read, has an event in its     *)
(* slot, or will get one, although events are coalesced and full slots     *)
(* skipped.                                                                *)
NoLostChange ==
    \A s \in Sub :
        /\ closing = "no" /\ Live(s) /\ FileOf[s] \notin muddled
        /\ content[FileOf[s]] # NoFile
        /\ seen[s] # content[FileOf[s]]
        => \/ client[s] = "read"
           \/ token[s]
           \/ /\ WillScan(FileOf[s])
              /\ hash[FileOf[s]] # content[FileOf[s]]

(* A channel is closed for a reason and only then: a subscription whose    *)
(* context lives is not cut off before Close() is done, whoever else       *)
(* unsubscribes from the same file; after Close() no channel is open.      *)
ClosedWithCause ==
    \A s \in Sub :
        /\ chan[s] = "closed" => ctxDone[s] \/ closing = "all"
        /\ closing = "all" => chan[s] # "open"

(* The strengthening that makes the invariants above inductive: the        *)
(* channels listed are the open ones, under the file they are for; a       *)
(* client with a live channel reads or waits; contents not yet written     *)
(* have been neither hashed nor read.                                      *)
Listing ==
    /\ \A f \in File : \A s \in channels[f] : /\ FileOf[s] = f
                                             /\ f \in records
                                             /\ chan[s] = "open"
    /\ \A s \in Sub :
        /\ chan[s] = "open" => s \in channels[FileOf[s]]
        /\ client[s] = "start" => chan[s] = "none"
        /\ Live(s) => client[s] \in {"read", "wait"}
    /\ closing = "all" => records = {}
    /\ at = "ended" => closing # "no"
    /\ records # {} => watched

Versions ==
    /\ \A f \in File : content[f] < changes + 2 /\ hash[f] < changes + 2
    /\ \A s \in Sub : seen[s] < changes + 2

IInv == TypeOK /\ Listing /\ Versions /\ HashTracks /\ NoPanic

(* Every subscriber that stays catches up with its file, under the same    *)
(* condition.                                                              *)
CatchesUp ==
    \A s \in Sub :
        <>[](/\ closing = "no" /\ Live(s)
             /\ FileOf[s] \notin muddled
             /\ content[FileOf[s]] # NoFile
             => seen[s] = content[FileOf[s]])

(* The channel of a subscription is closed when its context is cancelled   *)
(* or the monitor is closed.                                               *)
ChannelsClose ==
    \A s \in Sub : (chan[s] = "open" /\ (ctxDone[s] \/ closing # "no"))
                       ~> chan[s] = "closed"
=============================================================================
