--------------------------- MODULE AdvisoryRefresh ---------------------------
(***************************************************************************)
(* `dsecrat vuln update --nvd` (modules/vuln/command.go, vulndb/nvd.go):   *)
(* updaters page through the NVD API for the CVEs modified in a window,    *)
(* build a database from exactly those, write it to out.tmp and rename it  *)
(* to out.  The Daemon refreshes on a ticker, over a rolling window of one *)
(* interval plus slack; the others are one-shot runs, as a crontab entry   *)
(* starts them.  NVD lists a modified CVE after an indexing lag.           *)
(***************************************************************************)
EXTENDS Naturals, FiniteSets, FiniteSetsExt

CONSTANTS
    CVEs,         \* the CVE ids, numbers in the order NVD lists them
    Daemon,       \* the --daemon process
    OneShots,     \* one-shot update processes
    Interval, Slack,  \* --interval, and the 2 h added to it
    FirstWindow,  \* --since, 0 for a full pull
    PageSize, MaxPages,  \* CVEs per page; --max-pages, 0 for all
    MaxWindow,    \* the longest window NVD answers, 120 days
    Lag,          \* assumed: NVD indexes a change within Lag
    MaxFetch,     \* assumed: a refresh without a fault takes at most MaxFetch
    Horizon, MaxFaults,  \* bounds: clock; failures, crashes and suspensions
    SharedCVEs, SharedHorizon  \* bounds: CVEs and clock when one-shots run beside the daemon

VARIABLES
    crontab,      \* the one-shots that run
    now,          \* the clock
    modified,     \* CVE -> time of its last change, 0 if unpublished
    indexed,      \* CVE -> the change the NVD API shows
    due, waiting, \* the ticker: time of the next tick, a tick in its channel
    stopping,     \* SIGTERM arrived
    pc, since, start, docs, began,  \* updater: step, window, next index, fetched, start time
    disk,         \* the files "tmp" and "out"
    fd,           \* updater -> the name of the file its descriptor writes, or "none"
    owed,         \* updater -> what the API showed in its window when it began
    collected,    \* CVE -> newest change any database held
    refreshed,    \* the daemon's last refresh wrote a database
    faults        \* faults so far

nvd == <<modified, indexed>>
ticker == <<due, waiting>>
job == <<since, start, docs, began, owed>>
vars == <<crontab, now, nvd, ticker, stopping, pc, job, disk, fd, collected, refreshed, faults>>

Start == 1
Updaters == {Daemon} \cup OneShots
Nothing == [c \in CVEs |-> 0]
newer(a, b) == [c \in CVEs |-> Max({a[c], b[c]})]
minus(a, b) == IF a > b THEN a - b ELSE 0
Absent == [state |-> "absent", has |-> Nothing]

Alone == crontab = {}
known == IF Alone THEN CVEs ELSE SharedCVEs
horizon == IF Alone THEN Horizon ELSE SharedHorizon

\* parseSince: a lower bound on lastModified, 0 for none.
parseSince == IF FirstWindow = 0 THEN 0 ELSE minus(now, FirstWindow)

Init ==
    /\ crontab \in SUBSET OneShots
    /\ now = Start /\ modified \in [CVEs -> {0, Start}] /\ indexed = modified
    /\ \A c \in CVEs \ known : modified[c] = 0
    /\ due = 0 /\ waiting = FALSE /\ stopping = FALSE
    /\ pc = [u \in Updaters |-> IF u \in OneShots \ crontab THEN "exited" ELSE "new"]
    /\ since = [u \in Updaters |-> 0]
    /\ start = [u \in Updaters |-> 0] /\ docs = [u \in Updaters |-> Nothing]
    /\ began = [u \in Updaters |-> 0] /\ owed = [u \in Updaters |-> Nothing]
    /\ disk = [f \in {"tmp", "out"} |-> Absent]
    /\ fd = [u \in Updaters |-> "none"]
    /\ collected = Nothing /\ refreshed = FALSE /\ faults = 0

(***************************************************************************)
(*                              Environment                                *)
(***************************************************************************)
\* A CVE is published or changed; NVD shows it later.  Bound: once after Start.
Modify(c) ==
    /\ c \in known /\ indexed[c] = modified[c] /\ modified[c] <= Start /\ Start < now
    /\ modified' = [modified EXCEPT ![c] = now]
    /\ UNCHANGED <<crontab, now, indexed, ticker, stopping, pc, job, disk, fd, collected, refreshed, faults>>

Index(c) ==
    /\ indexed[c] # modified[c]
    /\ indexed' = [indexed EXCEPT ![c] = modified[c]]
    /\ UNCHANGED <<crontab, now, modified, ticker, stopping, pc, job, disk, fd, collected, refreshed, faults>>

busy(u) == pc[u] \in {"fetch", "open", "write", "rename"}

\* The ticker's channel holds one tick; a tick it has no room for is dropped.
Tick(t) ==
    IF due # 0 /\ t >= due THEN waiting' = TRUE /\ due' = due + Interval
    ELSE UNCHANGED ticker

\* Time passes, within the assumed lag and refresh time, and with the daemon
\* awake to take a tick when it comes.
Advance ==
    /\ now < horizon /\ now' = now + 1 /\ Tick(now + 1)
    /\ \A c \in CVEs : indexed[c] # modified[c] => now < modified[c] + Lag
    /\ \A u \in Updaters : busy(u) => now < began[u] + MaxFetch
    /\ ~(waiting /\ pc[Daemon] = "select")
    /\ UNCHANGED <<crontab, nvd, stopping, pc, job, disk, fd, collected, refreshed, faults>>

\* The host sleeps for an interval.
Suspend ==
    /\ faults < MaxFaults /\ faults' = faults + 1
    /\ now + Interval <= horizon /\ now' = now + Interval /\ Tick(now + Interval)
    /\ \A c \in CVEs : indexed[c] = modified[c]
    /\ UNCHANGED <<crontab, nvd, stopping, pc, job, disk, fd, collected, refreshed>>

Sigterm ==
    /\ ~stopping /\ stopping' = TRUE
    /\ UNCHANGED <<crontab, now, nvd, ticker, pc, job, disk, fd, collected, refreshed, faults>>

(***************************************************************************)
(*                                 Fetch                                   *)
(***************************************************************************)
\* The CVEs the API lists for the window from s to now; every request computes
\* now afresh and moves the start up to the longest window.
lowerBound(s) == IF s = 0 THEN 0 ELSE Max({s, minus(now, MaxWindow)})
listed(s) == {c \in CVEs : indexed[c] > 0 /\ indexed[c] >= lowerBound(s)}

Begin(u, s) ==
    /\ pc' = [pc EXCEPT ![u] = "fetch"] /\ since' = [since EXCEPT ![u] = s]
    /\ start' = [start EXCEPT ![u] = 0] /\ docs' = [docs EXCEPT ![u] = Nothing]
    /\ began' = [began EXCEPT ![u] = now]
    /\ owed' = [owed EXCEPT ![u] = [c \in CVEs |-> IF c \in listed(s) THEN indexed[c] ELSE 0]]

\* cmdUpdate's one refresh, and the daemon's first.
FirstRefresh(u) ==
    /\ pc[u] = "new" /\ Begin(u, parseSince)
    /\ UNCHANGED <<crontab, now, nvd, ticker, stopping, disk, fd, collected, refreshed, faults>>

\* Variant: the window has no slack.
rollingTight == minus(now, Interval)

rolling == minus(now, Interval + Slack)

TickRefresh ==
    /\ pc[Daemon] = "select" /\ waiting
    /\ waiting' = FALSE /\ Begin(Daemon, rolling)
    /\ UNCHANGED <<crontab, now, nvd, due, stopping, disk, fd, collected, refreshed, faults>>

\* runUpdateDaemon after a refresh, successful or not: the ticker is made once.
AfterRefresh(u, wrote) ==
    IF u = Daemon
    THEN /\ pc' = [pc EXCEPT ![u] = "select"]
         /\ due' = IF due = 0 THEN now + Interval ELSE due
         /\ refreshed' = wrote /\ UNCHANGED waiting
    ELSE pc' = [pc EXCEPT ![u] = "exited"] /\ UNCHANGED <<ticker, refreshed>>

cancelled(u) == u = Daemon /\ stopping

\* startIndex, already advanced, has reached totalResults, or the page cap.
lastPage(i, total, page) == i >= total \/ (MaxPages > 0 /\ page >= MaxPages)

\* The index of a CVE in the list for the window from s.
place(c, s) == Cardinality({d \in listed(s) : d < c})

\* One request, answered: the documents from startIndex on.
Page(u) ==
    LET list == listed(since[u])
        next == start[u] + PageSize
        got == {c \in list : start[u] <= place(c, since[u]) /\ place(c, since[u]) < next} IN
    /\ pc[u] = "fetch" /\ ~cancelled(u)
    /\ docs' = [docs EXCEPT ![u] = [c \in CVEs |-> IF c \in got THEN indexed[c] ELSE @[c]]]
    /\ start' = [start EXCEPT ![u] = next]
    /\ pc' = [pc EXCEPT ![u] = IF lastPage(next, Cardinality(list), next \div PageSize) THEN "open" ELSE "fetch"]
    /\ UNCHANGED <<crontab, now, nvd, ticker, stopping, since, began, owed, disk, fd, collected, refreshed, faults>>

\* A request fails: the refresh is logged and dropped with all it fetched.
FetchFails(u) ==
    /\ pc[u] = "fetch" /\ ~cancelled(u)
    /\ faults < MaxFaults /\ faults' = faults + 1
    /\ AfterRefresh(u, FALSE)
    /\ UNCHANGED <<crontab, now, nvd, stopping, job, disk, fd, collected>>

\* A request, or the pause between two, ends with its context.
Cancel(u) ==
    /\ pc[u] = "fetch" /\ cancelled(u)
    /\ AfterRefresh(u, FALSE)
    /\ UNCHANGED <<crontab, now, nvd, stopping, job, disk, fd, collected, faults>>

(***************************************************************************)
(*                                writeDB                                  *)
(***************************************************************************)
target == "tmp"

\* WriteFile opens and truncates out.tmp, the same name for every updater.
Open(u) ==
    /\ pc[u] = "open"
    /\ disk' = [disk EXCEPT ![target] = [state |-> "empty", has |-> Nothing]]
    /\ fd' = [fd EXCEPT ![u] = target] /\ pc' = [pc EXCEPT ![u] = "write"]
    /\ UNCHANGED <<crontab, now, nvd, ticker, stopping, job, collected, refreshed, faults>>

\* Bytes over another writer's longer file leave its tail.
Write(u) ==
    /\ pc[u] = "write"
    /\ IF fd[u] = "none" THEN UNCHANGED disk
       ELSE \E s \in IF disk[fd[u]].state = "empty" THEN {"whole"} ELSE {"whole", "torn"} :
               disk' = [disk EXCEPT ![fd[u]] = [state |-> s, has |-> docs[u]]]
    /\ fd' = [fd EXCEPT ![u] = "none"] /\ pc' = [pc EXCEPT ![u] = "rename"]
    /\ UNCHANGED <<crontab, now, nvd, ticker, stopping, job, collected, refreshed, faults>>

Tear(u) == IF fd[u] = "none" THEN UNCHANGED disk
           ELSE disk' = [disk EXCEPT ![fd[u]].state = "torn"]

\* Variant: a write that failed is renamed all the same.
afterFailedWriteRenames(u) == pc' = [pc EXCEPT ![u] = "rename"] /\ UNCHANGED <<ticker, refreshed>>

afterFailedWrite(u) == AfterRefresh(u, FALSE)

WriteFails(u) ==
    /\ pc[u] = "write" /\ faults < MaxFaults /\ faults' = faults + 1
    /\ Tear(u) /\ fd' = [fd EXCEPT ![u] = "none"] /\ afterFailedWrite(u)
    /\ UNCHANGED <<crontab, now, nvd, stopping, job, collected>>

\* The rename moves the file other descriptors may still write, and unlinks
\* the database it replaces.
Rename(u) ==
    /\ pc[u] = "rename" /\ disk["tmp"].state # "absent"
    /\ disk' = [tmp |-> Absent, out |-> disk["tmp"]]
    /\ fd' = [v \in Updaters |-> IF fd[v] = "tmp" THEN "out" ELSE "none"]
    /\ collected' = newer(collected, disk["tmp"].has)
    /\ AfterRefresh(u, TRUE)
    /\ UNCHANGED <<crontab, now, nvd, stopping, job, faults>>

\* Another updater renamed out.tmp first.
RenameFails(u) ==
    /\ pc[u] = "rename" /\ disk["tmp"].state = "absent"
    /\ AfterRefresh(u, FALSE)
    /\ UNCHANGED <<crontab, now, nvd, stopping, job, disk, fd, collected, faults>>

(***************************************************************************)
(*                          Stop, crash and restart                        *)
(***************************************************************************)
Stop ==
    /\ pc[Daemon] = "select" /\ stopping
    /\ pc' = [pc EXCEPT ![Daemon] = "exited"]
    /\ UNCHANGED <<crontab, now, nvd, ticker, stopping, job, disk, fd, collected, refreshed, faults>>

\* The process is killed at any step and started again.
Crash(u) ==
    /\ busy(u) /\ faults < MaxFaults /\ faults' = faults + 1
    /\ pc' = [pc EXCEPT ![u] = "new"] /\ fd' = [fd EXCEPT ![u] = "none"]
    /\ IF pc[u] = "write" THEN Tear(u) ELSE UNCHANGED disk
    /\ IF u = Daemon THEN due' = 0 /\ waiting' = FALSE ELSE UNCHANGED ticker
    /\ UNCHANGED <<crontab, now, nvd, stopping, job, collected, refreshed>>

Work(u) == FirstRefresh(u) \/ Cancel(u) \/ Open(u) \/ Write(u) \/ WriteFails(u)
           \/ Rename(u) \/ RenameFails(u)
Done == \A u \in Updaters : pc[u] = "exited"
Next ==
    \/ \E c \in CVEs : Modify(c) \/ Index(c)
    \/ Advance \/ Suspend \/ Sigterm \/ TickRefresh \/ Stop
    \/ \E u \in Updaters : Work(u) \/ Page(u) \/ FetchFails(u) \/ Crash(u)
    \/ Done /\ UNCHANGED vars

\* An updater's own steps are taken; a request may stay unanswered for ever, for
\* the HTTP client has no timeout.  A select that keeps finding the cancelled
\* context ready takes that branch in the end.
Spec == Init /\ [][Next]_vars /\ \A u \in Updaters : WF_vars(Work(u))
             /\ WF_vars(TickRefresh) /\ SF_vars(Stop)

(***************************************************************************)
(*                               Properties                                *)
(***************************************************************************)
Times == 0..Horizon
File == [state : {"absent", "empty", "torn", "whole"}, has : [CVEs -> Times]]

\* Every variable keeps its type.
TypeOK ==
    /\ crontab \subseteq OneShots /\ now \in Times /\ {modified, indexed, collected} \subseteq [CVEs -> Times]
    /\ due \in 0..Horizon + Interval /\ {waiting, stopping, refreshed} \subseteq BOOLEAN
    /\ pc \in [Updaters -> {"new", "fetch", "open", "write", "rename", "select", "exited"}]
    /\ {since, began} \subseteq [Updaters -> Times]
    /\ start \in [Updaters -> 0..Cardinality(CVEs) + PageSize]
    /\ {docs, owed} \subseteq [Updaters -> [CVEs -> Times]]
    /\ disk \in [{"tmp", "out"} -> File] /\ fd \in [Updaters -> {"none", "tmp", "out"}]
    /\ faults \in 0..MaxFaults

\* writeDB: "a mid-write failure never corrupts the previous good DB".
WholeDatabase == disk["out"].state \in {"absent", "whole"}

\* It is so while a single updater writes, through failures and crashes of it.
DatabaseIsWhole == Alone => WholeDatabase

\* A database about to be written holds all the API showed in its window when
\* the fetch began, though the list it pages through changes meanwhile.
WindowIsComplete ==
    \A u \in Updaters : pc[u] = "open" =>
       \A c \in CVEs : docs[u][c] >= owed[u][c]

\* runUpdateDaemon: "so no modified CVE slips between ticks".  After a refresh
\* that wrote a database, every change the API showed when it began has been in
\* some database.
NoCVESlips ==
    pc[Daemon] = "select" /\ refreshed =>
       \A c \in CVEs : indexed[c] > 0 /\ indexed[c] + Lag < began[Daemon]
                          => collected[c] >= indexed[c]

\* It is so while every refresh of the only updater succeeds.
NoModifiedCVESlips == Alone /\ faults = 0 => NoCVESlips

\* A refresh brings the database up to date: an advisory once in it stays.
AdvisoriesAreKept ==
    [][\A c \in CVEs : disk["out"].has[c] > 0 => disk'["out"].has[c] > 0]_vars

\* SIGTERM ends the daemon, in whatever step of a refresh it arrives, unless
\* it is killed before.
StopEndsDaemon == stopping ~> pc[Daemon] = "exited"
=============================================================================
