--------------------------- MODULE MCRuntimeDaemon ---------------------------
(***************************************************************************)
(* Small instances of RuntimeDaemon: two containers of one inventoried     *)
(* image, and one event of every kind the properties tell apart.           *)
(***************************************************************************)
EXTENDS RuntimeDaemon

Web == [id |-> "c1", name |-> "web", imageID |-> "", image |-> "shop", agent |-> FALSE]
Job == [id |-> "c2", name |-> "job", imageID |-> "", image |-> "shop", agent |-> TRUE]

Obs(k, c, p, n, hits) ==
    [kind |-> k, cont |-> c, pid |-> p, name |-> n, hits |-> hits,
     prefixes |-> {}, args |-> {}]

\* A binary that did not ship, run twice with different arguments.
Dropped == Obs("process", Web, 1, "/tmp/x", {})
DroppedHealth == [Dropped EXCEPT !.args = {"--health"}]
DroppedJob == [Dropped EXCEPT !.cont = Job]
\* A shell with socket stdio: two rules fire, one of them critical.
Reverse == Obs("process", Web, 1, "/bin/sh", {"shell", "stdioSocket"})
\* Metadata-service access over an allowlist that does not list it.
Metadata == Obs("network", Job, 2, "imds", {"connect", "imds"})
Beacon == Obs("network", Job, 2, "evil", {"connect", "ioc"})
\* An escape tool, and a kernel module load by a process without a PID.
Escape == Obs("process", Web, 1, "/bin/sh", {"escapeBinary"})
Rootkit == Obs("syscall", Job, 0, "init_module", {"moduleSyscall", "memfd"})
\* A setuid chmod of a file three rules watch.
PreloadChmod == [Obs("file", Web, 1, "/etc/ld.so.preload",
                     {"write", "sensitiveWrite", "persistencePath", "setuidChmod"})
                 EXCEPT !.prefixes = {"/etc"}]

ShopInventory == [shop |-> {"/bin/sh", "/app"}]
ShopBaseline == Learn({Dropped, Reverse})

NoException == [rule |-> "", image |-> "", container |-> "", path |-> "", arg |-> ""]
HealthException == {[NoException EXCEPT !.rule = "RT002", !.arg = "--health"]}
JobException == {[NoException EXCEPT !.rule = "RT002", !.container = "job"],
                 [NoException EXCEPT !.rule = "RT011", !.path = "/etc"]}

Enforce == [mode |-> "enforce", acknowledged |-> TRUE, killSeverity |-> High]
Unarmed == [mode |-> "enforce", acknowledged |-> FALSE, killSeverity |-> High]

DriftCatalog == {Dropped, DroppedHealth, DroppedJob}
NoPid(C) == {[o EXCEPT !.pid = 0] : o \in C}
MixedCatalog == NoPid({Dropped, DroppedJob, Metadata, Beacon, PreloadChmod})
ResponseCatalog == {Reverse, Escape, Rootkit, Beacon}
=============================================================================
