--------------------------- MODULE PluginManager ---------------------------
(***************************************************************************)
(* The plugin managers (pkg/plugins): PropagatorManager over LocalManager. *)
(* One "plugin install" or "plugin remove" command for several plugins.    *)
(* Install lists the plugins, downloads the ones not found on the local    *)
(* search path, in parallel, to a directory it adds to that path, and has  *)
(* the local manager copy file after file over what is installed.          *)
(***************************************************************************)
EXTENDS Integers, Sequences

CONSTANTS
    Names     \* the plugins named, in order

VARIABLES
    local,     \* local[p]: the files of p on the local search path
    registry,  \* the propagator's answer: "down", "garbled" or "up"
    offered,   \* the plugins the registry offers
    command,   \* "install" or "remove"
    pc,        \* "list", "download", "local", "copy", "remove", "over" or "stuck"
    status,    \* status[p], as List found it
    fetch,     \* fetch[p]: where the download of p is
    downloads, \* downloads[p][f]: "none", "new" or "cut"
    installed, \* installed[p][f]: "none", "old", "local", "new" or "cut"
    before,    \* what was installed at first
    n, file,   \* the plugin and the file at hand
    err,       \* err of the loop over the plugins
    failed,    \* an earlier plugin has failed to be removed
    report     \* report[p]: "none", "ok", "error" or "already"

vars == <<local, registry, offered, command, pc, status, fetch, downloads, installed, before,
          n, file, err, failed, report>>

PluginFiles == <<"library", "binary">>
FileSet == {"library", "binary"}
Plugins == {Names[i] : i \in 1..Len(Names)}
Each(v) == [f \in FileSet |-> v]

Init ==
    /\ local \in [Plugins -> SUBSET FileSet] /\ registry \in {"down", "garbled", "up"}
    /\ offered \in SUBSET Plugins /\ command \in {"install", "remove"}
    /\ installed \in [Plugins -> {Each("none"), Each("old"), Each("new")}] /\ before = installed
    /\ pc = IF command = "install" THEN "list" ELSE "remove"
    /\ status = [p \in Plugins |-> "UNKNOWN"] /\ fetch = [p \in Plugins |-> "off"]
    /\ downloads = [p \in Plugins |-> Each("none")]
    /\ n = 1 /\ file = 1 /\ err = FALSE /\ failed = FALSE
    /\ report = [p \in Plugins |-> "none"]

-----------------------------------------------------------------------------
(* List *)

IsInstalled(p) == \A f \in FileSet : installed[p][f] # "none"

\* The first file found on the search path: local, then the downloads.
Found(p, f) == IF f \in local[p] THEN "local" ELSE downloads[p][f]
AllFound(p) == \A f \in FileSet : Found(p, f) # "none"

\* The directory the plugin is copied from is that of its last file, if all its
\* files were found.
FromLocal(p) == PluginFiles[Len(PluginFiles)] \in local[p]
Source(p, f) ==
    IF ~AllFound(p) THEN "none"
    ELSE IF ~FromLocal(p) THEN downloads[p][f]
    ELSE IF f \in local[p] THEN "local" ELSE "none"

LocalStatus(p) ==
    IF AllFound(p)
    THEN IF ~IsInstalled(p) THEN "AVAILABLE"
         ELSE IF \A f \in FileSet : installed[p][f] = Found(p, f) THEN "INSTALLED" ELSE "OUTDATED"
    ELSE IF IsInstalled(p) THEN "INSTALLED" ELSE "UNKNOWN"

\* The registry is asked about what is not available locally.
ListStatus(p) ==
    IF AllFound(p) \/ registry # "up" \/ p \notin offered THEN LocalStatus(p)
    ELSE IF ~IsInstalled(p) THEN "AVAILABLE"
    ELSE IF installed[p] = Each("new") THEN "INSTALLED" ELSE "OUTDATED"

\* With an answer that cannot be decoded, Install sends to a channel that nobody
\* has yet.
Asked == \E p \in Plugins : ~AllFound(p)

Early(p) ==
    CASE ListStatus(p) = "UNKNOWN" -> "error"
      [] ListStatus(p) = "INSTALLED" -> "already"
      [] OTHER -> "none"

List ==
    /\ pc = "list"
    /\ IF registry = "garbled" /\ Asked
       THEN pc' = "stuck" /\ UNCHANGED <<status, report, fetch>>
       ELSE /\ pc' = "download"
            /\ status' = [p \in Plugins |-> ListStatus(p)]
            /\ report' = [p \in Plugins |-> Early(p)]
            /\ fetch' = [p \in Plugins |-> IF Early(p) = "none" /\ ~AllFound(p) THEN "binary" ELSE "off"]
    /\ UNCHANGED <<local, registry, offered, command, downloads, installed, before, n, file, err, failed>>

\* A file is fetched and saved whole ("new"); or the transfer breaks off and what
\* has come stays in the download directory ("cut"); or there is nothing.
DownloadBinary(p, f, r) ==
    /\ r \in {"new", "cut", "none"}
    /\ downloads' = [downloads EXCEPT ![p][f] = r]

\* A goroutine per plugin downloads its files in turn, and stops at a failure.
Download(p) ==
    /\ pc = "download" /\ fetch[p] \in FileSet
    /\ \E r \in {"new", "cut", "none"} :
          /\ DownloadBinary(p, fetch[p], r)
          /\ fetch' = [fetch EXCEPT ![p] = IF r = "new" /\ @ = "binary" THEN "library" ELSE "off"]
    /\ UNCHANGED <<local, registry, offered, command, pc, status, installed, before, n, file, err, failed, report>>

\* After wg.Wait the local manager lists the plugins again.
Downloaded ==
    /\ pc = "download" /\ \A p \in Plugins : fetch[p] = "off"
    /\ pc' = "copy" /\ status' = [p \in Plugins |-> LocalStatus(p)]
    /\ UNCHANGED <<local, registry, offered, command, fetch, downloads, installed, before, n, file, err, failed, report>>

-----------------------------------------------------------------------------
(* LocalManager.Install *)

NextPlugin == n' = n + 1 /\ file' = 1 /\ err' = FALSE

\* Not on the install list, or installed after all.
SkipPlugin ==
    /\ pc = "copy" /\ n <= Len(Names) /\ file = 1
    /\ LET p == Names[n] IN
       /\ report[p] # "none" \/ status[p] = "INSTALLED"
       /\ report' = [report EXCEPT ![p] = IF @ = "none" THEN "already" ELSE @]
    /\ NextPlugin
    /\ UNCHANGED <<local, registry, offered, command, pc, status, fetch, downloads, installed, before, failed>>

Copying == pc = "copy" /\ n <= Len(Names) /\ file <= Len(PluginFiles)
           /\ report[Names[n]] = "none" /\ status[Names[n]] # "INSTALLED"

\* Mutant: a failure of the copy is not an error.
CopyFile_NoError ==
    /\ Copying
    /\ LET p == Names[n]  f == PluginFiles[file] IN
       \/ Source(p, f) = "none" /\ err' = TRUE /\ UNCHANGED installed
       \/ /\ Source(p, f) # "none"
          /\ \E r \in {Source(p, f), "none", "cut"} : installed' = [installed EXCEPT ![p][f] = r]
          /\ UNCHANGED err
    /\ file' = file + 1
    /\ UNCHANGED <<local, registry, offered, command, pc, status, fetch, downloads, before, n, failed, report>>

\* The old file is removed, then the new one copied.  An error ends the loop over
\* the libraries, but not the one over the binaries.
CopyFile ==
    /\ Copying
    /\ LET p == Names[n]  f == PluginFiles[file] IN
       \/ Source(p, f) = "none" /\ err' = TRUE /\ UNCHANGED installed
       \/ /\ Source(p, f) # "none"
          /\ \/ installed' = [installed EXCEPT ![p][f] = Source(p, f)] /\ UNCHANGED err
             \/ \E r \in {"none", "cut"} :
                   installed' = [installed EXCEPT ![p][f] = r] /\ err' = TRUE
    /\ file' = file + 1
    /\ UNCHANGED <<local, registry, offered, command, pc, status, fetch, downloads, before, n, failed, report>>

Installed ==
    /\ pc = "copy" /\ n <= Len(Names) /\ file > Len(PluginFiles)
    /\ report' = [report EXCEPT ![Names[n]] = IF err THEN "error" ELSE "ok"]
    /\ NextPlugin
    /\ UNCHANGED <<local, registry, offered, command, pc, status, fetch, downloads, installed, before, failed>>

-----------------------------------------------------------------------------
(* LocalManager.Remove *)

\* err is declared outside the loop over the plugins.
RemoveFile ==
    /\ pc = "remove" /\ n <= Len(Names) /\ file <= Len(PluginFiles)
    /\ LET p == Names[n]  f == PluginFiles[file] IN
       /\ \A g \in FileSet : before[p][g] # "none"
       /\ \/ installed' = [installed EXCEPT ![p][f] = "none"] /\ UNCHANGED <<err, failed>>
          \/ err' = TRUE /\ failed' = TRUE /\ UNCHANGED installed
    /\ file' = file + 1
    /\ UNCHANGED <<local, registry, offered, command, pc, status, fetch, downloads, before, n, report>>

Removed ==
    /\ pc = "remove" /\ n <= Len(Names)
    /\ LET p == Names[n] IN
       \/ /\ \E g \in FileSet : before[p][g] = "none"
          /\ report' = [report EXCEPT ![p] = "error"]
       \/ file > Len(PluginFiles) /\ report' = [report EXCEPT ![p] = IF err THEN "error" ELSE "ok"]
    /\ n' = n + 1 /\ file' = 1
    /\ UNCHANGED <<local, registry, offered, command, pc, status, fetch, downloads, installed, before, err, failed>>

\* The channels are closed, and the command's loop over them ends.
Finish ==
    /\ pc \in {"copy", "remove"} /\ n > Len(Names) /\ pc' = "over"
    /\ UNCHANGED <<local, registry, offered, command, status, fetch, downloads, installed, before, n, file, err, failed, report>>

Next ==
    \/ List \/ Downloaded \/ SkipPlugin \/ CopyFile \/ Installed \/ RemoveFile \/ Removed \/ Finish
    \/ \E p \in Plugins : Download(p)

Spec == Init /\ [][Next]_vars

-----------------------------------------------------------------------------
(* Properties *)

\* A plugin reported as installed has all its files from one place, none missing
\* and none of another version -- though one may be cut short if its download
\* was, since a download that failed is left on the search path.
InstalledFromOnePlace ==
    \A p \in Plugins :
        (command = "install" /\ report[p] = "ok") =>
            \/ installed[p] = Each("local")
            \/ installed[p] = downloads[p] /\ \A f \in FileSet : downloads[p][f] # "none"

\* A plugin reported as removed is gone, and one reported as an error is gone
\* only if removing an earlier one had failed.
RemovedIsGone ==
    \A p \in Plugins :
        (command = "remove" /\ report[p] # "none" /\ before[p] # Each("none")) =>
            /\ report[p] = "ok" => installed[p] = Each("none")
            /\ (report[p] = "error" /\ installed[p] = Each("none")) => failed

\* What Install and Remove report of a plugin is what became of its files.
ReportsTrue == InstalledFromOnePlace /\ RemovedIsGone
=============================================================================
