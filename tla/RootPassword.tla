---------------------------- MODULE RootPassword ----------------------------
(***************************************************************************)
(* etc/passwd, etc/shadow and etc/shells in the sysroot, and who rewrites  *)
(* them: `baker passwd` (helpers/password.py), the installations of bash,  *)
(* ncurses and readline, which make bash root's shell, and that of         *)
(* blueyos-base, which brings the files in the first place.                *)
(*                                                                         *)
(* A file is rewritten in place: opening it truncates it, the lines read   *)
(* before are written back, and only then is its mode set.  A run may be   *)
(* cut short between any two of these steps and in the middle of a write,  *)
(* which leaves some of the lines and perhaps a part of the next one.      *)
(***************************************************************************)
EXTENDS Naturals, Sequences, SequencesExt

CONSTANTS
    Others,     \* the other users of the files that are shipped, in their order
    Root,       \* the user root
    Nobody,     \* the user of a line that was cut within its name
    Cut,        \* the value of a line that was cut before it
    Absent,     \* the content of a file that is not there
    MaxRuns,    \* bound: runs of `baker passwd`
    MaxStops    \* bound: runs cut short

ASSUME UserAssumption ==
    /\ Others \in Seq(Range(Others))
    /\ Root # Nobody /\ Root \notin Range(Others) /\ Nobody \notin Range(Others)
    /\ Cut \notin {"sh", "bash", "part"}
    /\ MaxRuns \in Nat \ {0} /\ MaxStops \in Nat

(***************************************************************************)
(* A line is a user with a value.  In shadow the value is the run that     *)
(* made the hash, 0 for one that was shipped.  In passwd it is the shell,  *)
(* "part" if the shell was cut; a line with fewer fields has the value     *)
(* Cut.                                                                    *)
(***************************************************************************)
User == Range(Others) \cup {Root, Nobody}
Value == [passwd |-> {"sh", "bash", "part", Cut}, shadow |-> 0 .. MaxRuns \cup {Cut}]
File == {"passwd", "shadow"}
Content(f) == [lines : Seq(User \X Value[f]), mode : {"600", "644"}]

ASSUME AbsentAssumption == \A f \in File : Absent \notin Content(f)

VARIABLES
    etc,       \* passwd and shadow: Absent, or their lines and mode
    shells,    \* the shells listed in etc/shells
    bash,      \* whether bin/bash is in the sysroot
    pc,        \* where the current run is
    file,      \* the file it rewrites
    buffer,    \* the lines it will write
    runs,      \* number of runs of `baker passwd`; the hash made by the last one
    stops,     \* number of runs cut short
    torn,      \* history: files that a run left unfinished since they were shipped
    shipped,   \* history: files that blueyos-base brought
    bashed     \* history: bash was there when root was last given it, and passwd
               \* was not shipped again since

sysroot == <<etc, shells, bash>>
local == <<pc, file, buffer>>
history == <<stops, torn, shipped, bashed>>
vars == <<sysroot, local, runs, history>>

TypeOK ==
    /\ \A f \in File : etc[f] \in {Absent} \cup Content(f)
    /\ shells \subseteq {"sh", "bash"} /\ bash \in BOOLEAN
    /\ pc \in {"idle", "shadow", "passwd", "write", "private", "chmod",
               "bash-passwd", "bash-write", "bash-shells"}
    /\ file \in File /\ buffer \in Seq(User \X Value[file])
    /\ runs \in 0 .. MaxRuns /\ stops \in 0 .. MaxStops
    /\ torn \subseteq File /\ shipped \subseteq File /\ bashed \in BOOLEAN

Init ==
    /\ etc = [f \in File |-> Absent] /\ shells = {} /\ bash = FALSE
    /\ pc = "idle" /\ file = "shadow" /\ buffer = <<>>
    /\ runs = 0 /\ stops = 0
    /\ torn = {} /\ shipped = {} /\ bashed = FALSE

-----------------------------------------------------------------------------
(***************************************************************************)
(* Lines.                                                                  *)
(***************************************************************************)

\* The first line that starts with "root:", 0 if there is none.
RootLine(ls) == SelectInSeq(ls, LAMBDA l : l[1] = Root)

\* Mutant: bash is not looked for.
PreferSh == "sh"

PreferredShell == IF bash THEN "bash" ELSE "sh"

\* Mutant: the root line is added without looking for one.
ShadowAdded == <<<<Root, runs>>>> \o IF etc["shadow"] = Absent THEN <<>> ELSE etc["shadow"].lines

\* _update_shadow: the root line is replaced, or put in front.
NewShadow ==
    LET ls == IF etc["shadow"] = Absent THEN <<>> ELSE etc["shadow"].lines
        i == RootLine(ls)
    IN  IF i = 0 THEN <<<<Root, runs>>>> \o ls ELSE [ls EXCEPT ![i] = <<Root, runs>>]

\* Mutant: only the names are looked at, not the shell.
AnyRootWillDo == etc["passwd"] # Absent /\ RootLine(etc["passwd"].lines) # 0

\* _ensure_passwd: there is a line of root, and the shell is right or cut off.
PasswdIsRight ==
    /\ etc["passwd"] # Absent
    /\ RootLine(etc["passwd"].lines) # 0
    /\ etc["passwd"].lines[RootLine(etc["passwd"].lines)][2] \in {PreferredShell, Cut}

NewPasswd ==
    LET ls == IF etc["passwd"] = Absent THEN <<>> ELSE etc["passwd"].lines
        i == RootLine(ls)
    IN  IF i = 0 THEN <<<<Root, PreferredShell>>>> \o ls
        ELSE [ls EXCEPT ![i] = <<Root, PreferredShell>>]

\* What a line becomes when the write stops within it.
CutLine(f, l) ==
    {<<l[1], Cut>>, <<Nobody, Cut>>} \cup (IF f = "passwd" THEN {<<l[1], "part">>} ELSE {})

\* What a write that stops somewhere leaves of the lines.
Beginnings(f, ls) ==
    {SubSeq(ls, 1, n) : n \in 0 .. Len(ls)}
        \cup UNION {{Append(SubSeq(ls, 1, n - 1), c) : c \in CutLine(f, ls[n])} : n \in 1 .. Len(ls)}

-----------------------------------------------------------------------------
(***************************************************************************)
(* `baker passwd`.  It refuses an empty password, one that is not          *)
(* confirmed and a sysroot that is not there before it changes anything.   *)
(***************************************************************************)

StartPasswd ==
    /\ pc = "idle" /\ runs < MaxRuns
    /\ pc' = "shadow"
    /\ runs' = runs + 1
    /\ UNCHANGED <<sysroot, file, buffer, history>>

\* os.open: a new file is private, one that was there keeps its mode.
Truncate(f, ls, next) ==
    /\ etc' = [etc EXCEPT ![f] =
                 [lines |-> <<>>, mode |-> IF etc[f] = Absent THEN "600" ELSE etc[f].mode]]
    /\ file' = f /\ buffer' = ls
    /\ pc' = next
    /\ UNCHANGED <<shells, bash, runs, history>>

UpdateShadow == pc = "shadow" /\ Truncate("shadow", NewShadow, "write")

EnsurePasswd ==
    /\ pc = "passwd" /\ ~PasswdIsRight
    /\ Truncate("passwd", NewPasswd, "write")

PasswdIsThere ==
    /\ pc = "passwd" /\ PasswdIsRight
    /\ pc' = "idle"
    /\ UNCHANGED <<sysroot, file, buffer, runs, history>>

Write ==
    /\ pc = "write"
    /\ etc' = [etc EXCEPT ![file].lines = buffer]
    /\ pc' = "private"
    /\ UNCHANGED <<shells, bash, file, buffer, runs, history>>

\* _write_lines makes the file private,
MakePrivate ==
    /\ pc = "private"
    /\ etc' = [etc EXCEPT ![file].mode = "600"]
    /\ pc' = "chmod"
    /\ UNCHANGED <<shells, bash, file, buffer, runs, history>>

\* Mutant: a mode that neither file should have.
SetModeForGroup ==
    /\ pc = "chmod"
    /\ etc' = [etc EXCEPT ![file].mode = "640"]
    /\ pc' = IF file = "shadow" THEN "passwd" ELSE "idle"
    /\ UNCHANGED <<shells, bash, file, buffer, runs, history>>

\* and its caller sets the mode that the file should have.
SetMode ==
    /\ pc = "chmod"
    /\ etc' = [etc EXCEPT ![file].mode = IF file = "passwd" THEN "644" ELSE "600"]
    /\ pc' = IF file = "shadow" THEN "passwd" ELSE "idle"
    /\ UNCHANGED <<shells, bash, file, buffer, runs, history>>

-----------------------------------------------------------------------------
(***************************************************************************)
(* bash and blueyos-base.                                                  *)
(***************************************************************************)

\* The payload is merged: bin/bash is there.
MergeBash ==
    /\ pc = "idle"
    /\ bash' = TRUE
    /\ pc' = "bash-passwd"
    /\ UNCHANGED <<etc, shells, file, buffer, runs, history>>

\* ncurses and readline share the rest of install with bash, whether it is
\* there or not.
MergeLibrary ==
    /\ pc = "idle"
    /\ pc' = "bash-passwd"
    /\ UNCHANGED <<sysroot, file, buffer, runs, history>>

\* Every whole line of root gets bash.
WithBash(ls) ==
    [i \in DOMAIN ls |-> IF ls[i][1] = Root /\ ls[i][2] # Cut THEN <<Root, "bash">> ELSE ls[i]]

\* _ensure_root_uses_bash
BashPasswd ==
    /\ pc = "bash-passwd" /\ etc["passwd"] # Absent
    /\ WithBash(etc["passwd"].lines) # etc["passwd"].lines
    /\ Truncate("passwd", WithBash(etc["passwd"].lines), "bash-write")

BashPasswdIsRight ==
    /\ pc = "bash-passwd"
    /\ etc["passwd"] # Absent => WithBash(etc["passwd"].lines) = etc["passwd"].lines
    /\ pc' = "bash-shells"
    /\ UNCHANGED <<sysroot, file, buffer, runs, history>>

BashWrite ==
    /\ pc = "bash-write"
    /\ etc' = [etc EXCEPT !["passwd"].lines = buffer]
    /\ pc' = "bash-shells"
    /\ UNCHANGED <<shells, bash, file, buffer, runs, history>>

BashShells ==
    /\ pc = "bash-shells"
    /\ shells' = shells \cup {"sh", "bash"}
    /\ bashed' = bash
    /\ pc' = "idle"
    /\ UNCHANGED <<etc, bash, file, buffer, runs, stops, torn, shipped>>

\* The lines of a shipped file; shadow comes without root.
ShippedLines(f) ==
    LET others == [i \in DOMAIN Others |-> <<Others[i], IF f = "shadow" THEN 0 ELSE "sh">>]
    IN  IF f = "shadow" THEN others ELSE <<<<Root, "sh">>>> \o others

\* `make install-sysroot` of blueyos-base brings passwd; shadow may come with it.
InstallBase ==
    /\ pc = "idle"
    /\ \E fs \in {{"passwd"}, File} :
          /\ etc' = [f \in File |-> IF f \in fs THEN [lines |-> ShippedLines(f), mode |-> "644"]
                                    ELSE etc[f]]
          /\ torn' = torn \ fs
          /\ shipped' = shipped \cup fs
    /\ bashed' = FALSE
    /\ UNCHANGED <<shells, bash, local, runs, stops>>

\* `baker clean --sysroot`
CleanSysroot ==
    /\ pc = "idle"
    /\ etc' = [f \in File |-> Absent] /\ shells' = {} /\ bash' = FALSE
    /\ torn' = {} /\ shipped' = {} /\ bashed' = FALSE
    /\ UNCHANGED <<local, runs, stops>>

-----------------------------------------------------------------------------
(***************************************************************************)
(* Interruptions.                                                          *)
(***************************************************************************)

\* The run raises (no hash, disk full) or dies.
Stop ==
    /\ pc # "idle" /\ stops < MaxStops
    /\ stops' = stops + 1
    /\ IF pc \in {"write", "bash-write"}
       THEN \E ls \in Beginnings(file, buffer) : etc' = [etc EXCEPT ![file].lines = ls]
       ELSE UNCHANGED etc
    /\ torn' = IF pc \in {"write", "private", "chmod", "bash-write"} THEN torn \cup {file} ELSE torn
    /\ bash' \in (IF pc = "bash-passwd" THEN BOOLEAN ELSE {bash})
    /\ shells' \in (IF pc = "bash-shells" THEN SUBSET (shells \cup {"sh", "bash"}) ELSE {shells})
    /\ bashed' = (bashed /\ pc \notin {"bash-passwd", "bash-shells"})
    /\ pc' = "idle"
    /\ UNCHANGED <<file, buffer, runs, shipped>>

PasswdStep == UpdateShadow \/ EnsurePasswd \/ PasswdIsThere \/ Write \/ MakePrivate \/ SetMode
BashStep == BashPasswd \/ BashPasswdIsRight \/ BashWrite \/ BashShells

Next ==
    \/ StartPasswd \/ PasswdStep
    \/ MergeBash \/ MergeLibrary \/ BashStep
    \/ InstallBase \/ CleanSysroot
    \/ Stop

Spec == Init /\ [][Next]_vars

-----------------------------------------------------------------------------
(***************************************************************************)
(* Properties.                                                             *)
(***************************************************************************)

HasRoot(f) == etc[f] # Absent /\ RootLine(etc[f].lines) # 0
RootValue(f) == etc[f].lines[RootLine(etc[f].lines)][2]

\* A run of `baker passwd` that ends has given root this run's hash in a
\* private shadow file, and root has a line in passwd with the shell that is
\* installed and a readable passwd, whatever interrupted runs had left; only
\* a root line or a mode that one of those left unfinished may stay as it is.
\* (set_root_password)
PasswdSetsRoot ==
    [][PasswdStep /\ pc' = "idle" =>
          /\ HasRoot("shadow")' /\ RootValue("shadow")' = runs
          /\ etc'["shadow"].mode = "600"
          /\ HasRoot("passwd")'
          /\ "passwd" \notin torn =>
                RootValue("passwd")' = PreferredShell /\ etc'["passwd"].mode = "644"
          /\ RootValue("passwd")' \in {PreferredShell, Cut}]_vars

\* The users listed in a file that no run left unfinished are those it was
\* shipped with, in their order, and root once at the most: neither `baker
\* passwd` nor bash loses, repeats or reorders an entry, in any order of
\* runs and reinstallations.
\* (_read_lines, _write_lines and what is done between them)
OthersSurvive ==
    \A f \in File \ torn :
        etc[f] # Absent /\ ~(file = f /\ pc \in {"write", "bash-write"}) =>
            LET users == [i \in DOMAIN etc[f].lines |-> etc[f].lines[i][1]]
                others == IF f \in shipped THEN Others ELSE <<>>
            IN  users \in {others, <<Root>> \o others}

\* Once bash is installed, root's shell is bash and both shells are listed,
\* until passwd is shipped again: `baker passwd` never goes back to sh, and what
\* ncurses and readline rewrite does no harm.  Only
\* a line that was cut short before its shell keeps none.
\* (_ensure_root_uses_bash against _ensure_passwd)
BashStaysRootShell ==
    pc = "idle" /\ bashed =>
        /\ bash /\ {"sh", "bash"} \subseteq shells
        /\ HasRoot("passwd") => RootValue("passwd") \in {"bash", Cut} \cup
                                  (IF "passwd" \in torn THEN {"part"} ELSE {})
=============================================================================
