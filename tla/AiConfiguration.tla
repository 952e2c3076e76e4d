--------------------------- MODULE AiConfiguration ---------------------------
(***************************************************************************)
(* The settings of the AI providers and of research: one JSON file that    *)
(* administrators' pages (adapters/api/ai_admin_api.py and the web         *)
(* client's two settings sections) and the command line (adapters/cli/     *)
(* ai.py) read and replace (infrastructure/ai/configuration.py), and the   *)
(* lock file that keeps one connection test in flight (activity_lock.py).  *)
(*                                                                         *)
(* A page's request is one handler thread; a shell's command is one        *)
(* process.  Each is a sequence of the reads and the one guarded write it  *)
(* makes.  The revision of the file is the hash of its bytes, so it is the *)
(* content itself here; `at` stands for updated_at_ms, which every write   *)
(* advances, and bounds the number of writes.                              *)
(***************************************************************************)
EXTENDS Naturals

CONSTANTS
    Pages,      \* administrators' pages, each with at most one request in flight
    Shells,     \* the command line's processes
    Declared,   \* identifiers of provider records an administrator may declare
    Builtin,    \* the identifier of the built-in provider
    Models,     \* model identifiers
    Settings,   \* values of the research section
    MaxWrites,  \* bound: replacements of the file
    MaxStops,   \* bound: ends of a process
    NONE

Providers == Declared \cup {Builtin}
DefaultModel == CHOOSE m \in Models : TRUE

VARIABLES
    file,   \* the configuration file: NONE or its content
    page,   \* what each page holds of its two sections
    call,   \* what each page's request or shell's command is doing
    lock,   \* the connection test's lock file exists
    stops   \* processes ended so far

settingsVars == <<file, page, call, lock, stops>>

Agents == Pages \cup Shells
Contents == [active: Providers, chosen: [Providers -> Models \cup {NONE}],
             records: [Declared -> SUBSET Models],
             research: Settings \cup {NONE}, at: 0 .. MaxWrites]

ASSUME AiConfigurationAssumption ==
    /\ Builtin \notin Declared /\ Models # {}
    /\ NONE \notin Models \cup Settings \cup Providers \cup Contents
    /\ MaxWrites \in Nat /\ MaxStops \in Nat

(* What a writer wants changed.                                            *)
Edits == [kind: {"put"}, provider: Declared, models: SUBSET Models \ {{}}]
    \cup [kind: {"delete"}, provider: Declared]
    \cup [kind: {"activate"}, provider: Providers, model: Models]
    \cup [kind: {"settings"}, value: Settings]

NoCall == [step |-> "idle"]

SettingsInit ==
    /\ file = NONE
    /\ page = [o \in Pages |-> [media |-> NONE, study |-> NONE, shown |-> NONE]]
    /\ call = [a \in Agents |-> NoCall]
    /\ lock = FALSE
    /\ stops = 0

-----------------------------------------------------------------------------
(* The content of the file                                                 *)

Empty == [active |-> Builtin, chosen |-> [p \in Providers |-> NONE],
          records |-> [p \in Declared |-> {}], research |-> NONE, at |-> 0]

Base(c) == IF c = NONE THEN Empty ELSE c
Known(c) == {Builtin} \cup {p \in Declared : c.records[p] # {}}

(* The edits, as the handlers' mutators and the commands make them.        *)
Edited(c, e) ==
    CASE e.kind = "put" -> [c EXCEPT !.records[e.provider] = e.models]
      [] e.kind = "delete" -> [c EXCEPT !.records[e.provider] = {},
                                        !.chosen[e.provider] = NONE]
      [] e.kind = "activate" -> [c EXCEPT !.active = e.provider,
                                          !.chosen[e.provider] = e.model]
      [] e.kind = "settings" -> [c EXCEPT !.research = e.value]

(* What a load accepts: a model is chosen for known providers only, the    *)
(* active provider is known, and a declared one that is active has a model.*)
Loads(c) ==
    /\ {p \in Providers : c.chosen[p] # NONE} \subseteq Known(c)
    /\ c.active \in Known(c)
    /\ c.active \in Declared => c.chosen[c.active] # NONE

(* What a write refuses.                                                 *)
Writable(c) == Loads(c)

(* The written form gives an active built-in provider its default model.   *)
Written(c) ==
    IF c.active = Builtin /\ c.chosen[Builtin] = NONE
      THEN [c EXCEPT !.chosen[Builtin] = DefaultModel] ELSE c

(* A write under the file guard: one atomic replacement.                   *)
Write(c) ==
    /\ Writable(c) /\ Base(file).at < MaxWrites
    /\ file' = [Written(c) EXCEPT !.at = Base(file).at + 1]

(* The checks the handlers and the commands make on what they loaded.      *)
Refused(c, e) ==
    CASE e.kind = "put" -> c # NONE /\ c.active = e.provider
                             /\ c.chosen[e.provider] \notin e.models
      [] e.kind = "delete" -> \/ c = NONE
                              \/ c.records[e.provider] = {}
                              \/ c.active = e.provider
      [] e.kind = "activate" -> e.provider \in Declared
                                  /\ (c = NONE \/ e.model \notin c.records[e.provider])
      [] e.kind = "settings" -> c = NONE

-----------------------------------------------------------------------------
(* A page's requests                                                       *)

Goes(a, c) == call' = [call EXCEPT ![a] = c]
Ends(a) == Goes(a, NoCall)
Listing == [step |-> "listing"]

(* Loading the providers: the configuration first, the revision last.      *)
ListProviders(o) ==
    /\ call[o] = NoCall
    /\ Goes(o, Listing)
    /\ UNCHANGED <<file, page, lock, stops>>

Listed(o) ==
    /\ call[o] = Listing
    /\ page' = [page EXCEPT ![o].media = <<file>>]
    /\ Ends(o)
    /\ UNCHANGED <<file, lock, stops>>

(* Loading the research settings: the page forgets what it held; the bytes *)
(* are read for the revision, then the file again for its content.         *)
Study(o) ==
    /\ call[o] = NoCall
    /\ page' = [page EXCEPT ![o].study = NONE, ![o].shown = NONE]
    /\ Goes(o, [step |-> "studying", revision |-> <<file>>])
    /\ UNCHANGED <<file, lock, stops>>

Studied(o) ==
    /\ call[o].step = "studying"
    /\ page' = [page EXCEPT ![o].study = call[o].revision,
                            ![o].shown = <<Base(file).research>>]
    /\ Ends(o)
    /\ UNCHANGED <<file, lock, stops>>

(* The revision a request carries: the media section sends what it holds   *)
(* or nothing at all, the research section saves only with a revision.     *)
Carries(o, e) ==
    IF e.kind = "settings" THEN page[o].study
    ELSE IF page[o].media = NONE THEN <<>> ELSE page[o].media

RevisionFits(revision) == revision \in {<<>>, <<file>>}

(* The media section lists the providers again however its change ended.   *)
Closes(o, e) == Goes(o, IF e.kind = "settings" THEN NoCall ELSE Listing)

(* A change is asked for, and checked against a load outside the guard.    *)
Ask(o, e) ==
    /\ call[o] = NoCall
    /\ e.kind = "settings" => page[o].study # NONE
    /\ IF Refused(file, e) \/ (e.kind = "settings" /\ ~RevisionFits(page[o].study))
         THEN Closes(o, e)
         ELSE Goes(o, [step |-> "asked", edit |-> e, revision |-> Carries(o, e)])
    /\ UNCHANGED <<file, page, lock, stops>>

(* Under the guard: the revision is compared, the edit is applied to what  *)
(* is there now, and one that changes nothing succeeds without a write.    *)
(* A content that is refused or cannot be stored leaves the file alone.    *)
Apply(o) ==
    /\ call[o].step = "asked"
    /\ LET e == call[o].edit
           same == file # NONE /\ Edited(file, e) = file
           applied == Goes(o, [step |-> "applied", edit |-> e])
       IN  \/ RevisionFits(call[o].revision) /\ same /\ file' = file /\ applied
           \/ RevisionFits(call[o].revision) /\ ~same /\ Write(Edited(Base(file), e)) /\ applied
           \/ ~(RevisionFits(call[o].revision) /\ same) /\ file' = file /\ Closes(o, e)
    /\ UNCHANGED <<page, lock, stops>>

(* The answer carries the revision the file has by now, and the section    *)
(* adopts it; the other section's revision is dropped.                     *)
Answer(o) ==
    /\ call[o].step = "applied"
    /\ LET e == call[o].edit IN
         /\ page' = [page EXCEPT ![o] =
                       IF e.kind = "settings"
                         THEN [media |-> NONE, study |-> <<file>>, shown |-> <<e.value>>]
                         ELSE [@ EXCEPT !.media = <<file>>, !.study = NONE]]
         /\ Closes(o, e)
    /\ UNCHANGED <<file, lock, stops>>

-----------------------------------------------------------------------------
(* A shell's commands: the revision, the content, and one write of the     *)
(* whole configuration for the revision that was read.                     *)

Command(s, e) ==
    /\ call[s] = NoCall /\ e.kind # "settings"
    /\ Goes(s, [step |-> "read", edit |-> e, revision |-> <<file>>])
    /\ UNCHANGED <<file, page, lock, stops>>

Build(s) ==
    /\ call[s].step = "read"
    /\ IF call[s].edit.kind # "put" /\ Refused(file, call[s].edit)
         THEN Ends(s)
         ELSE Goes(s, [step |-> "built", revision |-> call[s].revision,
                       whole |-> Edited(Base(file), call[s].edit)])
    /\ UNCHANGED <<file, page, lock, stops>>

(* A mutant's form of the comparison accepts any revision.                 *)
AnyRevision(revision) == TRUE
Unmoved(revision) == revision = <<file>>

Store(s) ==
    /\ call[s].step = "built"
    /\ \/ Unmoved(call[s].revision) /\ Write(call[s].whole)
       \/ file' = file
    /\ Ends(s)
    /\ UNCHANGED <<page, lock, stops>>

-----------------------------------------------------------------------------
(* The connection test, from a page or a shell                             *)

(* The lock file is created exclusively; when it is there the answer is    *)
(* "busy" and it is left alone.                                            *)
Busy(a) == lock' = lock /\ Ends(a)

Test(a) ==
    /\ call[a] = NoCall
    /\ \/ lock /\ Busy(a)
       \/ ~lock /\ lock' = TRUE /\ Goes(a, [step |-> "testing"])
    /\ UNCHANGED <<file, page, stops>>

Tested(a) ==
    /\ call[a].step = "testing"
    /\ lock' = FALSE
    /\ Ends(a)
    /\ UNCHANGED <<file, page, stops>>

(* A process ends without unwinding: the server with all its requests, or  *)
(* one shell.  The guard's lock goes with it, the test's lock file stays.  *)
Stop(dead) ==
    /\ stops < MaxStops
    /\ \E a \in dead : call[a] # NoCall
    /\ call' = [a \in Agents |-> IF a \in dead THEN NoCall ELSE call[a]]
    /\ stops' = stops + 1
    /\ UNCHANGED <<file, page, lock>>

SettingsNext ==
    \/ \E o \in Pages : ListProviders(o)
    \/ \E o \in Pages : Listed(o)
    \/ \E o \in Pages : Study(o)
    \/ \E o \in Pages : Studied(o)
    \/ \E o \in Pages, e \in Edits : Ask(o, e)
    \/ \E o \in Pages : Apply(o)
    \/ \E o \in Pages : Answer(o)
    \/ \E s \in Shells, e \in Edits : Command(s, e)
    \/ \E s \in Shells : Build(s)
    \/ \E s \in Shells : Store(s)
    \/ \E a \in Agents : Test(a)
    \/ \E a \in Agents : Tested(a)
    \/ \E dead \in {Pages} \cup {{s} : s \in Shells} : Stop(dead)

SettingsSpec == SettingsInit /\ [][SettingsNext]_settingsVars

-----------------------------------------------------------------------------

(* A file that is there loads.                                             *)
TheFileLoads == file # NONE => Loads(file)

(* Every replacement of the file is one administrator's edit of what was    *)
(* there: a write that was prepared from an older content takes nobody      *)
(* else's change back with it.  (The guard, the revision and the mutators.) *)
EachWriteIsOneEdit ==
    [][file' # file =>
         \E e \in Edits :
           file' = [Written(Edited(Base(file), e)) EXCEPT !.at = Base(file).at + 1]]_settingsVars

(* The research section replaces only settings it has shown: "Never         *)
(* silently adopt a new revision" (web client).  Violated by the code: the  *)
(* answer to a save carries a revision that is read after the guard and may *)
(* be another page's, while it shows the settings that were sent.           *)
NothingUnseenIsReplaced ==
    [][\A o \in Pages :
         (/\ call[o].step = "asked" /\ call[o].edit.kind = "settings"
          /\ file' # file /\ call'[o].step = "applied")
           => page[o].shown = <<Base(file).research>>]_settingsVars
=============================================================================
