------------------------------ MODULE SmokeRuns ------------------------------
(***************************************************************************)
(* Running the live smoke scripts one after the other against a space that *)
(* also has things of others: the programs of SmokeScripts, step by step,  *)
(* with requests that are refused, requests that are carried out while the *)
(* answer is lost, and scripts that die.  What a run reports is written to *)
(* a file at its very end.  Later commands clean up from such files:       *)
(* --cleanup-from-evidence and chat-cleanup-smoke.mjs, here "sweep".       *)
(*                                                                         *)
(* External: Google, which carries a request out or not; the user of the   *)
(* card, who submits its dialog.                                           *)
(***************************************************************************)
EXTENDS SmokeScripts

CONSTANTS
  SmokeCommands,    \* the command lines a run may begin with
  SmokeFollowUps,   \* those that may follow
  SweepLimit,       \* --limit
  SmokeFaultBound,  \* model bound: requests that fail and scripts that die
  FollowUpBound     \* model bound: commands that follow

Allowed(c) ==
  \/ c.script = "chat" /\ ChatConfig(c)
  \/ c.script = "reactions" /\ ReactionsConfig(c)
  \/ c.script = "cardAction" /\ CardActionConfig(c)
  \/ c.script = "visual" /\ VisualConfig(c)
  \/ c.script = "uploadedMedia" /\ UploadedMediaConfig(c)
  \/ c.script = "driveExport" /\ DriveConfig(c)
  \/ c.script = "subscription" /\ SubscriptionConfig(c)
  \/ c.script = "sections" /\ SectionsConfig(c)
  \/ c.script = "userState" /\ UserStateConfig(c)
  \/ c.script = "sweep" /\ {"run", "liveCleanup"} \subseteq c.flags

ASSUME SmokeAssumption ==
  /\ \A c \in SmokeCommands \cup SmokeFollowUps :
       c.count \in Nat /\ c.names \in Seq(STRING) /\ Allowed(c)
  /\ SweepLimit \in Nat \ {0} /\ SmokeFaultBound \in Nat /\ FollowUpBound \in Nat

VARIABLES
  command, program,
  phase,        \* "body", "cleanup", "ended" (reported) or "stopped"
  act, next,      \* the step that is next
  known,        \* slot :> the name the run has for it
  failed,       \* originalError is set
  operations,   \* evidence.operations
  listed,       \* evidence.resourcesCreated
  files,        \* the evidence files, the oldest first
  exists,       \* external: the resources there are
  followUps, smokeFaults

smokeVars == <<command, program, phase, act, next, known, failed, operations,
               listed, files, exists, followUps, smokeFaults>>

(* What others have there: a message of the space and a file of the user.  *)
Others == {"bystander"}

NotMessages ==
  {"space", "lifecycleSpace", "reaction", "attachment", "file", "topic",
   "pullSubscription", "subscription", "section", "placement", "notification"}

(* There all along, whoever looks.                                         *)
Standing == {"none", "space"}

-----------------------------------------------------------------------------
(* Evidence                                                                *)

(* /(^|\.|_)create$|messages\.create$/ for an operation's words.           *)
NamesACreation(op) == op # <<>> /\ Last(op) = "create"

(* The elements of s that are in T, in their order.                        *)
Those(s, T) ==
  LET those[i \in 0..Len(s)] ==
        IF i = 0 THEN <<>>
        ELSE IF s[i] \in T THEN Append(those[i - 1], s[i]) ELSE those[i - 1]
  IN  those[Len(s)]

Messages(names) == Those(names, Range(names) \ NotMessages)

(* The messages that a file says were created and deleted.                 *)
CreatedIn(file) ==
  LET created == Those(file.operations,
                       {o \in Range(file.operations) : o.ok /\ NamesACreation(o.op) /\ o.named})
  IN  Messages(file.listed \o [i \in 1..Len(created) |-> created[i].name])

DeletedIn(file) ==
  {o.name : o \in {p \in Range(file.operations) : p.ok /\ p.does = "delete" /\ p.named}}

(* Each name at its first mention.                                         *)
Once(names) ==
  LET firsts == Those([i \in 1..Len(names) |-> i],
                      {i \in 1..Len(names) : \A j \in 1..(i - 1) : names[j] # names[i]})
  IN  [n \in 1..Len(firsts) |-> names[firsts[n]]]

Mentioned == Once(FlattenSeq([i \in 1..Len(files) |-> CreatedIn(files[i])]))

(* The oldest messages that were created, not deleted according to any     *)
(* file, and are old enough: of the first "old" mentions.                  *)
Candidates(old) ==
  LET deleted == UNION {DeletedIn(f) : f \in Range(files)}
      mentioned == SubSeq(Mentioned, 1, old)
      stale == Those(mentioned, Range(mentioned) \ deleted)
  IN  SubSeq(stale, 1, IF Len(stale) < SweepLimit THEN Len(stale) ELSE SweepLimit)

(* A message that is already missing counts as deleted.                    *)
Sweep(names) ==
  Program(<<Act(<<Gets("space")>>
                \o [i \in 1..Len(names) |-> [DeletesNamed(names[i]) EXCEPT !.missingOk = TRUE]],
                <<>>)>>,
          {}, {}, {})

(* The evidence of the first run, which may not have been written.         *)
ListedBefore == IF files = <<>> THEN <<>> ELSE Head(files).listed

ProgramsOf(c) ==
  CASE c.script = "chat" -> {ChatProgram(c)}
    [] c.script = "reactions" -> {ReactionsProgram(c)}
    [] c.script = "cardAction" ->
         {CardActionProgram(c, ListedBefore, {"confirmation"} \cap exists)}
    [] c.script = "visual" -> {VisualProgram(c, ListedBefore)}
    [] c.script = "uploadedMedia" -> {UploadedMediaProgram}
    [] c.script = "driveExport" -> {DriveProgram(c)}
    [] c.script = "subscription" -> {SubscriptionProgram(c)}
    [] c.script = "sections" -> {SectionsProgram(c)}
    [] c.script = "userState" -> {UserStateProgram(c)}
    [] c.script = "sweep" -> {Sweep(Candidates(old)) : old \in 0..Len(Mentioned)}

-----------------------------------------------------------------------------
(* createdMessageName starts as --message-name, driveFileId as given.      *)
KnownAtFirst(c) ==
  IF c.names = <<>> THEN [s \in {} |-> {}]
  ELSE CASE c.script = "reactions" -> [s \in {"message"} |-> Head(c.names)]
         [] c.script = "driveExport" /\ "synthetic" \notin c.flags ->
              [s \in {"file"} |-> Head(c.names)]
         [] OTHER -> [s \in {} |-> {}]

SmokeInitFrom(commands) ==
  /\ files = <<>> /\ exists = Others
  /\ command \in commands /\ program \in ProgramsOf(command)
  /\ phase = "body" /\ act = 1 /\ next = 1
  /\ known = KnownAtFirst(command)
  /\ failed = FALSE /\ operations = <<>> /\ listed = <<>>
  /\ followUps = 0 /\ smokeFaults = 0

Steps == program.acts[act][phase]

Has(trait) == trait \in program.traits

UnderWay == phase \in {"body", "cleanup"}

Current(s) == UnderWay /\ next <= Len(Steps) /\ s = Steps[next] /\ s.needs \subseteq DOMAIN known

Target(s) == IF s.on \in DOMAIN known THEN known[s.on] ELSE s.on

There(s) == Target(s) \in exists \cup Standing

(* recordOperation; only what succeeded is recorded with its name, and by  *)
(* scripts that do not hide names.                                         *)
Note(s, ok) ==
  operations' = Append(operations,
    [does |-> s.does, slot |-> s.on, name |-> Target(s), op |-> s.op, ok |-> ok,
     named |-> ok /\ ~Has("hides")])

Makes(s) == s.does \in {"create", "displace"}
Removes(s) == s.does \in {"delete", "restore"}

(* What Google does when it carries a request out.                         *)
CarriedOut(s) ==
  exists' = IF Makes(s) THEN exists \cup {s.on}
            ELSE IF Removes(s) THEN exists \ {Target(s)} ELSE exists

Learned(s) ==
  [t \in DOMAIN known \cup s.learns |-> IF t \in s.learns THEN t ELSE known[t]]

(* The request is answered; a creation's name is kept, and remembered in   *)
(* the evidence of the scripts that leave what they create.                *)
Succeed(s) ==
  /\ Makes(s) \/ There(s) \/ s.missingOk
  /\ CarriedOut(s)
  /\ known' = Learned(s)
  /\ listed' = IF Makes(s) /\ Has("remembers") THEN Append(listed, s.on) ELSE listed
  /\ Note(s, TRUE)
  /\ next' = next + 1
  /\ UNCHANGED <<command, program, phase, act, failed, files, followUps, smokeFaults>>

\* Mutant: a cleanup that fails ends the cleanup.
AfterFailure_Breaks(s) ==
  /\ Note(s, FALSE)
  /\ failed' = TRUE
  /\ IF phase = "body" THEN phase' = "cleanup" /\ next' = 1
                       ELSE next' = Len(Steps) + 1 /\ UNCHANGED phase
  /\ UNCHANGED <<command, program, act, known, listed, files, followUps>>

(* A failure ends the body; the cleanup goes on to its next step and the   *)
(* run has failed, unless its script swallows that.                        *)
AfterFailure(s) ==
  /\ Note(s, FALSE)
  /\ failed' = (failed \/ phase = "body" \/ ~Has("swallows"))
  /\ IF phase = "body" THEN phase' = "cleanup" /\ next' = 1
                       ELSE next' = next + 1 /\ UNCHANGED phase
  /\ UNCHANGED <<command, program, act, known, listed, files, followUps>>

\* A fault, or what Google has to answer when the resource is not there.
Refuse(s) ==
  /\ IF Makes(s) \/ There(s) \/ s.missingOk
     THEN smokeFaults < SmokeFaultBound /\ smokeFaults' = smokeFaults + 1
     ELSE UNCHANGED smokeFaults
  /\ AfterFailure(s)
  /\ UNCHANGED exists

LoseAnswer(s) ==
  /\ Makes(s) \/ (Removes(s) /\ There(s))
  /\ smokeFaults < SmokeFaultBound /\ smokeFaults' = smokeFaults + 1
  /\ CarriedOut(s)
  /\ AfterFailure(s)

(* What the cleanup has no name for is not cleaned up.                     *)
PassOver ==
  /\ UnderWay /\ next <= Len(Steps) /\ ~(Steps[next].needs \subseteq DOMAIN known)
  /\ next' = next + 1
  /\ UNCHANGED <<command, program, phase, act, known, failed, operations, listed,
                 files, exists, followUps, smokeFaults>>

EndBody ==
  /\ phase = "body" /\ next > Len(Steps)
  /\ phase' = "cleanup" /\ next' = 1
  /\ UNCHANGED <<command, program, act, known, failed, operations, listed,
                 files, exists, followUps, smokeFaults>>

NextAct ==
  /\ phase = "cleanup" /\ next > Len(Steps)
  /\ act < Len(program.acts) /\ (failed => Has("goesOn"))
  /\ act' = act + 1 /\ phase' = "body" /\ next' = 1
  /\ UNCHANGED <<command, program, known, failed, operations, listed,
                 files, exists, followUps, smokeFaults>>

Report ==
  /\ phase = "cleanup" /\ next > Len(Steps)
  /\ act = Len(program.acts) \/ (failed /\ ~Has("goesOn"))
  /\ phase' = "ended"
  /\ \E ok \in {~failed} \cup Also(Has("lenient"), {TRUE}) :
       files' = Append(files, [ok |-> ok, listed |-> listed, operations |-> operations])
  /\ UNCHANGED <<command, program, act, next, known, failed, operations, listed,
                 exists, followUps, smokeFaults>>

(* The process dies, perhaps while a request is under way; in sections and *)
(* userState a request that throws does the same.                          *)
Stop ==
  /\ UnderWay /\ smokeFaults < SmokeFaultBound
  /\ phase' = "stopped" /\ smokeFaults' = smokeFaults + 1
  /\ \/ UNCHANGED exists
     \/ \E s \in Range(Steps) : Current(s) /\ CarriedOut(s)
  /\ UNCHANGED <<command, program, act, next, known, failed, operations, listed,
                 files, followUps>>

(* External: the app confirms the dialog of the card in the space.         *)
SubmitDialog ==
  /\ command.script = "cardAction" /\ phase \in {"ended", "stopped"} /\ followUps = 0
  /\ "card" \in exists /\ "confirmation" \notin exists
  /\ exists' = exists \cup {"confirmation"}
  /\ UNCHANGED <<command, program, phase, act, next, known, failed, operations, listed,
                 files, followUps, smokeFaults>>

Cleans(c) == c.script = "sweep" \/ c.flags \cap {"cleanupFromEvidence", "cleanupConfirmations"} # {}

(* The next command; one that is given evidence needs that of its script.  *)
FollowUp(c) ==
  /\ phase \in {"ended", "stopped"} /\ followUps < FollowUpBound
  /\ Cleans(c) /\ c.script # "sweep" => c.script = command.script /\ files # <<>>
  /\ program' \in ProgramsOf(c)
  /\ command' = c /\ phase' = "body" /\ act' = 1 /\ next' = 1
  /\ known' = KnownAtFirst(c) /\ failed' = FALSE
  /\ operations' = <<>> /\ listed' = <<>>
  /\ followUps' = followUps + 1
  /\ UNCHANGED <<files, exists, smokeFaults>>

SmokeNext ==
  \/ \E s \in (IF UnderWay THEN Range(Steps) ELSE {}) :
       Current(s) /\ (Succeed(s) \/ Refuse(s) \/ LoseAnswer(s))
  \/ PassOver \/ EndBody \/ NextAct \/ Report \/ Stop \/ SubmitDialog
  \/ \E c \in SmokeFollowUps : FollowUp(c)

SmokeSpec == SmokeInitFrom(SmokeCommands) /\ [][SmokeNext]_smokeVars

-----------------------------------------------------------------------------
(* A run removes only what smoke runs created: whatever fails, whatever    *)
(* evidence it is given and whatever it was told on its command line, the  *)
(* things of others stay.                                                  *)
DeletesOnlyItsOwn == Others \subseteq exists

FailedToRemove(name) ==
  \E o \in Range(operations) : o.does \in {"delete", "restore"} /\ o.name = name /\ ~o.ok

(* The answer to its creation came.                                        *)
Created(slot) ==
  \E o \in Range(operations) : o.does \in {"create", "displace"} /\ o.slot = slot /\ o.ok

(* When a run has reported, each resource it created, heard of and did not *)
(* mean to leave is gone, or the evidence has its failed removal and does  *)
(* not claim that all is well (but for the two ways of forgiving that);    *)
(* and what it leaves to be looked at is listed by name, for a cleanup.    *)
LeftoversAccounted ==
  phase = "ended" =>
    \A slot \in DOMAIN known :
      Created(slot) /\ known[slot] \in exists =>
        \/ /\ slot \in program.kept
           /\ Has("remembers") => known[slot] \in Range(listed)
        \/ /\ FailedToRemove(known[slot])
           /\ Last(files).ok => Has("swallows") \/ Has("lenient")

(* The plan a dry run prints foretells what a run with the same arguments  *)
(* writes.  Not so where the plan is made from other arguments: messages   *)
(* given on the command line, and a subscription, whose dry run leaves out *)
(* what only a live run does.                                              *)
Foretold(c) ==
  /\ c.script # "sweep" /\ ~Cleans(c) /\ c.names = <<>>
  /\ c.script = "subscription" => "validateOnly" \in c.flags

NoUnplannedWrite ==
  Foretold(command) =>
    \A o \in Range(operations) :
      o.does # "read" => [does |-> o.does, on |-> Planned(o.slot)] \in program.plan
=============================================================================
