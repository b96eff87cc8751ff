------------------------- MODULE FlowProjectProofs -------------------------
(***************************************************************************)
(* The configuration of arc-flow, for any commands side by side: what init *)
(* and migrate write can be loaded, what is loaded can be run.             *)
(*                                                                         *)
(* Neither property is inductive as it stands.  What a command is about to *)
(* write (Prepared), and what it has read and with which environment       *)
(* (Attended, Loaded), has to be known while the files change under it.    *)
(***************************************************************************)
EXTENDS FlowProject, TLAPS

(* A command that has begun and has neither ended nor been refused *)
Busy(c) == cmd[c].stage \notin {"idle", "over", "refused"}

(* A command at work knows what it was asked and where. *)
Attended(c) == Busy(c) => asked(c) \in Requests /\ cmd[c].dir \in Dir

(* What a command has loaded is a file's configuration, with the           *)
(* environment applied to it, and was validated after that.                *)
Loaded(c) ==
    cmd[c].stage \in {"resolve", "using"} =>
        /\ \E old \in Configs : cmd[c].config = ApplyEnvironment(old, asked(c).env)
        /\ Validate(cmd[c].config)

(* What init and migrate have written, and what they are about to write *)
Prepared(c) ==
    /\ cmd[c].stage \in {"secrets", "flow"} => Present(At(c, "audit"))
    /\ cmd[c].stage \in {"flow", "output"} => Present(At(c, "secrets"))
    /\ cmd[c].stage \in {"fill", "output"} =>
          /\ cmd[c].config \in Configs
          /\ Validate(cmd[c].config) /\ cmd[c].config.secrets = "secrets"

(* A workflow file of arc-flow's, and the files next to it *)
Complete(dir, file) ==
    /\ file.by = "init" => file.config = Preset /\ Present(<<dir, "audit">>)
    /\ file.by = "migrate" => Validate(file.config) /\ file.config.secrets = "secrets"
    /\ file.by \in {"init", "migrate"} => Present(<<dir, "secrets">>)

CmdInv(c) == Attended(c) /\ Loaded(c) /\ Prepared(c)

ProjectInv ==
    /\ TypeOK
    /\ \A c \in Cmd : CmdInv(c)
    /\ \A dir \in Dir, n \in {"flow", "ci"} : Complete(dir, disk[<<dir, n>>])

CommandType ==
    [stage : Stages, asked : Requests \cup {None}, dir : Dir \cup {None},
     file : File \cup {None}, config : Configs \cup Effective \cup {None}]

ContentType ==
    [by : {"nobody", "user", "init", "migrate"}, config : Configs \cup Legacies \cup {None}]

(* No file goes away. *)
Grows == \A f \in File : Present(f) => Present(f)'

Others(c) == \A d \in Cmd \ {c} : cmd'[d] = cmd[d]

-----------------------------------------------------------------------------
(* The parts of a step *)

(* The type invariant, in the two halves the steps need. *)
LEMMA ProjectTypes == TypeOK <=> disk \in [File -> ContentType] /\ cmd \in [Cmd -> CommandType]
  BY DEF TypeOK, CommandType, ContentType

(* A step changes the stage of one command, and what it knows only when    *)
(* the command is over.                                                    *)
LEMMA StepEffect ==
  ASSUME cmd \in [Cmd -> CommandType], NEW c \in Cmd, NEW from, NEW to \in Stages,
         Step(c, from, to)
  PROVE  /\ cmd[c].stage = from
         /\ cmd' \in [Cmd -> CommandType]
         /\ cmd'[c].stage = to
         /\ to \notin {"over", "refused"} =>
               /\ cmd'[c].asked = cmd[c].asked /\ cmd'[c].dir = cmd[c].dir
               /\ cmd'[c].file = cmd[c].file /\ cmd'[c].config = cmd[c].config
         /\ Others(c)
<1>1. Idle \in CommandType
  BY DEF Idle, CommandType, Stages
<1>2. cmd[c] \in CommandType
  OBVIOUS
<1> DEFINE rec == IF to \in {"over", "refused"} THEN Idle ELSE cmd[c]
           new == [rec EXCEPT !.stage = to]
<1>3. rec \in CommandType
  BY <1>1, <1>2
<1>4. /\ new \in CommandType /\ new.stage = to
      /\ new.asked = rec.asked /\ new.dir = rec.dir
      /\ new.file = rec.file /\ new.config = rec.config
  <2> HIDE DEF rec
  <2> QED BY <1>3 DEF CommandType
<1>5. cmd' = [cmd EXCEPT ![c] = new] /\ cmd[c].stage = from
  BY DEF Step
<1> HIDE DEF new
<1> QED BY <1>4, <1>5 DEF Others

(* A file that is written is there, and the others are as they were. *)
LEMMA WriteEffect ==
  ASSUME disk \in [File -> ContentType], NEW file \in File, NEW content \in ContentType,
         content.by # "nobody", disk' = [disk EXCEPT ![file] = content]
  PROVE  /\ disk' \in [File -> ContentType] /\ Grows /\ disk'[file] = content
         /\ Present(file)' /\ \A f \in File \ {file} : disk'[f] = disk[f]
  BY DEF Grows, Present, Absent

(* A command that takes no part in a step keeps its share of the invariant. *)
LEMMA CommandKept ==
  ASSUME NEW c \in Cmd, CmdInv(c), cmd \in [Cmd -> CommandType], cmd'[c] = cmd[c], Grows
  PROVE  CmdInv(c)'
<1>1. Attended(c)'
  BY DEF CmdInv, Attended, Busy, asked
<1>2. Loaded(c)'
  BY DEF CmdInv, Loaded, asked
<1>3. Prepared(c)'
  <2>1. cmd[c].stage \in {"secrets", "flow", "output"} => cmd[c].dir \in Dir
    BY DEF CmdInv, Attended, Busy
  <2>2. \A n \in {"audit", "secrets"} :
           cmd[c].stage \in {"secrets", "flow", "output"} =>
              (Present(At(c, n)) => Present(At(c, n))')
    BY <2>1 DEF Grows, At, Present, File, Name
  <2> QED BY <2>2 DEF CmdInv, Prepared
<1> QED BY <1>1, <1>2, <1>3 DEF CmdInv

(* A command that is over has no share. *)
LEMMA CommandOver ==
  ASSUME NEW c \in Cmd, cmd'[c].stage \in {"over", "refused"}
  PROVE  CmdInv(c)'
  BY DEF CmdInv, Attended, Loaded, Prepared, Busy

(* A workflow file that is left alone stays complete. *)
LEMMA FileKept ==
  ASSUME NEW dir \in Dir, NEW n \in {"flow", "ci"}, Complete(dir, disk[<<dir, n>>]), Grows,
         disk'[<<dir, n>>] = disk[<<dir, n>>]
  PROVE  Complete(dir, disk[<<dir, n>>])'
  BY DEF Complete, Grows, Present, File, Name

(* Nothing changes for the files. *)
LEMMA SameFiles ==
  ASSUME disk' = disk
  PROVE  Grows
  BY DEF Grows, Present

(* A step of one command that writes no file *)
LEMMA ReadingStep ==
  ASSUME ProjectInv, NEW c \in Cmd, cmd' \in [Cmd -> CommandType], Others(c), disk' = disk,
         CmdInv(c)'
  PROVE  ProjectInv'
<1>1. disk \in [File -> ContentType] /\ cmd \in [Cmd -> CommandType]
  BY ProjectTypes DEF ProjectInv
<1>2. Grows
  BY SameFiles
<1>3. TypeOK'
  BY <1>1 DEF TypeOK, CommandType, ContentType
<1>4. ASSUME NEW d \in Cmd PROVE CmdInv(d)'
  <2>1. CASE d = c
    BY <2>1
  <2>2. CASE d # c
    BY <1>1, <1>2, <2>2, CommandKept DEF ProjectInv, Others
  <2> QED BY <2>1, <2>2
<1>5. ASSUME NEW dir \in Dir, NEW n \in {"flow", "ci"} PROVE Complete(dir, disk[<<dir, n>>])'
  BY <1>2, FileKept DEF ProjectInv
<1> QED BY <1>3, <1>4, <1>5 DEF ProjectInv

(* A step of one command that writes one file, and leaves it complete if   *)
(* it is a workflow file                                                   *)
LEMMA WritingStep ==
  ASSUME ProjectInv, NEW c \in Cmd, cmd' \in [Cmd -> CommandType], Others(c),
         NEW file \in File, NEW content \in ContentType, content.by # "nobody",
         disk' = [disk EXCEPT ![file] = content],
         CmdInv(c)',
         \A dir \in Dir, n \in {"flow", "ci"} : file = <<dir, n>> => Complete(dir, content)'
  PROVE  ProjectInv'
<1>1. disk \in [File -> ContentType] /\ cmd \in [Cmd -> CommandType]
  BY ProjectTypes DEF ProjectInv
<1>2. /\ disk' \in [File -> ContentType] /\ Grows /\ disk'[file] = content
      /\ \A f \in File \ {file} : disk'[f] = disk[f]
  BY <1>1, WriteEffect
<1>3. TypeOK'
  BY <1>2 DEF TypeOK, CommandType, ContentType
<1>4. ASSUME NEW d \in Cmd PROVE CmdInv(d)'
  <2>1. CASE d = c
    BY <2>1
  <2>2. CASE d # c
    BY <1>1, <1>2, <2>2, CommandKept DEF ProjectInv, Others
  <2> QED BY <2>1, <2>2
<1>5. ASSUME NEW dir \in Dir, NEW n \in {"flow", "ci"} PROVE Complete(dir, disk[<<dir, n>>])'
  <2>1. CASE file = <<dir, n>>
    BY <1>2, <2>1 DEF Complete
  <2>2. CASE file # <<dir, n>>
    <3>1. <<dir, n>> \in File
      BY DEF File, Name
    <3> QED BY <1>2, <2>2, <3>1, FileKept DEF ProjectInv
  <2> QED BY <2>1, <2>2
<1> QED BY <1>3, <1>4, <1>5 DEF ProjectInv

(* Every refusal, and every other step to the end, whatever the stage *)
LEMMA Ending ==
  ASSUME ProjectInv, NEW c \in Cmd, NEW from, NEW to \in {"over", "refused"},
         Step(c, from, to), disk' = disk
  PROVE  ProjectInv'
<1>1. cmd \in [Cmd -> CommandType] /\ to \in Stages
  BY ProjectTypes DEF ProjectInv, Stages
<1>2. cmd' \in [Cmd -> CommandType] /\ cmd'[c].stage = to /\ Others(c)
  BY <1>1, StepEffect
<1> QED BY <1>2, CommandOver, ReadingStep

(* A command at work is one of those that the invariant speaks of. *)
LEMMA AtWork ==
  ASSUME ProjectInv, NEW c \in Cmd, Busy(c)
  PROVE  /\ asked(c) \in Requests /\ cmd[c].dir \in Dir
         /\ \A n \in Name : At(c, n) \in File
  BY DEF ProjectInv, CmdInv, Attended, At, File

-----------------------------------------------------------------------------
(* init *)

(* main hands a command its directory. *)
LEMMA StartInv ==
  ASSUME ProjectInv, NEW c \in Cmd, Start(c)
  PROVE  ProjectInv'
<1>1. PICK req \in Requests :
        cmd' = [cmd EXCEPT ![c] =
              [Idle EXCEPT !.asked = req,
                  !.dir = IF req.root # None THEN req.root ELSE req.cwd,
                  !.stage = CASE req.op = "init" -> "check" [] req.op = "migrate" -> "convert"
                              [] OTHER -> "locate"]]
  BY DEF Start
<1> DEFINE dir == IF req.root # None THEN req.root ELSE req.cwd
           stage == CASE req.op = "init" -> "check" [] req.op = "migrate" -> "convert"
                      [] OTHER -> "locate"
           new == [Idle EXCEPT !.asked = req, !.dir = dir, !.stage = stage]
<1>2. dir \in Dir
  BY ProjectAssumption
<1>3. stage \in {"check", "convert", "locate"}
  OBVIOUS
<1>4. cmd \in [Cmd -> CommandType] /\ disk' = disk
  BY ProjectTypes DEF ProjectInv, Start
<1>5. new \in CommandType /\ new.asked = req /\ new.dir = dir /\ new.stage = stage
  <2> HIDE DEF dir, stage
  <2> QED BY <1>2, <1>3 DEF CommandType, Idle, Stages
<1>6. cmd' = [cmd EXCEPT ![c] = new]
  BY <1>1
<1> HIDE DEF new, dir, stage
<1>7. cmd' \in [Cmd -> CommandType] /\ cmd'[c] = new /\ Others(c)
  BY <1>4, <1>5, <1>6 DEF Others
<1>8. CmdInv(c)'
  BY <1>2, <1>3, <1>5, <1>7 DEF CmdInv, Attended, Loaded, Prepared, Busy, asked
<1> QED BY <1>4, <1>7, <1>8, ReadingStep

(* ensure_writable writes nothing. *)
LEMMA CheckInv ==
  ASSUME ProjectInv, NEW c \in Cmd, Check(c)
  PROVE  ProjectInv'
<1>1. CASE Step(c, "check", "audit")
  <2>1. cmd \in [Cmd -> CommandType] /\ "audit" \in Stages
    BY ProjectTypes DEF ProjectInv, Stages
  <2>2. /\ cmd[c].stage = "check" /\ cmd' \in [Cmd -> CommandType] /\ Others(c)
        /\ cmd'[c].stage = "audit"
        /\ cmd'[c].asked = cmd[c].asked /\ cmd'[c].dir = cmd[c].dir
    BY <1>1, <2>1, StepEffect
  <2>3. CmdInv(c)'
    BY <2>2, AtWork DEF CmdInv, Attended, Loaded, Prepared, Busy, asked
  <2> QED BY <2>2, <2>3, ReadingStep DEF Check
<1>2. CASE Step(c, "check", "refused")
  BY <1>2, Ending DEF Check
<1> QED BY <1>1, <1>2 DEF Check

(* The files of init are written in the order that keeps flow.toml from    *)
(* standing alone.                                                         *)
LEMMA WriteFilesInv ==
  ASSUME ProjectInv, NEW c \in Cmd, WriteFiles(c)
  PROVE  ProjectInv'
<1> USE DEF Write, Refuse
<1>1. disk \in [File -> ContentType] /\ cmd \in [Cmd -> CommandType]
  BY ProjectTypes DEF ProjectInv
<1>2. {"audit", "secrets", "flow", "ignore"} \subseteq Stages \cap Name
  BY DEF Stages, Name
<1>3. Template("init") \in ContentType /\ Template("init").by = "init"
  BY DEF Template, ContentType
<1>4. CASE Step(c, "audit", "secrets") /\ disk' = [disk EXCEPT ![At(c, "audit")] = Template("init")]
  <2>1. /\ cmd[c].stage = "audit" /\ cmd' \in [Cmd -> CommandType] /\ Others(c)
        /\ cmd'[c].stage = "secrets"
        /\ cmd'[c].asked = cmd[c].asked /\ cmd'[c].dir = cmd[c].dir
    BY <1>1, <1>2, <1>4, StepEffect
  <2>2. asked(c) \in Requests /\ cmd[c].dir \in Dir /\ At(c, "audit") \in File
    BY <1>2, <2>1, AtWork DEF Busy
  <2>3. Present(At(c, "audit"))'
    BY <1>1, <1>3, <1>4, <2>1, <2>2, WriteEffect DEF At, Present
  <2>4. CmdInv(c)'
    BY <2>1, <2>2, <2>3 DEF CmdInv, Attended, Loaded, Prepared, Busy, asked
  <2>5. \A dir \in Dir, n \in {"flow", "ci"} : At(c, "audit") # <<dir, n>>
    BY DEF At
  <2> QED BY <1>3, <1>4, <2>1, <2>2, <2>4, <2>5, WritingStep
<1>5. CASE Step(c, "secrets", "flow") /\ disk' = [disk EXCEPT ![At(c, "secrets")] = Template("init")]
  <2>1. /\ cmd[c].stage = "secrets" /\ cmd' \in [Cmd -> CommandType] /\ Others(c)
        /\ cmd'[c].stage = "flow"
        /\ cmd'[c].asked = cmd[c].asked /\ cmd'[c].dir = cmd[c].dir
    BY <1>1, <1>2, <1>5, StepEffect
  <2>2. /\ asked(c) \in Requests /\ cmd[c].dir \in Dir
        /\ At(c, "secrets") \in File /\ At(c, "audit") \in File
    BY <1>2, <2>1, AtWork DEF Busy
  <2>3. Grows /\ Present(At(c, "secrets"))'
    BY <1>1, <1>3, <1>5, <2>1, <2>2, WriteEffect DEF At, Present
  <2>4. Present(At(c, "audit"))'
    <3>1. Present(At(c, "audit"))
      BY <2>1 DEF ProjectInv, CmdInv, Prepared
    <3> QED BY <2>1, <2>2, <2>3, <3>1 DEF Grows, At, Present
  <2>5. CmdInv(c)'
    BY <2>1, <2>2, <2>3, <2>4 DEF CmdInv, Attended, Loaded, Prepared, Busy, asked
  <2>6. \A dir \in Dir, n \in {"flow", "ci"} : At(c, "secrets") # <<dir, n>>
    BY DEF At
  <2> QED BY <1>3, <1>5, <2>1, <2>2, <2>5, <2>6, WritingStep
<1>6. CASE /\ Step(c, "flow", "ignore")
           /\ disk' = [disk EXCEPT ![At(c, "flow")] = [by |-> "init", config |-> Preset]]
  <2> DEFINE content == [by |-> "init", config |-> Preset]
  <2>1. /\ cmd[c].stage = "flow" /\ cmd' \in [Cmd -> CommandType] /\ Others(c)
        /\ cmd'[c].stage = "ignore"
        /\ cmd'[c].asked = cmd[c].asked /\ cmd'[c].dir = cmd[c].dir
    BY <1>1, <1>2, <1>6, StepEffect
  <2>2. /\ asked(c) \in Requests /\ cmd[c].dir \in Dir
        /\ \A n \in {"audit", "secrets", "flow"} : At(c, n) \in File
    BY <1>2, <2>1, AtWork DEF Busy
  <2>3. content \in ContentType /\ content.by = "init" /\ content.config = Preset
    BY DEF ContentType, Configs
  <2> HIDE DEF content
  <2>4. disk' = [disk EXCEPT ![At(c, "flow")] = content]
    BY <1>6 DEF content
  <2>5. Grows
    BY <1>1, <2>2, <2>3, <2>4, WriteEffect
  <2>6. Present(At(c, "audit"))' /\ Present(At(c, "secrets"))'
    <3>1. Present(At(c, "audit")) /\ Present(At(c, "secrets"))
      BY <2>1 DEF ProjectInv, CmdInv, Prepared
    <3> QED BY <2>1, <2>2, <2>5, <3>1 DEF Grows, At, Present
  <2>7. CmdInv(c)'
    BY <2>1, <2>2 DEF CmdInv, Attended, Loaded, Prepared, Busy, asked
  <2>8. ASSUME NEW dir \in Dir, NEW n \in {"flow", "ci"}, At(c, "flow") = <<dir, n>>
        PROVE  Complete(dir, content)'
    <3>1. cmd'[c].dir = dir
      BY <2>1, <2>8 DEF At
    <3> QED BY <2>3, <2>6, <3>1 DEF Complete, At, Present
  <2> QED BY <2>1, <2>2, <2>3, <2>4, <2>7, <2>8, WritingStep
<1>7. CASE \E from : Step(c, from, "refused") /\ UNCHANGED disk
  BY <1>7, Ending
<1> QED BY <1>4, <1>5, <1>6, <1>7 DEF WriteFiles

(* A .gitignore is not read again. *)
LEMMA WriteIgnoreInv ==
  ASSUME ProjectInv, NEW c \in Cmd, WriteIgnore(c)
  PROVE  ProjectInv'
<1>1. disk \in [File -> ContentType] /\ cmd \in [Cmd -> CommandType]
  BY ProjectTypes DEF ProjectInv
<1>2. CASE Step(c, "ignore", "over") /\ disk' = [disk EXCEPT ![At(c, "ignore")] = Template("init")]
  <2>1. Template("init") \in ContentType /\ Template("init").by = "init"
    BY DEF Template, ContentType
  <2>2. /\ cmd[c].stage = "ignore" /\ cmd' \in [Cmd -> CommandType] /\ Others(c)
        /\ cmd'[c].stage = "over"
    BY <1>1, <1>2, StepEffect DEF Stages
  <2>3. At(c, "ignore") \in File
    BY <2>2, AtWork DEF Busy, Name
  <2>4. \A dir \in Dir, n \in {"flow", "ci"} : At(c, "ignore") # <<dir, n>>
    BY DEF At
  <2> QED BY <1>2, <2>1, <2>2, <2>3, <2>4, CommandOver, WritingStep
<1>3. CASE (\E to \in {"over", "refused"} : Step(c, "ignore", to)) /\ disk' = disk
  BY <1>3, Ending
<1> QED BY <1>2, <1>3 DEF WriteIgnore, Write, Refuse

-----------------------------------------------------------------------------
(* migrate *)

(* migrate_v1 names the one secrets file it knows. *)
LEMMA MigratedConfig ==
  ASSUME NEW old \in Legacies
  PROVE  MigrateV1(old) \in Configs /\ MigrateV1(old).secrets = "secrets"
<1>1. MigrateV1(old) \in Configs
  BY DEF Configs
<1>2. MigrateV1(old).secrets = "secrets"
  BY DEF MigrateV1
<1> QED BY <1>1, <1>2

(* What is converted is validated before anything is written. *)
LEMMA ConvertInv ==
  ASSUME ProjectInv, NEW c \in Cmd, Convert(c)
  PROVE  ProjectInv'
<1>1. cmd \in [Cmd -> CommandType] /\ cmd[c].stage = "convert" /\ disk' = disk
  BY ProjectTypes DEF ProjectInv, Convert
<1>2. CASE Step(c, "convert", "refused")
  BY <1>1, <1>2, Ending
<1>3. CASE ~Step(c, "convert", "refused")
  <2>1. PICK old : /\ old \in Legacies /\ Validate(MigrateV1(old))
                   /\ cmd' = [cmd EXCEPT ![c].stage = "fill", ![c].config = MigrateV1(old)]
    BY <1>3 DEF Convert
  <2> DEFINE new == MigrateV1(old)
  <2>2. new \in Configs /\ new.secrets = "secrets" /\ Validate(new)
    BY <2>1, MigratedConfig
  <2>3. cmd' = [cmd EXCEPT ![c].stage = "fill", ![c].config = new]
    BY <2>1
  <2> HIDE DEF new
  <2>4. /\ cmd' \in [Cmd -> CommandType] /\ Others(c)
        /\ cmd'[c].stage = "fill" /\ cmd'[c].config = new
        /\ cmd'[c].asked = cmd[c].asked /\ cmd'[c].dir = cmd[c].dir
    BY <1>1, <2>2, <2>3 DEF CommandType, Others, Stages
  <2>5. asked(c) \in Requests /\ cmd[c].dir \in Dir
    BY <1>1, AtWork DEF Busy
  <2>6. CmdInv(c)'
    BY <2>2, <2>4, <2>5 DEF CmdInv, Attended, Loaded, Prepared, Busy, asked
  <2> QED BY <1>1, <2>4, <2>6, ReadingStep
<1> QED BY <1>2, <1>3

(* The secret rules are there before the workflow file is. *)
LEMMA FillInv ==
  ASSUME ProjectInv, NEW c \in Cmd, Fill(c)
  PROVE  ProjectInv'
<1>1. disk \in [File -> ContentType] /\ cmd \in [Cmd -> CommandType] /\ cmd[c].stage = "fill"
  BY ProjectTypes DEF ProjectInv, Fill
<1>2. asked(c) \in Requests /\ cmd[c].dir \in Dir /\ At(c, "secrets") \in File
  BY <1>1, AtWork DEF Busy, Name
<1>3. /\ cmd[c].config \in Configs /\ Validate(cmd[c].config)
      /\ cmd[c].config.secrets = "secrets"
  BY <1>1 DEF ProjectInv, CmdInv, Prepared
<1>4. ASSUME Step(c, "fill", "output")
      PROVE  /\ cmd' \in [Cmd -> CommandType] /\ Others(c) /\ cmd'[c].stage = "output"
             /\ cmd'[c].asked = cmd[c].asked /\ cmd'[c].dir = cmd[c].dir
             /\ cmd'[c].config = cmd[c].config
  BY <1>1, <1>4, StepEffect DEF Stages
<1>5. ASSUME Step(c, "fill", "output"), Present(At(c, "secrets"))' PROVE CmdInv(c)'
  BY <1>2, <1>3, <1>4, <1>5 DEF CmdInv, Attended, Loaded, Prepared, Busy, asked
<1>6. CASE Step(c, "fill", "output") /\ disk' = disk /\ Present(At(c, "secrets"))
  <2>1. Present(At(c, "secrets"))'
    BY <1>4, <1>6 DEF Present, At
  <2> QED BY <1>4, <1>5, <1>6, <2>1, ReadingStep
<1>7. CASE /\ Step(c, "fill", "output")
           /\ disk' = [disk EXCEPT ![At(c, "secrets")] = Template("migrate")]
  <2>1. Template("migrate") \in ContentType /\ Template("migrate").by = "migrate"
    BY DEF Template, ContentType
  <2>2. Present(At(c, "secrets"))'
    BY <1>1, <1>2, <1>4, <1>7, <2>1, WriteEffect DEF At, Present
  <2>3. \A dir \in Dir, n \in {"flow", "ci"} : At(c, "secrets") # <<dir, n>>
    BY DEF At
  <2> QED BY <1>2, <1>4, <1>5, <1>7, <2>1, <2>2, <2>3, WritingStep
<1>8. CASE Step(c, "fill", "refused") /\ disk' = disk
  BY <1>8, Ending
<1> QED BY <1>6, <1>7, <1>8 DEF Fill, Write, Refuse

(* The workflow file comes last, wherever it is to go. *)
LEMMA WriteOutputInv ==
  ASSUME ProjectInv, NEW c \in Cmd, WriteOutput(c)
  PROVE  ProjectInv'
<1>1. disk \in [File -> ContentType] /\ cmd \in [Cmd -> CommandType]
  BY ProjectTypes DEF ProjectInv
<1>2. CASE Step(c, "output", "refused") /\ disk' = disk
  BY <1>2, Ending
<1> DEFINE content == [by |-> "migrate", config |-> cmd[c].config]
<1>3. CASE Step(c, "output", "over") /\ disk' = [disk EXCEPT ![Output(c)] = content]
  <2>1. /\ cmd[c].stage = "output" /\ cmd' \in [Cmd -> CommandType] /\ Others(c)
        /\ cmd'[c].stage = "over"
    BY <1>1, <1>3, StepEffect DEF Stages
  <2>2. asked(c) \in Requests /\ cmd[c].dir \in Dir /\ At(c, "secrets") \in File
    BY <2>1, AtWork DEF Busy, Name
  <2>3. Output(c) \in File
    BY <2>2, ProjectAssumption DEF Output, At, File, Name
  <2> DEFINE config == cmd[c].config
             there == At(c, "secrets")
  <2>4. config \in Configs /\ Validate(config) /\ config.secrets = "secrets" /\ Present(there)
    BY <2>1 DEF ProjectInv, CmdInv, Prepared
  <2>5. PICK written \in ContentType : written = content
    BY <2>4 DEF ContentType
  <2>6. written.by = "migrate" /\ written.config = config
    BY <2>5
  <2>7. disk' = [disk EXCEPT ![Output(c)] = written]
    BY <1>3, <2>5
  <2>8. PICK file \in File : file = Output(c)
    BY <2>3
  <2>9. disk' = [disk EXCEPT ![file] = written]
    BY <2>7, <2>8
  <2>10. Grows
    BY <1>1, <2>6, <2>9, WriteEffect
  <2>11. disk'[there] # Absent
    BY <2>2, <2>4, <2>10 DEF Grows, Present
  <2>12. ASSUME NEW dir \in Dir, NEW n \in {"flow", "ci"}, file = <<dir, n>>
         PROVE  Complete(dir, written)'
    <3>1. there = <<dir, "secrets">>
      BY <2>8, <2>12 DEF Output, At
    <3>2. disk'[<<dir, "secrets">>] # Absent
      BY <2>11, <3>1
    <3>3. Validate(written.config) /\ written.config.secrets = "secrets" /\ written.by = "migrate"
      BY <2>4, <2>6
    <3> QED BY <3>2, <3>3 DEF Complete, Present
  <2>13. CmdInv(c)'
    BY <2>1, CommandOver
  <2> QED BY <2>1, <2>6, <2>9, <2>12, <2>13, WritingStep
<1> QED BY <1>2, <1>3 DEF WriteOutput, Write, Refuse

-----------------------------------------------------------------------------
(* The commands that use a configuration *)

(* Project::discover reads nothing but whether files are there. *)
LEMMA LocateInv ==
  ASSUME ProjectInv, NEW c \in Cmd, Locate(c)
  PROVE  ProjectInv'
<1>1. cmd \in [Cmd -> CommandType] /\ cmd[c].stage = "locate" /\ disk' = disk
  BY ProjectTypes DEF ProjectInv, Locate
<1>2. asked(c) \in Requests
  BY <1>1, AtWork DEF Busy
<1> DEFINE req == asked(c)
           root == IF req.root # None THEN req.root ELSE FindRoot(req.cwd, req.config)
           name == IF req.config # None THEN req.config ELSE "flow"
<1>3. CASE Step(c, "locate", "refused")
  BY <1>1, <1>3, Ending
<1>4. CASE ~Step(c, "locate", "refused")
  <2>1. /\ root # None
        /\ cmd' = [cmd EXCEPT ![c].stage = "load", ![c].dir = root, ![c].file = <<root, name>>]
    BY <1>4 DEF Locate
  <2>2. root \in Dir
    <3>1. req.root \in Dir \cup {None} /\ req.cwd \in Dir
      BY <1>2, ProjectAssumption
    <3>2. FindRoot(req.cwd, req.config) \in {req.cwd, "root", None}
      BY DEF FindRoot
    <3> QED BY <2>1, <3>1, <3>2 DEF Dir
  <2>3. name \in Name
    BY <1>2, ProjectAssumption DEF Name
  <2> HIDE DEF root, name
  <2>4. <<root, name>> \in File
    BY <2>2, <2>3 DEF File
  <2>5. PICK dir \in Dir, file \in File :
           cmd' = [cmd EXCEPT ![c].stage = "load", ![c].dir = dir, ![c].file = file]
    BY <2>1, <2>2, <2>4
  <2>6. /\ cmd' \in [Cmd -> CommandType] /\ Others(c)
        /\ cmd'[c].stage = "load" /\ cmd'[c].dir = dir /\ cmd'[c].asked = cmd[c].asked
    <3> DEFINE new == [cmd[c] EXCEPT !.stage = "load", !.dir = dir, !.file = file]
    <3>1. new \in CommandType /\ new.stage = "load" /\ new.dir = dir /\ new.asked = cmd[c].asked
      <4>1. cmd[c] \in CommandType
        BY <1>1
      <4> QED BY <4>1 DEF CommandType, Stages
    <3>2. cmd' = [cmd EXCEPT ![c] = new]
      BY <2>5
    <3> HIDE DEF new
    <3> QED BY <1>1, <3>1, <3>2 DEF Others
  <2>7. CmdInv(c)'
    BY <1>2, <2>6 DEF CmdInv, Attended, Loaded, Prepared, Busy, asked
  <2> QED BY <1>1, <2>6, <2>7, ReadingStep
<1> QED BY <1>3, <1>4

(* FlowConfig::load validates what the environment has made of the file. *)
LEMMA LoadInv ==
  ASSUME ProjectInv, NEW c \in Cmd, Load(c)
  PROVE  ProjectInv'
<1>1. cmd \in [Cmd -> CommandType] /\ cmd[c].stage = "load" /\ disk' = disk
  BY ProjectTypes DEF ProjectInv, Load
<1>2. asked(c) \in Requests /\ cmd[c].dir \in Dir
  BY <1>1, AtWork DEF Busy
<1>3. CASE Step(c, "load", "refused")
  BY <1>1, <1>3, Ending
<1>4. CASE ~Step(c, "load", "refused")
  <2>1. PICK old \in Configs :
          /\ Accepted(old, asked(c).env)
          /\ cmd' = [cmd EXCEPT ![c].stage = "resolve",
                                ![c].config = ApplyEnvironment(old, asked(c).env)]
    BY <1>4 DEF Load
  <2>2. PICK env \in Environment : env = asked(c).env
    BY <1>2 DEF Environment
  <2> DEFINE new == ApplyEnvironment(old, env)
  <2>3. Validate(new) /\ new \in Effective
    BY <2>1, <2>2 DEF Accepted, Effective
  <2>4. cmd' = [cmd EXCEPT ![c].stage = "resolve", ![c].config = new]
    BY <2>1, <2>2
  <2>5. new = ApplyEnvironment(old, env)
    OBVIOUS
  <2> HIDE DEF new
  <2>6. /\ cmd' \in [Cmd -> CommandType] /\ Others(c)
        /\ cmd'[c].stage = "resolve" /\ cmd'[c].config = new
        /\ cmd'[c].asked = cmd[c].asked /\ cmd'[c].dir = cmd[c].dir
    BY <1>1, <2>3, <2>4 DEF CommandType, Others, Stages
  <2>7. Loaded(c)'
    BY <2>2, <2>3, <2>5, <2>6 DEF Loaded, asked
  <2>8. CmdInv(c)'
    BY <1>2, <2>6, <2>7 DEF CmdInv, Attended, Prepared, Busy, asked
  <2> QED BY <1>1, <2>6, <2>8, ReadingStep
<1> QED BY <1>3, <1>4

(* Project::validate adds that the rule files are there. *)
LEMMA ResolveInv ==
  ASSUME ProjectInv, NEW c \in Cmd, Resolve(c)
  PROVE  ProjectInv'
<1>1. cmd \in [Cmd -> CommandType] /\ cmd[c].stage = "resolve" /\ disk' = disk
  BY ProjectTypes DEF ProjectInv, Resolve
<1>2. asked(c) \in Requests /\ cmd[c].dir \in Dir
  BY <1>1, AtWork DEF Busy
<1>3. CASE Step(c, "resolve", "refused")
  BY <1>1, <1>3, Ending
<1>4. CASE Step(c, "resolve", "using")
  <2>1. /\ cmd' \in [Cmd -> CommandType] /\ Others(c) /\ cmd'[c].stage = "using"
        /\ cmd'[c].config = cmd[c].config
        /\ cmd'[c].asked = cmd[c].asked /\ cmd'[c].dir = cmd[c].dir
    BY <1>1, <1>4, StepEffect DEF Stages
  <2>2. Loaded(c)'
    BY <1>1, <2>1 DEF ProjectInv, CmdInv, Loaded, asked
  <2>3. CmdInv(c)'
    BY <1>2, <2>1, <2>2 DEF CmdInv, Attended, Prepared, Busy, asked
  <2> QED BY <1>1, <2>1, <2>3, ReadingStep
<1> QED BY <1>3, <1>4 DEF Resolve

(* The user's own file is nobody else's to answer for. *)
LEMMA EditInv ==
  ASSUME ProjectInv, Edit
  PROVE  ProjectInv'
<1>1. disk \in [File -> ContentType] /\ cmd \in [Cmd -> CommandType] /\ cmd' = cmd
  BY ProjectTypes DEF ProjectInv, Edit
<1>2. PICK config \in Edits :
        disk' = [disk EXCEPT ![<<"root", "flow">>] = [by |-> "user", config |-> config]]
  BY DEF Edit
<1> DEFINE content == [by |-> "user", config |-> config]
<1>3. content \in ContentType /\ content.by = "user" /\ <<"root", "flow">> \in File
  BY ProjectAssumption DEF ContentType, Configs, File, Name, Dir
<1>4. disk' = [disk EXCEPT ![<<"root", "flow">>] = content]
  BY <1>2
<1> HIDE DEF content
<1>5. /\ disk' \in [File -> ContentType] /\ Grows /\ disk'[<<"root", "flow">>] = content
      /\ \A f \in File \ {<<"root", "flow">>} : disk'[f] = disk[f]
  BY <1>1, <1>3, <1>4, WriteEffect
<1>6. TypeOK'
  BY <1>1, <1>5 DEF TypeOK, CommandType, ContentType
<1>7. ASSUME NEW d \in Cmd PROVE CmdInv(d)'
  BY <1>1, <1>5, CommandKept DEF ProjectInv
<1>8. ASSUME NEW dir \in Dir, NEW n \in {"flow", "ci"} PROVE Complete(dir, disk[<<dir, n>>])'
  <2>1. CASE <<dir, n>> = <<"root", "flow">>
    BY <1>3, <1>5, <2>1 DEF Complete
  <2>2. CASE <<dir, n>> # <<"root", "flow">>
    <3>1. <<dir, n>> \in File
      BY DEF File, Name
    <3> QED BY <1>5, <2>2, <3>1, FileKept DEF ProjectInv
  <2> QED BY <2>1, <2>2
<1> QED BY <1>6, <1>7, <1>8 DEF ProjectInv

-----------------------------------------------------------------------------
(* The theorems *)

(* The invariant holds to begin with: nothing is arc-flow's yet. *)
LEMMA ProjectInitially == Init => ProjectInv
<1> SUFFICES ASSUME Init PROVE ProjectInv
  OBVIOUS
<1>1. PICK there \in SUBSET {<<"root", n>> : n \in {"flow", "ci", "audit", "secrets", "v1audit"}},
          mine \in UserConfigs, old \in Legacies :
        disk = [f \in File |->
            IF f = <<"root", "v1">> THEN [by |-> "user", config |-> old]
            ELSE IF f \notin there THEN Absent
            ELSE [by |-> "user", config |-> IF f[2] \in {"flow", "ci"} THEN mine ELSE None]]
  BY DEF Init
<1>2. ASSUME NEW f \in File
      PROVE  disk[f] \in ContentType /\ disk[f].by \notin {"init", "migrate"}
  <2>1. [by |-> "user", config |-> old] \in ContentType
    BY DEF ContentType
  <2>2. Absent \in ContentType
    BY DEF ContentType, Absent
  <2>3. ASSUME NEW config \in {mine, None} PROVE [by |-> "user", config |-> config] \in ContentType
    BY DEF ContentType, Configs
  <2> QED BY <1>1, <2>1, <2>2, <2>3 DEF Absent
<1>3. disk \in [File -> ContentType]
  BY <1>1, <1>2
<1>4. cmd = [c \in Cmd |-> Idle]
  BY DEF Init
<1>5. Idle \in CommandType /\ Idle.stage = "idle"
  BY DEF CommandType, Idle, Stages
<1>6. TypeOK
  BY <1>3, <1>4, <1>5, ProjectTypes
<1>7. \A c \in Cmd : CmdInv(c)
  BY <1>4, <1>5 DEF CmdInv, Attended, Loaded, Prepared, Busy
<1>8. ASSUME NEW dir \in Dir, NEW n \in {"flow", "ci"} PROVE Complete(dir, disk[<<dir, n>>])
  BY <1>2 DEF Complete, File, Name
<1> QED BY <1>6, <1>7, <1>8 DEF ProjectInv

(* Every step keeps it. *)
LEMMA ProjectSteps == ProjectInv /\ [Next]_vars => ProjectInv'
<1> SUFFICES ASSUME ProjectInv, [Next]_vars PROVE ProjectInv'
  OBVIOUS
<1>1. CASE UNCHANGED vars
  BY <1>1 DEF vars, ProjectInv, TypeOK, CmdInv, Attended, Loaded, Prepared, Complete, Busy,
              Present, At, asked
<1>2. ASSUME NEW c \in Cmd, Kill(c) PROVE ProjectInv'
  BY <1>2, Ending DEF Kill
<1> QED BY <1>1, <1>2, StartInv, CheckInv, WriteFilesInv, WriteIgnoreInv, ConvertInv, FillInv,
           WriteOutputInv, LocateInv, LoadInv, ResolveInv, EditInv DEF Next

(* The invariant of the configuration and its commands. *)
THEOREM ProjectInvariant == Spec => []ProjectInv
  BY ProjectInitially, ProjectSteps, PTL DEF Spec

(* A workflow file that init or migrate wrote is accepted, and its rule    *)
(* files are next to it, at every moment.                                  *)
THEOREM ProjectWrittenLoads == Spec => []WrittenLoads
<1>1. ASSUME ProjectInv PROVE WrittenLoads
  <2> SUFFICES ASSUME NEW dir \in Dir, NEW n \in {"flow", "ci"},
                      disk[<<dir, n>>].by \in {"init", "migrate"}
               PROVE  LET file == disk[<<dir, n>>] IN
                      /\ Validate(file.config)
                      /\ Present(<<dir, file.config.secrets>>)
                      /\ file.by = "init" => Present(<<dir, file.config.audit>>)
    BY DEF WrittenLoads
  <2>1. Complete(dir, disk[<<dir, n>>])
    BY <1>1 DEF ProjectInv
  <2> QED BY <2>1, ProjectAssumption DEF Complete
<1> QED BY <1>1, ProjectInvariant, PTL

(* The shape of every configuration, the migrated ones included *)
LEMMA ConfigShape ==
  ASSUME NEW c \in Configs
  PROVE  IsConfig(c)
<1>1. CASE c \in UserConfigs \cup {Preset}
  BY <1>1, ProjectAssumption
<1>2. ASSUME NEW old \in Legacies PROVE IsConfig(MigrateV1(old))
  <2> DEFINE new == MigrateV1(old)
  <2>1. HasFields(new, {"version", "default", "hook", "audit", "secrets", "aliases", "services",
                        "parsers", "rules", "steps", "required", "checks"})
    BY DEF HasFields, MigrateV1
  <2>2. new.services = [s \in {"test-postgres"} |-> MigratedService(old)]
    BY DEF MigrateV1
  <2>3. new.steps = [i \in DOMAIN old.steps |-> MigratedStep(old.steps[i])]
    BY DEF MigrateV1
  <2>4. HasFields(MigratedService(old), {"docker", "timeout", "timeoutEnv", "inject"})
    BY DEF HasFields, MigratedService
  <2>5. ASSUME NEW st
        PROVE  HasFields(MigratedStep(st), {"id", "component", "profiles", "cwd", "timeout",
                                            "timeoutEnv", "parser", "services", "remove"})
    BY DEF HasFields, MigratedStep
  <2> HIDE DEF new
  <2>6. IsConfig(new)
    BY <2>1, <2>2, <2>3, <2>4, <2>5 DEF IsConfig
  <2> QED BY <2>6 DEF new
<1> QED BY <1>1, <1>2 DEF Configs

(* apply_environment leaves nothing of the environment to apply. *)
LEMMA EnvironmentApplied ==
  ASSUME NEW c, IsConfig(c), NEW env
  PROVE  LET new == ApplyEnvironment(c, env) IN
         \A i \in DOMAIN new.steps :
            Override(env, new.steps[i].timeoutEnv, new.steps[i].timeout) = new.steps[i].timeout
<1> DEFINE new == ApplyEnvironment(c, env)
           changed == [i \in DOMAIN c.steps |->
              [c.steps[i] EXCEPT !.timeout = Override(env, c.steps[i].timeoutEnv, @)]]
<1>1. c = [x \in {"version", "default", "hook", "audit", "secrets", "aliases", "services",
                  "parsers", "rules", "steps", "required", "checks"} |-> c[x]]
  BY DEF IsConfig, HasFields
<1>2. new.steps = changed
  <2> DEFINE audit == Override(env, "ARC_FLOW_AUDIT_CONFIG", Override(env, "AUDITOR_CONFIG", c.audit))
             secrets == Override(env, "ARC_FLOW_SECRETS_CONFIG", c.secrets)
             services == [s \in DOMAIN c.services |->
                [c.services[s] EXCEPT !.timeout = Override(env, c.services[s].timeoutEnv, @)]]
  <2>1. new = [c EXCEPT !.audit = audit, !.secrets = secrets, !.services = services,
                           !.steps = changed]
    BY DEF ApplyEnvironment
  <2> HIDE DEF new, changed, audit, secrets, services
  <2>2. "steps" \in DOMAIN c
    BY <1>1
  <2> QED BY <2>1, <2>2
<1>3. ASSUME NEW i \in DOMAIN c.steps
      PROVE  /\ changed[i].timeoutEnv = c.steps[i].timeoutEnv
             /\ changed[i].timeout = Override(env, c.steps[i].timeoutEnv, c.steps[i].timeout)
  <2> DEFINE st == c.steps[i]
  <2>1. st = [x \in {"id", "component", "profiles", "cwd", "timeout", "timeoutEnv",
                     "parser", "services", "remove"} |-> st[x]]
    BY DEF IsConfig, HasFields
  <2> QED BY <2>1
<1>4. DOMAIN changed = DOMAIN c.steps
  OBVIOUS
<1> HIDE DEF new, changed
<1>5. \A i \in DOMAIN new.steps :
        Override(env, new.steps[i].timeoutEnv, new.steps[i].timeout) = new.steps[i].timeout
  BY <1>2, <1>3, <1>4 DEF Override
<1> QED BY <1>5 DEF new

(* A variable is injected by one service of a step only. *)
LEMMA OneInjects ==
  ASSUME NEW c, NEW st, ValidateStep(c, st), NEW j \in DOMAIN st.services
  PROVE  ServiceOf(c, st)[c.services[st.services[j]].inject] = {st.services[j]}
<1> DEFINE D == DOMAIN st.services
           inject == [i \in D |-> c.services[st.services[i]].inject]
           v == c.services[st.services[j]].inject
           same == {i \in D : c.services[st.services[i]].inject = v}
<1>1. \A i, k \in D : inject[i] = inject[k] => i = k
  <2>1. NoDuplicates(inject) /\ DOMAIN inject = D
    BY DEF ValidateStep
  <2> QED BY <2>1 DEF NoDuplicates
<1>2. \A i \in same : i = j
  BY <1>1
<1>3. j \in same
  OBVIOUS
<1>4. {st.services[i] : i \in same} = {st.services[j]}
  <2> HIDE DEF same
  <2> QED BY <1>2, <1>3
<1>5. v \in {c.services[st.services[i]].inject : i \in D}
  OBVIOUS
<1>6. v \notin st.remove
  BY DEF ValidateStep
<1> QED BY <1>4, <1>5, <1>6 DEF ServiceOf

(* A number of a range that begins with one *)
LEMMA PositiveInRange ==
  ASSUME NEW n \in Nat, NEW t \in 1..n
  PROVE  t > 0
  OBVIOUS

(* What LoadedIsRunnable says of a step *)
Runs(c, st) ==
    /\ st.timeout > 0
    /\ \A j \in DOMAIN st.services : LET s == st.services[j] IN
          /\ s \in DOMAIN c.services
          /\ c.services[s].docker => c.services[s].timeout > 0
          /\ ServiceOf(c, st)[c.services[s].inject] = {s}

(* What validate_steps promises of a step *)
LEMMA ValidStep ==
  ASSUME NEW c, NEW st, ValidateStep(c, st), ValidateServices(c)
  PROVE  Runs(c, st)
<1>1. st.timeout > 0
  <2>1. PICK t : t = st.timeout
    OBVIOUS
  <2>2. t \in 1..3600
    BY <2>1 DEF ValidateStep
  <2>3. t > 0
    BY <2>2
  <2> QED BY <2>1, <2>3
<1>2. ASSUME NEW j \in DOMAIN st.services
      PROVE  LET s == st.services[j] IN
             /\ s \in DOMAIN c.services
             /\ c.services[s].docker => c.services[s].timeout > 0
             /\ ServiceOf(c, st)[c.services[s].inject] = {s}
  <2>1. PICK s : s = st.services[j]
    OBVIOUS
  <2>2. s \in DOMAIN c.services
    BY <2>1 DEF ValidateStep
  <2>3. c.services[s].docker => c.services[s].timeout > 0
    <3>1. c.services[s].docker => c.services[s].timeout \in 1..300
      BY <2>2 DEF ValidateServices
    <3> QED BY <3>1, PositiveInRange
  <2>4. ServiceOf(c, st)[c.services[s].inject] = {s}
    BY <2>1, OneInjects
  <2> QED BY <2>1, <2>2, <2>3, <2>4
<1> QED BY <1>1, <1>2 DEF Runs

(* What a validated configuration promises of each of its steps *)
LEMMA ValidStepRuns ==
  ASSUME NEW c, Validate(c), NEW i \in DOMAIN c.steps
  PROVE  Runs(c, c.steps[i])
<1>1. ValidateStep(c, c.steps[i]) /\ ValidateServices(c)
  BY DEF Validate, ValidateSteps
<1> QED BY <1>1, ValidStep

(* And of what its parts refer to *)
LEMMA ValidRefers ==
  ASSUME NEW c, Validate(c)
  PROVE  /\ \A i \in DOMAIN c.rules : \A comp \in c.rules[i] :
               \E j \in DOMAIN c.steps : c.steps[j].component = comp
         /\ \A profile \in {c.default, c.hook} :
               \E j \in DOMAIN c.steps : profile \in c.steps[j].profiles
         /\ \A i \in DOMAIN c.required : \E j \in DOMAIN c.steps : c.steps[j].id = c.required[i]
<1>1. \A i \in DOMAIN c.rules : c.rules[i] \subseteq Components(c)
  BY DEF Validate, ValidateScope
<1>2. /\ c.default \in Profiles(c) /\ c.hook \in Profiles(c)
      /\ \A i \in DOMAIN c.required : c.required[i] \in Ids(c)
  BY DEF Validate, ValidateSteps
<1>3. \A i \in DOMAIN c.rules : \A comp \in c.rules[i] :
        \E j \in DOMAIN c.steps : c.steps[j].component = comp
  BY <1>1 DEF Components
<1>4. \A profile \in {c.default, c.hook} :
        \E j \in DOMAIN c.steps : profile \in c.steps[j].profiles
  BY <1>2 DEF Profiles
<1>5. \A i \in DOMAIN c.required : \E j \in DOMAIN c.steps : c.steps[j].id = c.required[i]
  BY <1>2 DEF Ids
<1> QED BY <1>3, <1>4, <1>5

(* A verification can rely on its configuration, whatever the file and the *)
(* environment say.                                                        *)
THEOREM ProjectLoadedIsRunnable == Spec => []LoadedIsRunnable
<1>1. ASSUME ProjectInv PROVE LoadedIsRunnable
  <2>1. ASSUME NEW p \in Cmd, cmd[p].stage = "using"
        PROVE  \A i \in DOMAIN cmd[p].config.steps :
                  Override(asked(p).env, cmd[p].config.steps[i].timeoutEnv,
                           cmd[p].config.steps[i].timeout) = cmd[p].config.steps[i].timeout
    <3>1. PICK old \in Configs : cmd[p].config = ApplyEnvironment(old, asked(p).env)
      BY <1>1, <2>1 DEF ProjectInv, CmdInv, Loaded
    <3> QED BY <3>1, ConfigShape, EnvironmentApplied
  <2>2. ASSUME NEW p \in Cmd, cmd[p].stage = "using" PROVE Validate(cmd[p].config)
    BY <1>1, <2>2 DEF ProjectInv, CmdInv, Loaded
  <2>3. ASSUME NEW p \in Cmd, cmd[p].stage = "using",
               NEW i \in DOMAIN cmd[p].config.steps
        PROVE  Runs(cmd[p].config, cmd[p].config.steps[i])
    BY <2>2, <2>3, ValidStepRuns
  <2>4. ASSUME NEW p \in Cmd, cmd[p].stage = "using"
        PROVE  LET c == cmd[p].config
                   env == asked(p).env
               IN \A i \in DOMAIN c.steps : LET st == c.steps[i] IN
                     /\ st.timeout > 0
                     /\ Override(env, st.timeoutEnv, st.timeout) = st.timeout
                     /\ \A j \in DOMAIN st.services : LET s == st.services[j] IN
                           /\ s \in DOMAIN c.services
                           /\ c.services[s].docker => c.services[s].timeout > 0
                           /\ ServiceOf(c, st)[c.services[s].inject] = {s}
    BY <2>1, <2>3, <2>4, Zenon DEF Runs
  <2>5. ASSUME NEW p \in Cmd, cmd[p].stage = "using"
        PROVE  LET c == cmd[p].config IN
               /\ \A i \in DOMAIN c.rules : \A comp \in c.rules[i] :
                     \E j \in DOMAIN c.steps : c.steps[j].component = comp
               /\ \A profile \in {c.default, c.hook} :
                     \E j \in DOMAIN c.steps : profile \in c.steps[j].profiles
               /\ \A i \in DOMAIN c.required :
                     \E j \in DOMAIN c.steps : c.steps[j].id = c.required[i]
    BY <2>2, <2>5, ValidRefers
  <2> QED BY <2>4, <2>5, Zenon DEF LoadedIsRunnable
<1> QED BY <1>1, ProjectInvariant, PTL

=============================================================================
