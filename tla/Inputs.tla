------------------------------- MODULE Inputs -------------------------------
(***************************************************************************)
(* What the program makes of what it is given from outside: configuration  *)
(* files, the texts of commands, OneBot messages and events, and resource  *)
(* packs.  The five parts share no state, so one behaviour visits one of   *)
(* them: at the first three a question is asked and answered by a pure     *)
(* function of the code, the other two are machines of their own.          *)
(***************************************************************************)
EXTENDS ConfigLayers, CommandGrammar, Permissions, OneBotMessages, OneBotService, ResourcePacks

CONSTANTS
  SettingsQuestions, CommandQuestions, MessageQuestions,
  Commands,    \* the registered commands: from paths to schemas and permissions
  NoWorkspace, \* the workspace without resources
  Pending      \* no answer

VARIABLES
  desk,        \* the part this behaviour is about
  asked, answer

qaVars == <<desk, asked, answer>>
vars == <<desk, asked, answer, chatVars, packVars>>

-----------------------------------------------------------------------------
(* Pure answers. *)

\* dispatch: the command a message names, if its author may use it, with its arguments parsed.
DispatchCommand(q) ==
  LET invocation == InvocationOf(q.message, DOMAIN Commands)
      service == PermissionService(q.permissions)
      command == Commands[invocation.path]
  IN  IF ~service.ok THEN [outcome |-> "unavailable"]
      ELSE IF invocation = Absent THEN [outcome |-> "ignored"]
      ELSE IF ~Allowed(service, q.event, command.permission) THEN [outcome |-> "forbidden"]
      ELSE [outcome |-> "called", path |-> invocation.path,
            parsed |-> ParseCommand(invocation.arguments, command.schema)]

\* Both formats of one native message, and the first one sent back.
ConvertMessage(q) ==
  LET portable == Portable(q.array)
  IN  [array |-> portable, cq |-> PortableCq(q.cq),
       back |-> IF portable = Bad THEN Bad ELSE ToOnebot(portable)]

Answer(q, result) == asked' = q /\ answer' = result /\ UNCHANGED <<desk, chatVars, packVars>>

AskSettings == desk = "settings" /\ answer = Pending /\ \E q \in SettingsQuestions : Answer(q, InspectSettings(q))
AskCommand == desk = "commands" /\ answer = Pending /\ \E q \in CommandQuestions : Answer(q, DispatchCommand(q))
AskMessage == desk = "messages" /\ answer = Pending /\ \E q \in MessageQuestions : Answer(q, ConvertMessage(q))

-----------------------------------------------------------------------------
(* Machines. *)

Chat == desk = "chat" /\ ChatNext /\ UNCHANGED <<qaVars, packVars>>

Load == desk = "packs" /\ PackNext /\ UNCHANGED <<qaVars, chatVars>>

Next == AskSettings \/ AskCommand \/ AskMessage \/ Chat \/ Load

\* Where the packs are not what a behaviour is about, the workspace has none.
Init ==
  /\ desk \in {"settings", "commands", "messages", "chat", "packs"}
  /\ asked = Pending /\ answer = Pending
  /\ ChatInit
  /\ \E w \in Workspaces : PackInit(w) /\ (desk = "packs" <=> w # NoWorkspace)

Spec == Init /\ [][Next]_vars
=============================================================================
