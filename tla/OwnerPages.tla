----------------------------- MODULE OwnerPages -----------------------------
(***************************************************************************)
(* The pages of the web portal where the owner of a registry works: the    *)
(* page that deploys it (CreatePage), and of the admin console the list of *)
(* CAs (AdminConsole) and the settings and announcements (AdminForms).     *)
(* They share nothing but the contracts; a behaviour is about one of them, *)
(* and the others rest.                                                    *)
(***************************************************************************)
EXTENDS AdminConsole, AdminForms, CreatePage

CONSTANT OwnerKinds     \* the pages of this instance

ASSUME OwnerAssumption == OwnerKinds \subseteq {"cas", "settings", "create"}

VARIABLE open

ownerVars == <<open, consoleVars, formsVars, createVars>>

\* Of a page that rests there is one initial state.
OwnerInit ==
  /\ open \in OwnerKinds
  /\ ConsoleInit
  /\ open # "cas" => leaves = (CHOOSE list \in InitialLeaves : TRUE)
  /\ FormInit
  /\ open # "settings" => form = "announcements" /\ stored = {}
  /\ CreateInit
  /\ open # "create" => config = (CHOOSE c \in Charges : TRUE)

CasStep == open = "cas" /\ ConsoleNext /\ UNCHANGED <<open, formsVars, createVars>>
SettingsStep == open = "settings" /\ FormNext /\ UNCHANGED <<open, consoleVars, createVars>>
CreateStep == open = "create" /\ CreateNext /\ UNCHANGED <<open, consoleVars, formsVars>>

OwnerSpec == OwnerInit /\ [][CasStep \/ SettingsStep \/ CreateStep]_ownerVars
=============================================================================
