----------------------------- MODULE ProjectsMC -----------------------------
(* Who is meant: the addresses of other projects, the saves of conversations, *)
(* the dialogs the phone answers, the link of a desktop to its host; one of *)
(* them in each behaviour.                                                  *)
EXTENDS Addresses, Saves, PhoneAsk, RemoteLink
VARIABLE which

\* Two projects of one name, in different case and at different depths.
DirsMC == {<<"b", "cloud">>, <<"u", "b", "Cloud">>}
LowerMC == [w \in {"b", "cloud", "Cloud", "u", "claude", "deployer", NoLabel} |->
               IF w = "Cloud" THEN "cloud" ELSE w]

ProjectsInit ==
    /\ which \in {"addresses", "saves", "ask", "link"}
    /\ AddressesInit
    /\ SavesInit
    /\ AskInit /\ (which = "ask" \/ shape = [d \in Dialogs |-> CHOOSE s \in Shapes : TRUE])
    /\ LinkInit

ProjectsNext ==
    /\ UNCHANGED which
    /\ \/ which = "addresses" /\ AddressesNext /\ UNCHANGED <<savesVars, askVars, linkVars>>
       \/ which = "saves" /\ SavesNext /\ UNCHANGED <<addressVars, askVars, linkVars>>
       \/ which = "ask" /\ AskNext /\ UNCHANGED <<addressVars, savesVars, linkVars>>
       \/ which = "link" /\ LinkNext /\ UNCHANGED <<addressVars, savesVars, askVars>>
projectsVars == <<which, addressVars, savesVars, askVars, linkVars>>

ProjectsSpec == ProjectsInit /\ [][ProjectsNext]_projectsVars
=============================================================================
