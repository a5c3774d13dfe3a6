---------------------------- MODULE MCApplications ----------------------------
(* The applications beside the platform, each component checked alone: subject   *)
(* names the one that runs, the others keep their first state.                   *)
EXTENDS ExpertSignIn, ResearchLibrary, Desktop, ExpertRelease, TLC

VARIABLE subject

Subjects == {"limits", "catalog", "index", "shell", "preferences",
             "expert", "directory", "session", "desk"}

ApplicationsVars == <<SignInVars, catalogVars, indexVars, shellVars, prefsVars, expertVars,
                      directoryVars, sessionVars, deskVars, subject>>

Init ==
    /\ subject \in Subjects
    /\ SignInInit /\ CatalogInit /\ IndexInit /\ ShellInit
    /\ PrefsInit /\ ExpertInit /\ DirectoryInit /\ SessionInit /\ DeskInit
    /\ subject # "preferences" => cookie = "a1"
    /\ ApplicationsVars = ApplicationsVars  \* the functions of the idle parts are evaluated here

Next ==
    /\ UNCHANGED subject
    /\ \/ /\ subject = "limits" /\ SignInNext
          /\ UNCHANGED <<catalogVars, indexVars, shellVars, prefsVars, expertVars,
                         directoryVars, sessionVars, deskVars>>
       \/ /\ subject = "catalog" /\ CatalogNext
          /\ UNCHANGED <<SignInVars, indexVars, shellVars, prefsVars, expertVars,
                         directoryVars, sessionVars, deskVars>>
       \/ /\ subject = "index" /\ IndexNext
          /\ UNCHANGED <<SignInVars, catalogVars, shellVars, prefsVars, expertVars,
                         directoryVars, sessionVars, deskVars>>
       \/ /\ subject = "shell" /\ ShellNext
          /\ UNCHANGED <<SignInVars, catalogVars, indexVars, prefsVars, expertVars,
                         directoryVars, sessionVars, deskVars>>
       \/ /\ subject = "preferences" /\ PrefsNext
          /\ UNCHANGED <<SignInVars, catalogVars, indexVars, shellVars, expertVars,
                         directoryVars, sessionVars, deskVars>>
       \/ /\ subject = "expert" /\ ExpertNext
          /\ UNCHANGED <<SignInVars, catalogVars, indexVars, shellVars, prefsVars,
                         directoryVars, sessionVars, deskVars>>
       \/ /\ subject = "directory" /\ DirectoryNext
          /\ UNCHANGED <<SignInVars, catalogVars, indexVars, shellVars, prefsVars,
                         expertVars, sessionVars, deskVars>>
       \/ /\ subject = "session" /\ SessionNext
          /\ UNCHANGED <<SignInVars, catalogVars, indexVars, shellVars, prefsVars,
                         expertVars, directoryVars, deskVars>>
       \/ /\ subject = "desk" /\ DeskNext
          /\ UNCHANGED <<SignInVars, catalogVars, indexVars, shellVars, prefsVars,
                         expertVars, directoryVars, sessionVars>>

\* Only the part that runs moves: its variables tell the states apart.
Focus ==
    CASE subject = "limits" -> <<subject, SignInVars>>
      [] subject = "catalog" -> <<subject, catalogVars>>
      [] subject = "index" -> <<subject, indexVars>>
      [] subject = "shell" -> <<subject, shellVars>>
      [] subject = "preferences" -> <<subject, prefsVars>>
      [] subject = "expert" -> <<subject, expertVars>>
      [] subject = "directory" -> <<subject, directoryVars>>
      [] subject = "session" -> <<subject, sessionVars>>
      [] subject = "desk" -> <<subject, deskVars>>

\* The two editors of the catalogue are alike; what is checked is safety.
Alike == Permutations(Editor)

Spec == Init /\ [][Next]_ApplicationsVars

\* Every component keeps its variables in their types: the rows of an account, the
\* entries of a tree, the sessions of an editor, the states of a page.
TypeOK ==
    /\ subject = "limits" => SignInTypeOK
    /\ subject = "catalog" => CatalogTypeOK
    /\ subject = "index" => IndexTypeOK
    /\ subject = "shell" => ShellTypeOK
    /\ subject = "preferences" => PrefsTypeOK
    /\ subject = "expert" => ExpertTypeOK
    /\ subject = "directory" => DirectoryTypeOK
    /\ subject = "session" => SessionTypeOK
    /\ subject = "desk" => DeskTypeOK
=============================================================================
