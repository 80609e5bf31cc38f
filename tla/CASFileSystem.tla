---------------------------- MODULE CASFileSystem ----------------------------
(***************************************************************************)
(* The read-only part of the virtual file system, in which a process walks *)
(* through the namespace, lists a directory of which the contents come     *)
(* from the Content Addressable Storage, or copies a command file.  The    *)
(* service keeps nothing between these activities, so that it suffices to  *)
(* let a process do one of them.                                           *)
(***************************************************************************)
EXTENDS CASDirectory, CommandFile, CASNamespace

VARIABLE activity   \* what the process does

allVars == <<activity, namespaceVars, vars, commandVars>>

Walk == activity = "walk" /\ NamespaceNext /\ UNCHANGED <<vars, commandVars>>
List == activity = "list" /\ Next /\ UNCHANGED <<namespaceVars, commandVars>>
Copy == activity = "copy" /\ CommandNext /\ UNCHANGED <<vars, namespaceVars>>

FileSystemInit ==
    /\ activity \in {"walk", "list", "copy"}
    /\ Init
    /\ activity # "list" => \A k \in 1 .. 3 : lists[k] = <<>>
    /\ CommandInit
    /\ activity # "copy" => script = <<>>
    /\ NamespaceInit

FileSystemNext == (Walk \/ List \/ Copy) /\ UNCHANGED activity

FileSystemSpec == FileSystemInit /\ [][FileSystemNext]_allVars
=============================================================================
