----------------------------- MODULE MCTransfer -----------------------------
(***************************************************************************)
(* Instances of Transfer for TLC.                                          *)
(***************************************************************************)
EXTENDS Transfer, TLC

CONSTANTS t1, t2, f1, f2, n1, n2

SameName == [t \in Transfers |-> n1]
OwnName == [t \in Transfers |-> IF t = t1 THEN n1 ELSE n2]

PlansOf(files, modes, policies, routes, shells) ==
    [files : files, mode : modes, policy : policies, route : routes,
     shells : shells]
Modes == {"move", "copy"}
Policies == {"overwrite", "rename", "skip"}

AllPlans(files) ==
    PlansOf(files, Modes, Policies, {"device", "ssh"}, {<<>>})
    \cup PlansOf(files, {"move"}, Policies, {"mounts"}, {<<>>})
    \cup PlansOf(files, Modes, Policies, {"remote"}, {<<>>, <<"scp">>})
FilePlans ==
    PlansOf({{f1}}, Modes, Policies, {"device"}, {<<>>})
    \cup PlansOf({{f1}}, Modes, Policies, {"remote"}, {<<"rsync">>})
DirectoryPlans ==
    PlansOf({{f1, f2}}, {"move"}, Policies, {"device"}, {<<>>})
    \cup PlansOf({{f1, f2}}, {"move"}, {"rename"},
                 {"mounts", "local", "remote"}, {<<>>})
MixedPlans == FilePlans \cup DirectoryPlans
FileAndDirectoryPlans == AllPlans({{f1}, {f1, f2}})

Alike == Permutations(Transfers)

(* Followed until two tries share a target, after which nothing is said.   *)
Apart == ~shared
=============================================================================
