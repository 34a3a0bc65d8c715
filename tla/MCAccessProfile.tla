-------------------------- MODULE MCAccessProfile --------------------------
(***************************************************************************)
(* Any profile with any defaults and home access, and all, half or none of *)
(* the approvals; one path in each place, a secret one and one with white  *)
(* space around it; calls of every skill, with commands of every class and *)
(* for most rules of the assessment; and requests of each kind at a low    *)
(* and at a high risk.                                                     *)
(***************************************************************************)
EXTENDS TurnExposure

CONSTANTS inside, atHome, beyond, secret, padded

Half == {"sudo", "secret_paths", "git_push"}

MCConfigs ==
    {c \in Config :
        c.require_approval \in {{}, Half, Switches \ Half, Switches}}

Paths == {inside, atHome, beyond, secret, padded}

MCTargets == Paths \cup Skills

MCPlace == [t \in MCTargets |->
              CASE t \in {inside, padded} -> "workspace"
                [] t \in {atHome, secret} -> "home"
                [] OTHER -> "elsewhere"]

MCTrimmed == [t \in MCTargets |-> IF t = padded THEN inside ELSE t]

Plain(head, marks) == Command(<<Part(head, marks, FALSE)>>, FALSE)

MCCommands ==
    {Plain("ls", {}), Plain("other", {}), Plain("git", {"inspect"}),
     Plain("cargo", {"check"}), Plain("other", {"verify"}),
     Plain("rm", {}), Plain("echo", {"write"}), Plain("find", {"exec"}),
     Plain("systemctl", {"query"}), Plain("git", {"push"}),
     Plain("curl", {"address"}), Plain("curl", {"address", "send"}),
     Plain("npm", {"fetch", "install"}), Plain("python", {"script"}),
     Command(<<Part("cargo", {"check"}, FALSE)>>, TRUE),
     Command(<<Part("ls", {}, FALSE), Part("cargo", {"check"}, FALSE)>>, FALSE),
     Command(<<Part("curl", {"address"}, FALSE), Part("sh", {}, TRUE)>>, FALSE),
     Command(<<Part("ls", {}, FALSE), Part("sudo", {}, FALSE)>>, FALSE)}

NoCommand == Plain("true", {})

MCCalls ==
    {Call(s, t, "do", NoCommand) : s \in {"read", "write", "edit"}, t \in Paths}
    \cup {Call("git_clone", t, "do", NoCommand) : t \in {beyond, padded}}
    \cup {Call("computer_use", t, a, NoCommand) :
             t \in {beyond, padded}, a \in {"do", "sensitive"}}
    \cup {Call("manage_operator_preference", beyond, a, NoCommand) :
             a \in {"do", "list"}}
    \cup {Call(s, beyond, "do", NoCommand) :
             s \in GitReaders \cup {"git_add", "git_commit", "save_note",
                                    "update_plan", "web_search"}}
    \cup {Call("bash", t, "do", c) : t \in {beyond, padded}, c \in MCCommands}

MCRequests ==
    UNION {CheckedBefore(c) \cup CheckedWithin(c) : c \in MCCalls}
    \cup
    [kind : Kinds \ {"Filesystem"}, target : {beyond}, mode : {"Execute"},
     risk : {"Moderate", "High"}]
=============================================================================
