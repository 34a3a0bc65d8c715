--------------------------- MODULE ShellCommands ---------------------------
(***************************************************************************)
(* How a shell command is judged, twice and independently: its risk and    *)
(* the kind of access it needs (capability/risk.rs), and its class, which  *)
(* decides the phase it may run in (behavior/action.rs).  Both look for    *)
(* texts in the command line; a command is its parts between `;`, `&&`,    *)
(* `||` and `|`, and a part its first word with the texts in it that       *)
(* either judgement looks for.                                             *)
(***************************************************************************)
EXTENDS Naturals, Sequences, FiniteSetsExt

Marks == {"address",     \* http://, https://, urllib, requests., socket.
          "fetch",       \* git clone, npm install, cargo fetch, go get
          "send",        \* an upload, scp, rsync, deploy, release, publish
          "push",        \* git push
          "everything",  \* rm -rf / and its like
          "delete",      \* -delete
          "exec",        \* -exec with rm, mv, chmod and their like
          "write",       \* a redirection into a file
          "install",     \* into the system or for the user
          "unit",        \* systemctl --user enable or disable
          "query",       \* status, list, show
          "script",      \* python -c with network words in the script
          "inspect",     \* git status, diff, log, show, blame, branch
          "check",       \* the part begins as a verification command does
          "verify"}      \* --verify, --check, --test

Shells == {"sh", "bash", "zsh", "fish"}
Downloaders == {"curl", "wget"}
DiskTools == {"mkfs", "fdisk", "parted", "sfdisk", "wipefs"}
Removers == {"rm", "unlink", "rmdir", "mv", "chmod", "chown", "chgrp"}
Managers == {"cargo", "npm", "pnpm", "yarn", "pip", "go", "make", "pytest"}
Readers == {"pwd", "ls", "find", "rg", "grep", "cat", "head", "tail", "wc",
            "cut", "sort", "uniq", "diff", "echo", "printf", "true", "false"}

\* `piped`: a pipe before the part.  `wrapped`: the whole is the argument of
\* `sh -c`.
Part(head, marks, piped) == [head |-> head, marks |-> marks, piped |-> piped]
Command(parts, wrapped) == [parts |-> parts, wrapped |-> wrapped]

PartsOf(c) == {c.parts[i] : i \in DOMAIN c.parts}
First(c) == c.parts[1].head
Contains(c, mark) == \E p \in PartsOf(c) : mark \in p.marks
Begins(c, mark) == mark \in c.parts[1].marks

-----------------------------------------------------------------------------
(* assess_shell_command.  A wrapper is taken off first.                    *)

UsesNetwork(c) ==
    \/ Contains(c, "address")
    \/ First(c) \in Downloaders
    \/ Begins(c, "fetch")

PipesIntoShell(c) ==
    /\ \E p \in PartsOf(c) : p.head \in Downloaders
    /\ \E p \in PartsOf(c) : p.piped /\ p.head \in Shells

Standalone(c, head) == \E p \in PartsOf(c) : p.head = head

ChangesService(c) ==
    \/ First(c) \in {"systemctl", "service", "launchctl"} /\ ~Contains(c, "query")
    \/ Contains(c, "unit")

Removes(c) ==
    \/ First(c) \in Removers
    \/ Contains(c, "delete")
    \/ Contains(c, "write")

Rule(when, kind, risk, network) ==
    [when |-> when, kind |-> kind, risk |-> risk, network |-> network]

\* The first rule that fits decides.
Rules(c) ==
    LET net == UsesNetwork(c)
    IN <<Rule(PipesIntoShell(c), "PackageManager", "Critical", TRUE),
         Rule(Standalone(c, "sudo"), "Shell", "Critical", net),
         Rule(Contains(c, "everything"), "Filesystem", "Critical", net),
         Rule(First(c) \in DiskTools \/ Standalone(c, "dd"),
              "SystemService", "Critical", net),
         Rule(ChangesService(c), "SystemService", "High", net),
         Rule(Contains(c, "push"), "Git", "High", TRUE),
         Rule(Contains(c, "send"), "ExternalSend", "High", TRUE),
         Rule(Begins(c, "install"), "PackageManager", "High", TRUE),
         Rule(Removes(c), "Filesystem", "High", net),
         Rule(First(c) = "python" /\ Contains(c, "script"),
              "Network", "Moderate", TRUE),
         Rule(First(c) = "find" /\ Contains(c, "exec"), "Filesystem", "High", net),
         Rule(First(c) \in Managers, "PackageManager", "Moderate", net),
         Rule(First(c) \in Readers, "Shell", "Safe", net),
         Rule(First(c) = "git", "Git", "Safe", net),
         Rule(net, "Network", "Safe", TRUE),
         Rule(TRUE, "Shell", "Moderate", FALSE)>>

Assess(c) ==
    LET rules == Rules(c)
    IN rules[Min({i \in DOMAIN rules : rules[i].when})]

-----------------------------------------------------------------------------
(* classify_bash_command.  It does not see through a wrapper: the shell is *)
(* a first word it does not know, and what the wrapped command changes is  *)
(* text of the one part there is.                                          *)

Mutates(p) ==
    \/ p.marks \cap {"write", "delete", "exec", "everything"} # {}
    \/ p.head \in {"rm", "mv", "cp", "touch", "mkdir"}

Verifies(p) == p.marks \cap {"check", "verify"} # {}

OnlyReads(p) ==
    \/ p.head \in Readers \cup {"cd", "curl", "http"}
    \/ p.head = "git" /\ "inspect" \in p.marks

\* The texts of a verification anywhere in the line, or the beginning of one at
\* its beginning, decide before the parts are looked at.
Class(c) ==
    IF Contains(c, "verify") \/ (~c.wrapped /\ Begins(c, "check"))
    THEN "Verification"
    ELSE IF c.wrapped \/ \E p \in PartsOf(c) :
                            Mutates(p) \/ ~(Verifies(p) \/ OnlyReads(p))
    THEN "MutationRisk"
    ELSE IF \E p \in PartsOf(c) : Verifies(p) THEN "Verification"
    ELSE "ResearchSafe"
=============================================================================
