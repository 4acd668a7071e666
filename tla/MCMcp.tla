------------------------------- MODULE MCMcp --------------------------------
(* McpServer for TLC: a fam directory with the worktrees of two agents, one *)
(* of them with a wiki clone and one with a prefix in its name, the base    *)
(* checkout and a directory in it that is called like a worktree, and a     *)
(* repository without commits.                                              *)
EXTENDS McpServer, TLC

D == {"/", "fam", "ada", "ada/wiki", "wt-bob", "main", "main/wt-bob", "new"}
A == [d \in D |->
        CASE d \in {"/"} -> <<"/">>
          [] d = "fam" -> <<"fam", "/">>
          [] d = "ada/wiki" -> <<"ada/wiki", "ada", "fam", "/">>
          [] d = "main/wt-bob" -> <<"main/wt-bob", "main", "fam", "/">>
          [] OTHER -> <<d, "fam", "/">>]
T == [d \in D |->
        CASE d \in {"/", "fam"} -> None
          [] d = "main/wt-bob" -> "main"
          [] OTHER -> d]
B == [d \in D |-> IF d \in {"ada", "wt-bob"} THEN d ELSE None]
P == [d \in D |-> IF d \in {"wt-bob", "main/wt-bob"} THEN "bob" ELSE None]
W == [d \in D |-> IF d = "ada/wiki" THEN "ada" ELSE None]

Repo(agents, users) ==
  [fam |-> [path |-> "fam", forge |-> None, agents |-> agents, users |-> users,
            flags |-> None :> "on" @@ "bob" :> "typo"]]
Global(agents, users, repos) ==
  [forge |-> "gitea", agents |-> agents, users |-> users, flags |-> "ada" :> "on", repos |-> repos]

Empty == <<>>
C == { Global(Empty, {}, Empty),
       Global("ada" :> "claude" @@ "bob" :> "codex", {}, Repo(Empty, {})),
       Global("ada" :> "claude", {}, Repo("bob" :> None, {})),
       Global("ada" :> "claude", {"bob"}, Repo("ada" :> None, {})),
       Global("ada" :> "codex", {}, Repo("wt-bob" :> "claude" @@ "bob" :> "codex", {"ada"})) }

E == [cwd : {"/", "ada"}, pwd : {"ada"}, harness : {None, "codex"}, worker : {"no"}]
       \cup [cwd : {"/"}, pwd : {None}, harness : {"codex"}, worker : {"no"}]
       \cup [cwd : {"/"}, pwd : {"ada"}, harness : {"codex"}, worker : {"socket", "resolver"}]
=============================================================================
