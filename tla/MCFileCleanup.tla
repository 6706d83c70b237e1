----------------------------- MODULE MCFileCleanup -----------------------------
(***************************************************************************)
(* FileCleanup on a small tree, for TLC: a directory with a file, a link   *)
(* and a subdirectory that holds another file.                             *)
(***************************************************************************)
EXTENDS FileCleanup

MCParent ==
  "logs" :> "top" @@ "sub" :> "logs" @@ "f" :> "logs" @@ "g" :> "sub" @@ "l" :> "logs"

MCAbove ==
  "logs" :> {} @@ "sub" :> {"logs"} @@ "f" :> {"logs"} @@ "g" :> {"sub", "logs"}
    @@ "l" :> {"logs"}

MCDating == "f" :> "modified" @@ "g" :> "created"

\* One rule, and a bundle that names a path twice, with a rule below it; what
\* comes one by one turns rules off.
MCBundles ==
  {<<[path |-> "sub", days |-> 1]>>,
   <<[path |-> "logs", days |-> 1], [path |-> "logs", days |-> 2],
     [path |-> "sub", days |-> 1]>>}

================================================================================
