---------------------------- MODULE MCQueueTree -----------------------------
(* Two levels below the root: a parent p with a configured leaf c and a    *)
(* leaf u that only placement rules create.                                *)
EXTENDS QueueTree

MCNames     == {"root", "root.p", "root.p.c", "root.p.u"}
MCParentOf  == [n \in MCNames \ {"root"} |-> IF n = "root.p" THEN "root" ELSE "root.p"]
MCShortName == "root" :> "root" @@ "root.p" :> "p" @@ "root.p.c" :> "c" @@ "root.p.u" :> "u"
MCParents   == {"root", "root.p"}
OnlyRoot    == {"root"}
WithParent  == {"root", "root.p"}
WithLeaf    == {"root", "root.p", "root.p.c"}
MCConfigs   == {OnlyRoot, WithParent, WithLeaf}

(* Not in MCQueues.cfg, see the README: a configuration that declares the *)
(* leaf that a rule has created.                                          *)
WithCreated  == {"root", "root.p", "root.p.u"}
AdoptConfigs == {WithParent, WithCreated}
=============================================================================
