------------------------------ MODULE Launcher ------------------------------
(* main.rs and git.rs: what the optimizer does to the checkout of the        *)
(* simulation before it searches.  A launch may be killed at any step, with  *)
(* the git or waf process it waits for, and the next one finds what is left. *)
EXTENDS Naturals

CONSTANTS
  Commits,      \* the commits of the repository
  Wanted,       \* commit_hash
  None,         \* no commit; the empty string where a hash is read
  Torn,         \* a work tree or a configuration that was interrupted
  MaxLaunches   \* bound on the launches

ASSUME LauncherAssumption ==
  /\ Wanted \in Commits
  /\ None \notin Commits /\ Torn \notin Commits /\ None # Torn
  /\ MaxLaunches \in Nat

VARIABLES
  repo,            \* the directory NS3: "absent", "partial" (a killed clone), "whole"
  head,            \* the commit in its work tree
  blocked,         \* git refuses to check out over what an interrupted one left:
                   \* index.lock, or files that its index takes for local changes
  configured,      \* the commit waf configured
  built,           \* what the build in it was made from
  pc,              \* the command main has come to, or "idle": no launch
  useGit,          \* --use-git
  reExport,        \* --re-export or --re-export-all
  needsConfigure,  \* needs_configure
  clean,           \* this launch was not killed and none of its commands failed (history)
  gitCut,          \* a git command was cut off since people last cleaned up (history)
  launches         \* how many launches there were

tree == <<repo, head, blocked, configured, built>>
args == <<useGit, reExport>>
vars == <<tree, pc, args, needsConfigure, clean, gitCut, launches>>

Build == [commit : Commits \cup {Torn}, configuration : Commits \cup {Torn}]

Init ==
  /\ repo = "absent"
  /\ head = None /\ blocked = FALSE
  /\ configured = None /\ built = None
  /\ pc = "idle"
  /\ useGit = FALSE /\ reExport = FALSE
  /\ needsConfigure = FALSE
  /\ clean = TRUE /\ gitCut = FALSE
  /\ launches = 0

-----------------------------------------------------------------------------
(* The steps of a launch.                                                    *)

AfterSetup(export) == IF export THEN "re_export" ELSE "build"

Launch ==
  /\ pc = "idle" /\ launches < MaxLaunches
  /\ useGit' \in BOOLEAN /\ reExport' \in BOOLEAN
  /\ pc' = IF useGit' THEN "setup" ELSE AfterSetup(reExport')
  /\ clean' = TRUE
  /\ launches' = launches + 1
  /\ UNCHANGED <<tree, needsConfigure, gitCut>>

(* setup_repo clones unless the path exists, whatever it holds. *)
Setup ==
  /\ pc = "setup"
  /\ pc' = IF repo = "absent" THEN "clone" ELSE "rev_parse"
  /\ needsConfigure' = (repo = "absent")
  /\ UNCHANGED <<tree, args, clean, gitCut, launches>>

Clone ==
  /\ pc = "clone"
  /\ repo' = "whole"
  /\ head' \in Commits
  /\ pc' = "rev_parse"
  /\ UNCHANGED <<blocked, configured, built, args, needsConfigure, clean, gitCut, launches>>

(* Faulty: the output of git is captured. *)
PipedHash == head

(* run_git_command reads process.stdout, which is only there if it is piped. *)
CurrentHash == None

RevParse ==
  /\ pc = "rev_parse" /\ repo = "whole"
  /\ pc' = IF CurrentHash # Wanted THEN "checkout"
           ELSE IF needsConfigure THEN "configure" ELSE AfterSetup(reExport)
  /\ UNCHANGED <<tree, args, needsConfigure, clean, gitCut, launches>>

(* Faulty: only a fresh clone is configured. *)
LazyCheckout ==
  /\ pc = "checkout" /\ ~blocked
  /\ head' = Wanted
  /\ pc' = IF needsConfigure THEN "configure" ELSE AfterSetup(reExport)
  /\ UNCHANGED <<repo, blocked, configured, built, args, needsConfigure, clean, gitCut, launches>>

Checkout ==
  /\ pc = "checkout" /\ ~blocked
  /\ head' = Wanted
  /\ pc' = "configure"
  /\ UNCHANGED <<repo, blocked, configured, built, args, needsConfigure, clean, gitCut, launches>>

Configure ==
  /\ pc = "configure"
  /\ configured' = head
  /\ pc' = AfterSetup(reExport)
  /\ UNCHANGED <<repo, head, blocked, built, args, needsConfigure, clean, gitCut, launches>>

(* waf builds what it is given, if it was ever configured. *)
BuildWaf ==
  /\ pc = "build" /\ repo = "whole" /\ configured # None
  /\ built' = [commit |-> head, configuration |-> configured]
  /\ pc' = "search"
  /\ UNCHANGED <<repo, head, blocked, configured, args, needsConfigure, clean, gitCut, launches>>

(* optimization::run or the export has come to its end. *)
Done ==
  /\ pc \in {"search", "re_export"}
  /\ pc' = "idle"
  /\ UNCHANGED <<tree, args, needsConfigure, clean, gitCut, launches>>

(* git finds no commit in a clone that is not whole, and a plain checkout     *)
(* does not go over what an interrupted one left.                            *)
GitRefuses ==
  /\ \/ pc = "rev_parse" /\ repo # "whole"
     \/ pc = "checkout" /\ blocked
  /\ pc' = "idle"
  /\ UNCHANGED <<tree, args, needsConfigure, clean, gitCut, launches>>

(* Without the directory the path of waf cannot be resolved; waf refuses to  *)
(* build what it never configured.                                           *)
WafRefuses ==
  /\ pc = "build" /\ (repo # "whole" \/ configured = None)
  /\ pc' = "idle"
  /\ UNCHANGED <<tree, args, needsConfigure, clean, gitCut, launches>>

-----------------------------------------------------------------------------
(* What goes wrong.                                                          *)

(* What git leaves of a clone that is cut off: a part, or all but the work   *)
(* tree, over which it checks out only if no file was written yet.           *)
CloneCut ==
  /\ pc = "clone"
  /\ \/ repo' = "partial" /\ UNCHANGED <<head, blocked>>
     \/ repo' = "whole" /\ head' = Torn /\ blocked' \in BOOLEAN
  /\ UNCHANGED <<configured, built>>

(* A checkout that has begun is not undone. *)
CheckoutCut ==
  /\ pc = "checkout" /\ ~blocked
  /\ head' \in {head, Torn} /\ blocked' = TRUE
  /\ UNCHANGED <<repo, configured, built>>

WafCut ==
  /\ pc \in {"configure", "build"}
  /\ configured' \in {configured} \cup IF pc = "configure" THEN {None, Torn} ELSE {}
  /\ built' \in {built} \cup IF pc = "build" THEN {None} ELSE {}
  /\ UNCHANGED <<repo, head, blocked>>

(* A command that does not come to its end may also have changed nothing.    *)
Interrupted ==
  /\ CloneCut \/ CheckoutCut \/ WafCut \/ UNCHANGED tree
  /\ pc' = "idle"
  /\ clean' = FALSE
  /\ gitCut' = (gitCut \/ pc \in {"clone", "checkout"})
  /\ UNCHANGED <<args, needsConfigure, launches>>

(* A command fails of itself: no network, no space, an error of the compiler.*)
(* git removes a clone that fails, but not for its work tree.                *)
Fail ==
  /\ pc \in {"clone", "rev_parse", "checkout", "configure", "build"}
  /\ Interrupted
  /\ repo' # "partial" \/ pc # "clone"

(* The launch is killed, and with it the command it waits for. *)
Kill ==
  /\ pc # "idle"
  /\ Interrupted

(* Between launches people work in the tree, or remove it. *)
UserChecksOut ==
  /\ pc = "idle" /\ repo = "whole"
  /\ head' \in Commits /\ blocked' = FALSE
  /\ gitCut' = FALSE
  /\ UNCHANGED <<repo, configured, built, pc, args, needsConfigure, clean, launches>>

UserRemoves ==
  /\ pc = "idle"
  /\ repo' = "absent"
  /\ head' = None /\ blocked' = FALSE
  /\ configured' = None /\ built' = None
  /\ gitCut' = FALSE
  /\ UNCHANGED <<pc, args, needsConfigure, clean, launches>>

Next ==
  \/ Launch \/ Setup \/ Clone \/ RevParse \/ Checkout \/ Configure \/ BuildWaf
  \/ Done \/ GitRefuses \/ WafRefuses \/ Fail \/ Kill \/ UserChecksOut \/ UserRemoves

Spec == Init /\ [][Next]_vars

-----------------------------------------------------------------------------
(* Properties.                                                               *)

(* Only a whole clone has commits, a configuration and a build in it.        *)
TypeOK ==
  /\ repo \in {"absent", "partial", "whole"}
  /\ head \in Commits \cup {None, Torn} /\ configured \in Commits \cup {None, Torn}
  /\ built \in Build \cup {None}
  /\ repo = "whole" <=> head # None
  /\ repo # "whole" => configured = None /\ built = None /\ blocked = FALSE
  /\ pc \in {"idle", "setup", "clone", "rev_parse", "checkout", "configure", "build",
             "search", "re_export"}
  /\ {blocked, useGit, reExport, needsConfigure, clean, gitCut} \subseteq BOOLEAN
  /\ launches \in 0 .. MaxLaunches

(* With --use-git the simulation that is searched was built from the wanted  *)
(* commit under a configuration made for it, whatever earlier launches left  *)
(* half done.                                                                *)
SearchesWanted ==
  (useGit /\ pc = "search") => built = [commit |-> Wanted, configuration |-> Wanted]

(* With --use-git a launch that is left alone and whose commands do not fail *)
(* of themselves gets to its search or export, unless git was cut off in     *)
(* some launch since people last cleaned up.  No other leftover stops it: no *)
(* configuration or build that was interrupted, no launch without --use-git, *)
(* no commit that people checked out.                                        *)
FailsForReason ==
  [][(useGit /\ pc \notin {"idle", "search", "re_export"} /\ pc' = "idle" /\ clean')
       => gitCut]_vars

(* The tree is as far as the launch has brought it.                          *)
LauncherInv ==
  /\ TypeOK
  /\ pc = "clone" => repo = "absent"
  /\ pc = "rev_parse" => repo # "absent"
  /\ pc \in {"checkout", "configure"} => repo = "whole"
  /\ (useGit /\ pc = "configure") => head = Wanted
  /\ (useGit /\ pc = "build") => repo = "whole" /\ head = Wanted /\ configured = Wanted
  /\ pc \in {"checkout", "configure", "setup", "clone", "rev_parse"} => useGit
  /\ (repo = "partial" \/ blocked) => gitCut
  /\ SearchesWanted
=============================================================================
