---------------------------- MODULE LauncherProofs ----------------------------
(* A launch prepares the tree for whatever the launches before it left.      *)
EXTENDS Launcher, TLAPS

(* Whatever is interrupted, git is to blame if it refuses afterwards. *)
LEMMA Leftovers ==
  ASSUME LauncherInv, Interrupted
  PROVE  LauncherInv'
<1> USE LauncherAssumption DEF LauncherInv, TypeOK, SearchesWanted, Build
<1>1. pc' = "idle" /\ clean' = FALSE /\ gitCut' = (gitCut \/ pc \in {"clone", "checkout"})
  BY DEF Interrupted
<1>2. UNCHANGED <<args, needsConfigure, launches>>
  BY DEF Interrupted
<1>3. {useGit, reExport, needsConfigure, clean, gitCut}' \subseteq BOOLEAN
  BY <1>1, <1>2 DEF args
<1>4. /\ repo' \in {"absent", "partial", "whole"}
      /\ head' \in Commits \cup {None, Torn} /\ configured' \in Commits \cup {None, Torn}
      /\ built' \in Build \cup {None}
      /\ blocked' \in BOOLEAN
      /\ repo' = "whole" <=> head' # None
      /\ repo' # "whole" => configured' = None /\ built' = None /\ blocked' = FALSE
      /\ (repo' = "partial" \/ blocked') => gitCut'
  <2>1. CASE CloneCut
    <3>1. repo = "absent" /\ pc = "clone" /\ UNCHANGED <<configured, built>>
      BY <2>1 DEF CloneCut
    <3>2. CASE repo' = "partial" /\ UNCHANGED <<head, blocked>>
      BY <3>1, <3>2, <1>1
    <3>3. CASE repo' = "whole" /\ head' = Torn /\ blocked' \in BOOLEAN
      BY <3>1, <3>3, <1>1
    <3> QED
      BY <2>1, <3>2, <3>3 DEF CloneCut
  <2>2. CASE CheckoutCut
    BY <2>2, <1>1 DEF CheckoutCut
  <2>3. CASE WafCut
    BY <2>3, <1>1 DEF WafCut
  <2>4. CASE UNCHANGED tree
    BY <2>4, <1>1 DEF tree
  <2> QED
    BY <2>1, <2>2, <2>3, <2>4 DEF Interrupted
<1>5. TypeOK'
  BY <1>1, <1>2, <1>3, <1>4
<1> QED
  BY <1>1, <1>4, <1>5

LEMMA LauncherInit == Init => LauncherInv
<1> SUFFICES ASSUME Init PROVE LauncherInv
  OBVIOUS
<1>1. {blocked, useGit, reExport, needsConfigure, clean, gitCut} \subseteq BOOLEAN
  BY DEF Init
<1>2. launches \in 0 .. MaxLaunches
  BY LauncherAssumption DEF Init
<1>3. TypeOK
  BY <1>1, <1>2 DEF Init, TypeOK
<1> QED
  BY <1>3, LauncherAssumption DEF Init, LauncherInv, SearchesWanted

(* One step of a launch, a failure or a user at work. *)
LEMMA LauncherStep ==
  ASSUME LauncherInv, [Next]_vars
  PROVE  LauncherInv'
<1> USE LauncherAssumption DEF LauncherInv, TypeOK, SearchesWanted, Build
<1>1. CASE Launch
  BY <1>1 DEF Launch, AfterSetup, tree
<1>2. CASE Setup
  BY <1>2 DEF Setup, tree, args
<1>3. CASE Clone
  BY <1>3 DEF Clone, args
<1>4. CASE RevParse
  BY <1>4 DEF RevParse, CurrentHash, AfterSetup, tree, args
<1>5. CASE Checkout
  BY <1>5 DEF Checkout, args
<1>6. CASE Configure
  BY <1>6 DEF Configure, AfterSetup, args
<1>7. CASE BuildWaf
  BY <1>7 DEF BuildWaf, args
<1>8. CASE Done
  BY <1>8 DEF Done, tree, args
<1>9. CASE GitRefuses
  BY <1>9 DEF GitRefuses, tree, args
<1>10. CASE WafRefuses
  BY <1>10 DEF WafRefuses, tree, args
<1>11. CASE Fail \/ Kill
  BY <1>11, Leftovers DEF Fail, Kill
<1>12. CASE UserChecksOut
  BY <1>12 DEF UserChecksOut, args
<1>13. CASE UserRemoves
  BY <1>13 DEF UserRemoves, args
<1>14. CASE UNCHANGED vars
  BY <1>14 DEF vars, tree, args
<1> QED
  BY <1>1, <1>2, <1>3, <1>4, <1>5, <1>6, <1>7, <1>8, <1>9, <1>10, <1>11, <1>12,
     <1>13, <1>14 DEF Next

(* The tree is always as far as the launch has brought it. *)
THEOREM LauncherInvariant == Spec => []LauncherInv
BY LauncherInit, LauncherStep, PTL DEF Spec

(* With --use-git what is searched was built from the wanted commit under a  *)
(* configuration made for it, however earlier launches ended (git.rs).       *)
THEOREM LauncherSearchesWanted == Spec => []SearchesWanted
<1>1. LauncherInv => SearchesWanted
  BY DEF LauncherInv
<1> QED
  BY <1>1, LauncherInvariant, PTL

(* However earlier launches ended, a launch that is left alone is stopped by *)
(* nothing but what a git command left that was cut off (git.rs:46, 56): one *)
(* that gets past the checkout finds waf configured.                         *)
THEOREM LauncherFailsForReason == Spec => FailsForReason
<1>1. ASSUME LauncherInv, [Next]_vars
      PROVE  [(useGit /\ pc \notin {"idle", "search", "re_export"} /\ pc' = "idle" /\ clean')
                => gitCut]_vars
  <2>1. CASE GitRefuses
    BY <1>1, <2>1 DEF GitRefuses, LauncherInv, TypeOK
  <2>2. CASE WafRefuses
    BY <1>1, <2>2, LauncherAssumption DEF WafRefuses, LauncherInv
  <2>3. CASE Fail \/ Kill
    BY <2>3 DEF Fail, Kill, Interrupted
  <2>4. CASE Launch \/ Setup \/ Clone \/ RevParse \/ Checkout \/ Configure \/ BuildWaf \/ Done
    BY <2>4 DEF Launch, Setup, Clone, RevParse, Checkout, Configure, BuildWaf, Done, AfterSetup
  <2>5. CASE UserChecksOut \/ UserRemoves \/ UNCHANGED vars
    BY <2>5 DEF UserChecksOut, UserRemoves
  <2> QED
    BY <1>1, <2>1, <2>2, <2>3, <2>4, <2>5 DEF Next
<1> QED
  BY <1>1, LauncherInvariant, PTL DEF Spec, FailsForReason
=============================================================================
