---------------------------- MODULE MCPreparation ----------------------------
(* Small instances of Preparation.                                         *)
EXTENDS Preparation

CONSTANTS IOP, PROD, Load, Other, a, b, x, std

Environments == <<IOP, PROD>>
GroupsInOrder == <<Load, Other, R3, R2, R1>>

\* a is documented in Load; b nowhere.  The edited classifier moves a, and has
\* a publication for b.
Before == <<[domain |-> Load, fits |-> {a}]>>
After == <<[domain |-> Other, fits |-> {a}], [domain |-> Load, fits |-> {a, b}]>>
EditedRules == {Before, After}
OneRule == {Before}

\* x is in no archive's patterns: the first release takes what is left.
NoPatterns == [r \in {R3, R2, R1} |-> {}]
EachAlone == [f \in Folders |-> {f}]

Popular == [kind |-> "popular_domains", env |-> PROD,
            popular |-> [d \in {Load, Other} |-> {a, b}]]
Chosen == [kind |-> "selected_domains", env |-> Anywhere,
           selected |-> [d \in {Load, Other} |-> [f \in Folders |->
               IF d = Other THEN "on" ELSE "none"]]]
Extended == [kind |-> "enabled_domains", env |-> PROD, domains |-> {Load},
             legacy |-> {x}]
\* b in another domain than the one it is classified in.
ByHand == [kind |-> "environments",
           environments |-> [e \in Envs |-> [f \in Folders |->
               [group |-> IF f = x THEN LegacyRoot ELSE Load,
                val |-> IF <<e, f>> = <<PROD, b>> THEN "files"
                        ELSE IF e = IOP /\ f # x THEN "none" ELSE "off"]]]]
Everything == {Popular, Chosen, Extended, ByHand}

Both == [e \in Envs |-> IF e = IOP THEN {a} ELSE {a, x}]
Shipped == [n \in Files |-> IF n = std THEN ByHand ELSE Popular]
Ready == [n \in Files |-> IF n = "popular" THEN Extended ELSE Missing]
\* A forced crawl of everything, and one of a domain that leaves out fresh folders.
TwoScans == {[env |-> PROD, scope |-> Domains \union Archives, force |-> TRUE],
             [env |-> IOP, scope |-> {Load}, force |-> FALSE]}

\* All is written but the legacy folders of PROD.
AllButLast == {[sections |-> 4, some |-> {}]}
=============================================================================
