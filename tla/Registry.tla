------------------------------ MODULE Registry ------------------------------
(***************************************************************************)
(* What the release workflow promises those who install the package: a     *)
(* version, once it is on npm, is there for good and from a newer commit   *)
(* than any before it; then its tag is set, once and for good too, and no  *)
(* further version comes before that.  Package and tag are of one commit   *)
(* as long as nothing has gone wrong, and otherwise the tag of a later.    *)
(***************************************************************************)
EXTENDS Naturals, Sequences

VARIABLES
    published,      \* version -> the commit it was published from
    tagged,         \* version -> the commit that bears its tag
    disturbed       \* whether a job has failed

\* The last version there is, and that t has one more than s.
Newest(s) == s[Len(s)]
Extends(s, t) == t = Append(s, Newest(t))

Init == published = <<1>> /\ tagged = <<1>> /\ disturbed = FALSE

Publish == /\ Len(published) = Len(tagged)
           /\ Extends(published, published')
           /\ Newest(published') > Newest(published)
           /\ disturbed' \in {disturbed, TRUE}
           /\ UNCHANGED tagged

Tag == /\ Len(published) = Len(tagged) + 1
       /\ Extends(tagged, tagged')
       /\ Newest(tagged') >= Newest(published)
       /\ ~ disturbed => Newest(tagged') = Newest(published)
       /\ UNCHANGED <<published, disturbed>>

Disturb == disturbed' = TRUE /\ UNCHANGED <<published, tagged>>

Next == Publish \/ Tag \/ Disturb

Spec == Init /\ [][Next]_<<published, tagged, disturbed>>
=============================================================================
