------------------------------ MODULE MCBasket ------------------------------
EXTENDS Basket, TLC

CONSTANTS fido, tom, Animal, Dog, Light, Heavy

MCObj == {fido, tom}
MCClass == {Animal, Dog}
MCClassOf == (fido :> Dog) @@ (tom :> Animal)
MCIsA == (Animal :> {Animal}) @@ (Dog :> {Dog, Animal})

\* Below the first breakpoint, on one, on the last.
MCValue == {0, 1, 2}
MCQty == {1, -1}

ByClass == [kind |-> "class", tags |-> {}]
ByFeature == [kind |-> "feature", tags |-> {1, 2}]
ByRange == [kind |-> "range",
            intervals |-> << [low |-> 0, high |-> 1, inclusive |-> FALSE, label |-> Light],
                             [low |-> 0, high |-> 2, inclusive |-> TRUE, label |-> Heavy] >>]
ByBreakPoints(points, last) == [kind |-> "breakpoints", points |-> points, include_last |-> last]
Open == ByBreakPoints(<<1, 2>>, FALSE)
Closed == ByBreakPoints(<<0, 1, 2>>, TRUE)

MCBucketizer == {ByClass, ByFeature, ByRange, Open, Closed}
MCSchemes == {<<>>, <<ByFeature>>, <<ByRange>>, <<Open>>, <<ByClass, Closed>>}
=============================================================================
