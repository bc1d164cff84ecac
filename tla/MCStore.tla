------------------------------ MODULE MCStore -------------------------------
\* Constant values for model-checking Store.
EXTENDS StoreImplements, TLC

CONSTANTS k1, k2

TwoShards == k1 :> 0 @@ k2 :> 1

OneValue == {<<1>>}
AllValues == {<<1>>, <<Letter>>}

MinusOne == {-1, 1}

BothKeys == {<<k1, k2>>}
BothPairs == {<<<<k2, <<1>>>>, <<k1, <<1>>>>>>}
OneKey == k1 :> 0
OneList == {<<k1, k1>>}
OnePair == {<<<<k1, <<1>>>>>>}
RepeatedKey == {<<<<k1, <<1>>>>, <<k1, <<1>>>>>>}
Clients == Permutations(Procs)
=============================================================================
