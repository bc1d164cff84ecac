----------------------------- MODULE MCReaders ------------------------------
\* Constant values for model-checking StoreReaders.
EXTENDS StoreReaders, TLC

CONSTANTS k1, k2

TwoShards == k1 :> 0 @@ k2 :> 1
OneValue == {<<1>>}
Lists == {<<k2, k1, k2>>}
OnePair == {<<<<k1, <<1>>>>>>}
=============================================================================
