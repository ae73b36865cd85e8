--------------------------- MODULE MCBlockCatalog ----------------------------
(* An instance of BlockCatalog for TLC.                                     *)
EXTENDS BlockCatalog

CONSTANTS plugin, shared, unlisted, s1, s2

\* Block 1 is in a plugin and in a shared library, 2 and 3 in one each.
MCProvides == [l \in {plugin, shared, unlisted} |->
    CASE l = plugin -> {1, 2} [] l = shared -> {1, 3} [] OTHER -> {}]

\* The identifier that comes first is neither the longest nor the shortest.
MCLength == <<2, 3, 2>>

\* A type of its own, the identifier of a block, or none.
MCDescriptor ==
    {d \in [type : {1, 3, 9, NoType}, category : {1, 2}, name : {1, 2}] :
        d.category = 1 \/ d.name = 1}
=============================================================================
