------------------------- MODULE MCSolrCollections -------------------------
(* Two of the three collections, which the two halves of the script visit in *)
(* different orders.                                                         *)
EXTENDS SolrCollections

CONSTANTS relationships, event

BothCopied == <<event, relationships>>
Both       == <<relationships, event>>

=============================================================================
