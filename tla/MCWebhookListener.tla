--------------------------- MODULE MCWebhookListener ---------------------------
(* A Svix message signed twice, a generic-v2 delivery, a forged Svix       *)
(* message and a GitHub delivery, which signs no timestamp. Three keys for *)
(* a cache of MaxKeys.                                                     *)
EXTENDS WebhookListener, TLC

CONSTANTS h1, h2

MCCopies == {[provider |-> "svix", id |-> "m", stamp |-> 1, genuine |-> TRUE],
             [provider |-> "svix", id |-> "m", stamp |-> 2, genuine |-> TRUE],
             [provider |-> "generic-v2", id |-> "m", stamp |-> 2, genuine |-> TRUE],
             [provider |-> "svix", id |-> "f", stamp |-> 2, genuine |-> FALSE],
             [provider |-> "github", id |-> "m", stamp |-> 0, genuine |-> TRUE]}
MCSymmetry == Permutations(Handlers)
==============================================================================
