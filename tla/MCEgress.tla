------------------------------ MODULE MCEgress ------------------------------
(* A run and a fork of it, in workflows with each kind of node: an email node and
   a chat node visited twice, an email and a text, the others alone. The messages
   say different things, or differ in their copies only. *)
EXTENDS Egress, TLC

CONSTANTS R0, R1, mail, phone, slack, call, bot, talk, entity, hello, bye, plain, copied

MCRuns == {R0, R1}
MCNodes == {mail, phone, slack, call, bot, talk, entity}
MCKindOf == (mail :> "email") @@ (phone :> "sms") @@ (slack :> "slack") @@ (call :> "voice")
            @@ (bot :> "generic") @@ (talk :> "chat") @@ (entity :> "entity")
MCSaids == {hello, bye}
MCRests == {plain, copied}
MCContents == [said : MCSaids, rest : {plain}] \cup [said : {hello}, rest : {copied}]
MCScripts == {<<mail, mail>>, <<mail, phone>>, <<talk, talk>>, <<slack>>, <<call>>, <<bot>>, <<entity>>}

\* The ids of the runs mean nothing.
Symmetry == Permutations(MCRuns)
=============================================================================
