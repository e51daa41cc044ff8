-------------------------- MODULE MCMessageRouting --------------------------
EXTENDS MessageRouting, TLC

CONSTANTS signup, billing, nightly, first, second, task, mails, ledger, audit

To(type, queues) == [type |-> type, toQueue |-> queues, pattern |-> {}]
ToMatching(type, queues, P) == [type |-> type, toQueue |-> queues, pattern |-> {P}]

TypesOf == first :> signup @@ second :> billing @@ task :> billing
AllowsOf == mails :> {} @@ ledger :> {billing} @@ audit :> {signup, billing}

\* A task goes by the name in its metadata.
Labels == first :> signup @@ second :> billing @@ task :> nightly

\* Direct, fan-out and topic bindings; a topic binding beside a direct one;
\* a queue that refuses what it is sent; a type that is bound nowhere.
Definitions ==
  {<<To(signup, <<mails, audit>>), To(billing, <<ledger>>)>>,
   <<To(signup, <<audit, ledger, mails>>), To(billing, <<audit, ledger>>)>>,
   <<ToMatching(billing, <<ledger>>, {second}), ToMatching(signup, <<audit>>, {first}),
     ToMatching(signup, <<mails>>, {})>>,
   <<ToMatching(signup, <<audit>>, {first}), To(signup, <<mails>>), To(billing, <<ledger>>),
     ToMatching(billing, <<audit>>, {second})>>,
   <<To(billing, <<ledger, audit>>)>>}

\* A topic binding whose pattern goes by something else than the type.
Untyped ==
  {<<ToMatching(billing, <<mails>>, Messages), ToMatching(signup, <<audit>>, {})>>}
=============================================================================
