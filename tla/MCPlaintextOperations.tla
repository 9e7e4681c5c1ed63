------------------------ MODULE MCPlaintextOperations ------------------------
(***************************************************************************)
(* Values of the constants of PlaintextOperations for TLC.                 *)
(***************************************************************************)
EXTENDS PlaintextOperations, TLC

CONSTANTS h1, h2,      \* runs
          k1, k2,      \* identities callers choose
          post,        \* ensure_charge, txid left to the provider
          put,         \* create_charge, the legacy name, of k1
          due,         \* ensure_due_charge of k1, by capability alone
          drop,        \* destroy_charge of k1
          dropDue,     \* destroy_due_charge of ref k2
          dropBoth,    \* destroy_charge of k1 with ref k2
          dropNone,    \* destroy_charge of nothing
          look,        \* observe_charges of k1
          statement,   \* get_statement
          pay,         \* create_payout k1
          refund,      \* refund_charge k1
          hook,        \* ensure_webhook_subscription of k1
          unhook,      \* destroy_webhook_subscription of k1
          hookLook,    \* observe_webhook_subscriptions of k1
          odd          \* an unknown operation under a known capability

Asked(op, cap, key, ref, given, blank) ==
  [operation |-> op, capability |-> cap, key |-> key, ref |-> ref,
   given |-> given, blank |-> blank]

Cob == {"valor", "valor.original", "chave"}
Parties == {"valor", "pagador", "favorecido"}

Inputs ==
     post :> Asked("ensure_charge", "ensure_charge", None, None, Cob, {})
  @@ put :> Asked("create_charge", "", k1, None, Cob, {})
  @@ due :> Asked("", "ensure_due_charge", k1, None,
                  Cob \cup {"calendario", "dataDeVencimento", "devedor", "cpf", "nome"}, {})
  @@ drop :> Asked("destroy_charge", "", k1, None, {}, {})
  @@ dropDue :> Asked("destroy_due_charge", "", None, k2, {}, {})
  @@ dropBoth :> Asked("destroy_charge", "", k1, k2, {}, {})
  @@ dropNone :> Asked("destroy_charge", "", None, k2, {}, {"txid"})
  @@ look :> Asked("observe_charges", "", k1, None, {}, {})
  @@ statement :> Asked("get_statement", "", None, None, {"inicio", "fim"}, {})
  @@ pay :> Asked("create_payout", "", k1, None,
                  Parties \cup {"pagador.chave", "favorecido.chave"}, {})
  @@ refund :> Asked("refund_charge", "", k1, None, {"e2eId", "valor"}, {})
  @@ hook :> Asked("register_webhook_endpoint", "", k1, None, {"webhook_url"}, {})
  @@ unhook :> Asked("destroy_webhook_subscription", "", k1, None, {}, {})
  @@ hookLook :> Asked("observe_webhook_subscriptions", "", k1, None, {}, {})
  @@ odd :> Asked("settle_charge", "ensure_charge", k1, None, Cob, {})

\* A run serves some of them.
InputOf == [r \in Requests |-> Inputs[r]]

\* Runs are interchangeable, the txids generated for them with them.
RunSymmetry == Permutations(Runs)
===============================================================================
