------------------------------- MODULE BronzeRules -------------------------------
(***************************************************************************)
(* Which records the bronze validator of glue/transforms.py rejects, and     *)
(* which accepted rows fail the bronze data-quality gate by their values.     *)
(* Reasons that no event of the producer can give are left out, and so are    *)
(* the rules that look beyond the row: Pipeline has the one on merchants.    *)
(***************************************************************************)
EXTENDS Transactions

\* As below, with DQDL's between, which leaves its bounds out.
AmountStrictlyOut(e) == e.amount # NaN /\ ~(MinAmount < e.amount /\ e.amount < MaxAmount)

\* Only an amount that is a number can be out of range.
AmountOutOfRange(e) == e.amount # NaN /\ (e.amount < MinAmount \/ e.amount > MaxAmount)

\* All reasons, not the first one.
_rejection_reasons(e) ==
    (IF e.id = NoId THEN {"null_transaction_id"} ELSE {})
        \cup (IF e.customer = NoCustomer THEN {"null_customer_id"} ELSE {})
        \cup (IF e.amount = NaN THEN {"non_numeric_amount"} ELSE {})
        \cup (IF AmountOutOfRange(e) THEN {"amount_out_of_range"} ELSE {})
        \cup (IF e.t = Unparsed THEN {"unparseable_timestamp"} ELSE {})
        \cup (IF e.place = "nowhere" THEN {"geo_out_of_range"} ELSE {})

Valid(e) == _rejection_reasons(e) = {}

\* bronze_ruleset, the rules on the values of a row: "between" leaves its bounds out.
ValuesRefused(e) ==
    \/ ~(MinAmount < e.amount /\ e.amount < MaxAmount)
    \/ e.place = "nowhere"

-----------------------------------------------------------------------------
\* The reason each corruption mode is injected for.
Intended(mode) ==
    CASE mode = "null_transaction_id" -> {"null_transaction_id"}
      [] mode = "missing_customer_id" -> {"null_customer_id"}
      [] mode = "non_numeric_amount" -> {"non_numeric_amount"}
      [] mode = "negative_amount" -> {"amount_out_of_range"}
      [] mode = "bad_timestamp" -> {"unparseable_timestamp"}
      [] mode = "out_of_range_geo" -> {"geo_out_of_range"}
      [] mode \in {"unknown_merchant", "none"} -> {}
=============================================================================
