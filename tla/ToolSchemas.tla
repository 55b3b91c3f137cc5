---------------------------- MODULE ToolSchemas ----------------------------
(* src/agent/tool_schemas.py and tool_registry.py: what the language model *)
(* is told it may call, and what a call then runs. Descriptions are wording *)
(* and left out; types are those of the arguments.                          *)
EXTENDS FiniteSets

Schema(properties, required) == [properties |-> properties, required |-> required]
NoProperty == [p \in {} |-> {}]
ByCustomer == Schema([customer_name |-> "string"], {"customer_name"})
ByLimit == Schema([limit |-> "integer"], {})

CustomerSchemas ==
  [t \in {"get_customer_balance", "get_customer_summary", "get_payment_history"} |-> ByCustomer]

InsightSchemas ==
  [get_business_alerts |-> ByLimit,
   get_product_insights |-> Schema([product_name |-> "string"], {"product_name"}),
   get_customer_insights |-> ByCustomer,
   get_collection_priorities |-> ByLimit,
   get_dashboard_summary |-> Schema(NoProperty, {})]

LedgerSchemas ==
  [get_customer_statement |->
     Schema([customer_name |-> "string", period |-> "string"], {"customer_name"}),
   get_top_debtors |-> Schema([limit |-> "integer", period |-> "string"], {}),
   get_unpaid_invoices |-> Schema([customer_name |-> "string", period |-> "string"], {}),
   get_overdue_invoices |-> Schema([period |-> "string"], {})]

SalesSchemas ==
  [get_top_selling_products |->
     Schema([period |-> "string", month |-> "integer", year |-> "integer",
             limit |-> "integer"], {}),
   get_sales_summary |->
     Schema([period |-> "string", month |-> "integer", year |-> "integer"], {})]

TOOL_SCHEMAS ==
  [t \in DOMAIN CustomerSchemas \cup DOMAIN InsightSchemas
           \cup DOMAIN LedgerSchemas \cup DOMAIN SalesSchemas |->
     CASE t \in DOMAIN CustomerSchemas -> CustomerSchemas[t]
       [] t \in DOMAIN InsightSchemas -> InsightSchemas[t]
       [] t \in DOMAIN LedgerSchemas -> LedgerSchemas[t]
       [] t \in DOMAIN SalesSchemas -> SalesSchemas[t]]

(* The registered functions: the names of their parameters, and which have *)
(* no default.                                                              *)
Signature(parameters, mandatory) == [parameters |-> parameters, mandatory |-> mandatory]
OfCustomer == Signature({"customer_name"}, {"customer_name"})
TOOL_REGISTRY ==
  [get_customer_balance |-> OfCustomer,
   get_customer_summary |-> OfCustomer,
   get_payment_history |-> OfCustomer,
   get_customer_insights |-> OfCustomer,
   get_product_insights |-> Signature({"product_name"}, {"product_name"}),
   get_customer_statement |-> Signature({"customer_name", "period"}, {"customer_name"}),
   get_top_debtors |-> Signature({"limit", "period"}, {}),
   get_collection_priorities |-> Signature({"limit"}, {}),
   get_business_alerts |-> Signature({"limit"}, {}),
   get_dashboard_summary |-> Signature({}, {}),
   get_unpaid_invoices |-> Signature({"customer_name", "period"}, {}),
   get_overdue_invoices |-> Signature({"period"}, {}),
   get_top_selling_products |-> Signature({"period", "month", "year", "limit"}, {}),
   get_sales_summary |-> Signature({"period", "month", "year"}, {})]

(* _validate_registry, run at import. *)
RegistryValid == DOMAIN TOOL_SCHEMAS = DOMAIN TOOL_REGISTRY

(* execute_tool: an unregistered name raises KeyError, a call that Python   *)
(* cannot bind raises TypeError.                                            *)
Binds(name, arguments) ==
  /\ name \in DOMAIN TOOL_REGISTRY
  /\ TOOL_REGISTRY[name].mandatory \subseteq arguments
  /\ arguments \subseteq TOOL_REGISTRY[name].parameters

(* What a schema lets the language model send. *)
SchemaCalls(name) == {a \in SUBSET DOMAIN TOOL_SCHEMAS[name].properties :
                        TOOL_SCHEMAS[name].required \subseteq a}
=============================================================================
