------------------------- MODULE MCServiceCollector -------------------------
(***************************************************************************)
(* Service lists for the instances of ServiceCollector, as Sanitiser makes *)
(* them of configuration files: a service that comes, goes, is disabled    *)
(* and changes its interval beside another one; and two entries that       *)
(* ServiceNames gives one name.                                            *)
(***************************************************************************)
EXTENDS ServiceCollector, MCDefaults

S == INSTANCE Sanitiser WITH Defaults <- SmallDefaults, DefaultTimeout <- 1

Entry(name, interval) ==
    [name |-> name, enabled |-> "unset", type |-> "http", validTarget |-> TRUE,
     interval |-> interval, timeout |-> 0, statuses |-> {}]

\* What CollectDue reads of a list of services.
Listed(entries) ==
    LET services == S!Services(entries, SmallDefaults.collection["service"]) IN
      [i \in DOMAIN services |-> [name |-> services[i].name, interval |-> services[i].interval]]

Disabled(entry) == [entry EXCEPT !.enabled = "false"]

Edits == {Listed(entries) : entries \in
    {<<Disabled(Entry("api", 1))>>,
     <<Entry("api", 1), Disabled(Entry("db", 1))>>,
     <<Entry("db", 1), Entry("db", 2)>>,
     <<Entry("api", 0), Entry("db", 1)>>}}
=============================================================================
