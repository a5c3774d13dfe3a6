--------------------------- MODULE MCAdministration ---------------------------
(* The administration of the gateway and the monthly quota, each part checked    *)
(* alone: subject names the part that runs, the others keep their first state.    *)
EXTENDS RelayQuota, SupplierAccount, ModelAdmission, RoutingPages, TLC

VARIABLE subject

Subjects == {"quota", "supplier", "reading", "alerts", "adjustment", "diagnosis",
             "admission", "channels", "models"}

\* Two requests of one user, cheap ones and dear ones, and a quota that holds two
\* cheap ones or one dear one; the user may become an
\* administrator and cease to be one.
Prices == {0, 1, 2}
Quotas == {0, 2}
BothWays == {<<"limited", "unlimited">>, <<"unlimited", "limited">>}
\* The first channel speaks two protocols.
SpokenProtocols == [c \in Upstream |-> IF c = "c1" THEN {"chat", "responses"} ELSE {"chat"}]
\* Successes and failures around the limits of 3 failures and 95 percent.
Windows == {[successes |-> 0, failures |-> 0], [successes |-> 57, failures |-> 3],
            [successes |-> 56, failures |-> 3], [successes |-> 40, failures |-> 2],
            [successes |-> 1, failures |-> 0]}

AdministrationVars == <<quotaVars, SupplierVars, readingVars, AlertVars, adjustmentVars,
                        diagnosisVars, admissionVars, channelPageVars, modelPageVars,
                        subject>>

Init ==
    /\ subject \in Subjects
    /\ subject = "quota" \/ (subject # "quota" /\ role = "limited" /\ baseQuota = 0)
    /\ subject = "diagnosis" \/ (subject # "diagnosis" /\ auto = TRUE)
    /\ QuotaInit /\ SupplierInit /\ ReadingInit /\ AlertInit /\ AdjustmentInit
    /\ DiagnosisInit /\ AdmissionInit /\ ChannelPageInit /\ ModelPageInit
    /\ AdministrationVars = AdministrationVars  \* the functions of the idle parts are evaluated here

Next ==
    /\ UNCHANGED subject
    /\ \/ /\ subject = "quota" /\ QuotaNext
          /\ UNCHANGED <<SupplierVars, readingVars, AlertVars, adjustmentVars,
                         diagnosisVars, admissionVars, channelPageVars, modelPageVars>>
       \/ /\ subject = "supplier" /\ SupplierNext
          /\ UNCHANGED <<quotaVars, readingVars, AlertVars, adjustmentVars,
                         diagnosisVars, admissionVars, channelPageVars, modelPageVars>>
       \/ /\ subject = "reading" /\ ReadingNext
          /\ UNCHANGED <<quotaVars, SupplierVars, AlertVars, adjustmentVars,
                         diagnosisVars, admissionVars, channelPageVars, modelPageVars>>
       \/ /\ subject = "alerts" /\ AlertNext
          /\ UNCHANGED <<quotaVars, SupplierVars, readingVars, adjustmentVars,
                         diagnosisVars, admissionVars, channelPageVars, modelPageVars>>
       \/ /\ subject = "adjustment" /\ AdjustmentNext
          /\ UNCHANGED <<quotaVars, SupplierVars, readingVars, AlertVars, diagnosisVars,
                         admissionVars, channelPageVars, modelPageVars>>
       \/ /\ subject = "diagnosis" /\ DiagnosisNext
          /\ UNCHANGED <<quotaVars, SupplierVars, readingVars, AlertVars,
                         adjustmentVars, admissionVars, channelPageVars, modelPageVars>>
       \/ /\ subject = "admission" /\ AdmissionNext
          /\ UNCHANGED <<quotaVars, SupplierVars, readingVars, AlertVars,
                         adjustmentVars, diagnosisVars, channelPageVars, modelPageVars>>
       \/ /\ subject = "channels" /\ ChannelPageNext
          /\ UNCHANGED <<quotaVars, SupplierVars, readingVars, AlertVars,
                         adjustmentVars, diagnosisVars, admissionVars, modelPageVars>>
       \/ /\ subject = "models" /\ ModelPageNext
          /\ UNCHANGED <<quotaVars, SupplierVars, readingVars, AlertVars,
                         adjustmentVars, diagnosisVars, admissionVars, channelPageVars>>

\* Only the part that runs moves: its variables tell the states apart.
Focus ==
    CASE subject = "quota" -> <<subject, quotaVars>>
      [] subject = "supplier" -> <<subject, SupplierVars>>
      [] subject = "reading" -> <<subject, readingVars>>
      [] subject = "alerts" -> <<subject, AlertVars>>
      [] subject = "adjustment" -> <<subject, adjustmentVars>>
      [] subject = "diagnosis" -> <<subject, diagnosisVars>>
      [] subject = "admission" -> <<subject, admissionVars>>
      [] subject = "channels" -> <<subject, channelPageVars>>
      [] subject = "models" -> <<subject, modelPageVars>>

Spec == Init /\ [][Next]_AdministrationVars

\* Every part keeps its variables in their types: no ledger is negative, one lock is
\* held by one task, a row holds what its columns take, a dialog what it was opened for.
TypeOK ==
    /\ subject = "quota" => QuotaTypeOK
    /\ subject = "supplier" => SupplierTypeOK
    /\ subject = "reading" => ReadingTypeOK
    /\ subject = "alerts" => AlertTypeOK
    /\ subject = "adjustment" => AdjustmentTypeOK
    /\ subject = "diagnosis" => DiagnosisTypeOK
    /\ subject = "admission" => AdmissionTypeOK
    /\ subject = "channels" => ChannelPageTypeOK
    /\ subject = "models" => ModelPageTypeOK
=============================================================================
