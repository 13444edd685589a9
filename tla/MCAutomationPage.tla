------------------------- MODULE MCAutomationPage -------------------------
(* Two tasks, the newer one created by the page.                           *)
EXTENDS AutomationPage

CONSTANTS t1, t2

MCIds == <<t2, t1>>
=============================================================================
