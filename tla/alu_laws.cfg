SPECIFICATION Spec
CONSTANT Width = 5
INVARIANTS Closed DivisionLaw RolRotatesLeft
