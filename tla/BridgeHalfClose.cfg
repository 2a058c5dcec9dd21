\* A client that ends its direction after its request.
SPECIFICATION Spec
CONSTANTS
    Clients = {c1}
CHECK_DEADLOCK FALSE
PROPERTIES
    OtherDirectionGoesOn
